SPECIFICATION Spec
CONSTANTS
  h0 = h0
  h1 = h1
  h2 = h2
  Workers = {w1}
  MaxCheckpoint = 1
  Hashes = {h0, h1}
  BaseHash = h0
  Approvals = {a1}
  MayCrash = FALSE
SYMMETRY PolicySymmetry
CHECK_DEADLOCK FALSE
INVARIANTS SelectionWasPromoted
