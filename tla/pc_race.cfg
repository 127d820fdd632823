SPECIFICATION Spec
CONSTANTS
  h0 = h0
  h1 = h1
  h2 = h2
  Workers = {w1, w2}
  MaxCheckpoint = 1
  Hashes = {h0, h1}
  BaseHash = h0
  Approvals = {a1, a2}
  MayCrash = TRUE
SYMMETRY PolicySymmetry
CHECK_DEADLOCK FALSE
INVARIANTS
  TypeOK
  ActivationAuthorized
  ActiveBounded
  NeverWithoutPolicy
PROPERTIES
  TakesEffect
