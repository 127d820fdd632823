SPECIFICATION Spec
CONSTANTS
  w1 = w1
  w2 = w2
  m1 = m1
  m2 = m2
  Workers = {w1, w2}
  Models = {m1, m2}
  MaxRequests = 4
  MayCrash = TRUE
SYMMETRY Symmetry
INVARIANTS
  TypeOK
  CreditIsDue
  RejectionNeedsTwo
  ErrorsAreProposed
  LostOnlyToRivals
CHECK_DEADLOCK FALSE
