SPECIFICATION Spec
CONSTANTS
  w1 = w1
  w2 = w2
  m1 = m1
  m2 = m2
  Workers = {w1}
  Models = {m1, m2}
  MaxRequests = 2
  MayCrash = FALSE
INVARIANTS
  FindingsAreProposed
CHECK_DEADLOCK FALSE
