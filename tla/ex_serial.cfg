SPECIFICATION Spec
CONSTANTS
  w1 = w1
  w2 = w2
  e1 = e1
  e2 = e2
  good = good
  bad = bad
  v1 = v1
  v2 = v2
  a1 = a1
  a2 = a2
  e3 = e3
  Workers = {w1}
  Experiences = {e1, e2, e3}
  Private = {e3}
  KeyOf <- SameKey
  Outcomes = {good, bad}
  NoOutcome = NoOutcome
  Verifications = {v1, v2}
  Approvals = {a1, a2}
  NoApproval = NoApproval
  MaxEvaluations = 1
  MaxRecords = 1
  MayCrash = FALSE
SYMMETRY Symmetry
INVARIANTS
  DatasetsSigned
  LearnedIsSigned
  DatasetsDistinct
CHECK_DEADLOCK FALSE
