SPECIFICATION Spec
CONSTANTS
  w1 = w1
  w2 = w2
  p1 = p1
  p2 = p2
  p3 = p3
  s1 = s1
  s2 = s2
  founder = founder
  other = other
  Workers = {w1}
  Proposals = {p1, p2, p3}
  KindOf <- MixedKinds
  StrategyOf <- MixedIds
  Checkpoints = {c1}
  MayCrash = FALSE
  MaySeal = FALSE
  StrategyIds = {s1, s2}
  Callers = {founder, other}
  FOUNDER = founder
CHECK_DEADLOCK FALSE
INVARIANTS
  TypeOK
  ActiveIsLearned
