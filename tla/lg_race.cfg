SPECIFICATION Spec
CONSTANTS
  w1 = w1
  w2 = w2
  p1 = p1
  p2 = p2
  p3 = p3
  s1 = s1
  s2 = s2
  founder = founder
  other = other
  Workers = {w1, w2}
  Proposals = {p1}
  KindOf <- MemoryKind
  StrategyOf <- MemoryId
  Checkpoints = {}
  MayCrash = TRUE
  MaySeal = TRUE
  StrategyIds = {s1}
  Callers = {founder, other}
  FOUNDER = founder
SYMMETRY Symmetry
CHECK_DEADLOCK FALSE
INVARIANTS
  FounderGate
  StatusIsLogged
  AuditFirst
PROPERTIES
  KeepsPromise
  DecisionsStand
