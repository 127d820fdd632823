SPECIFICATION FairSpec
CONSTANTS
  m1 = m1
  m2 = m2
  m3 = m3
  i1 = i1
  i2 = i2
  k1 = k1
  k2 = k2
  Workers = {w1, w2}
  Messages = {m1, m2, m3}
  Ids = {i1, i2}
  IdOf <- RivalIds
  KeyOf <- RivalKeys
  External = {m3}
  MayCrash = TRUE
INVARIANTS
  TypeOK
  AtMostOnce
  EvidenceFirst
  AuditChain
PROPERTIES
  KeepsPromise
  EveryRequestDecided
CHECK_DEADLOCK FALSE
