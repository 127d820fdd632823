SPECIFICATION FairSpec

CONSTANTS
    b1 = b1
    b2 = b2
    b3 = b3
    c1 = c1
    c2 = c2
    k1 = k1
    r1 = r1
    s1 = s1
    w1 = w1
    w2 = w2
    Workers = {w1, w2}
    Cycles = {c1, c2}
    Beliefs = {}
    Changes = {s1}
    Checkpoints = {}
    Restorations = {}
    None = None
    ClaimOf <- Claim
    MayCrash = TRUE
    MayRaise = TRUE


CHECK_DEADLOCK FALSE

PROPERTIES
    EveryChatEnds
