SPECIFICATION Spec

CONSTANTS
    b1 = b1
    b2 = b2
    b3 = b3
    c1 = c1
    c2 = c2
    k1 = k1
    r1 = r1
    s1 = s1
    w1 = w1
    w2 = w2
    Workers = {w1, w2}
    Cycles = {c1, c2}
    Beliefs = {b1, b2}
    Changes = {}
    Checkpoints = {k1}
    Restorations = {r1}
    None = None
    ClaimOf <- Claim
    MayCrash = TRUE
    MayRaise = TRUE

SYMMETRY Symmetric

CHECK_DEADLOCK FALSE

INVARIANTS
    TypeOK
    StateRestsOnEvidence
    ContradictionsMarked
    FailureNotCommitted
    LossShows
