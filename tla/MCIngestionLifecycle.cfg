SPECIFICATION Spec
CONSTANTS
    w1 = w1
    w2 = w2
    i1 = i1
    i2 = i2
    Items = {i1, i2}
    Workers = {w1, w2}
    MaxAttempts = 2
    LeaseDuration = 1
    Skew <- MCSkew
    MaxClock = 3
    MaxFaults = 1
    NoItem = NoItem
INVARIANTS
    TypeOK
    FencingToken
    ChunksOfCompletingAttempt
    PendingIsClaimable
PROPERTIES
    LiveLeaseRespected
    ImplementsLeasedJob
SYMMETRY ItemSymmetry
