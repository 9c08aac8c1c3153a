SPECIFICATION FairSpec
CONSTANTS
    w1 = w1
    w2 = w2
    i1 = i1
    p1 = p1
    Items = {i1}
    Workers = {w1, w2}
    MaxAttempts = 2
    LeaseDuration = 1
    Skew <- MCSkew
    NoItem = NoItem
    Publishers = {p1}
    BatchLimit = 1
    PublishLease = 1
    MaxClock = 2
    MaxFaults = 1
    MaxFailures = 1
    MaxRows = 3
    MaxQueue = 2
INVARIANTS
    OneWaitingJob
    PendingHasJob
PROPERTIES
    PendingMovesOn
CHECK_DEADLOCK FALSE
