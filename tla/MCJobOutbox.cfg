SPECIFICATION FairSpec
CONSTANTS
    a1 = a1
    a2 = a2
    p1 = p1
    p2 = p2
    Aggregates = {a1, a2}
    Unroutable = {a2}
    Publishers = {p1, p2}
    BatchLimit = 2
    PublishLease = 1
    MaxClock = 2
    MaxFailures = 1
    MaxRows = 3
    MaxQueue = 1
INVARIANTS
    TypeOK
    ClaimToken
    DispatchedAtLeastOnce
PROPERTIES
    LivePublishLeaseRespected
    ClaimedRowsComeBack
CHECK_DEADLOCK FALSE
