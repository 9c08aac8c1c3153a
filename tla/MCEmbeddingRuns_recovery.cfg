SPECIFICATION FairSpec
CONSTANTS
    t1 = t1
    t2 = t2
    c1 = c1
    c2 = c2
    w1 = w1
    w2 = w2
    q1 = q1
    Targets = {t1, t2}
    Requests = {c1}
    Workers = {w1}
    Recoveries = {q1}
    MaxAttempts = 2
    BatchSize = 1
    MaxRuns = 2
    MaxFailures = 1
    NoTarget = NoTarget
PROPERTIES
    EveryRunEnds
CHECK_DEADLOCK FALSE
