\* One document is created by one of two requests that may name the same key; three versions are
\* published, withdrawn and archived by two requests that run at the same time.
SPECIFICATION FairSpec
CONSTANTS
    Documents = {d1}
    Keys = {k1}
    Versions = {v1, v2, v3}
    Grantees = {g1}
    Requests = {r1, r2}
    MaxTime = 3
    None = None
INVARIANTS EffectiveAtMostOne EndsWhereSuccessorStarts
PROPERTIES EndedPeriodsStay StatusStepsForward AclOfActiveDocuments TransitionsEnd
CHECK_DEADLOCK FALSE
