\* Two calls, pipelines or uploads or registrations, on one document, and one
\* request that creates, publishes, withdraws and archives versions.
SPECIFICATION UploadsSpec
CONSTANTS
    Documents = {d1}
    Keys = {k1}
    Versions = {v1}
    Grantees = {g1}
    Requests = {c1, c2, r1}
    Callers = {c1, c2}
    Artifacts = {a1, a2}
    ArtifactKeys = {ak}
    MaxTime = 2
    None = None
INVARIANTS UploadsTypeOK QueuedItemHasObject RowHasObject NoOrphans
PROPERTIES UploadsJoinDrafts
CHECK_DEADLOCK FALSE
