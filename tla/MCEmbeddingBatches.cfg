\* Every small document of up to three blocks with several configurations; batches of two chunks or
\* six tokens, two at a time, two attempts each and two attempts of the run.
SPECIFICATION Spec
CONSTANTS
    Documents <- MCDocuments
    Configs <- MCConfigs
    HasFallback = TRUE
    BatchSize = 2
    MaxBatchTokens = 6
    Concurrency = 2
    MaxProviderAttempts = 2
    MaxAttempts = 2
INVARIANTS ChunksCoverDocument VectorsOfTheirChunks
PROPERTIES DocumentEnds
CHECK_DEADLOCK FALSE
