SPECIFICATION Spec
CONSTANTS
    Instance = {i1}
    MaxBatch = 2
    Chunks <- MCOneChunk
    AdvisoryLock = FALSE
    MaxReading = 2
    MaxCancels = 0
    MaxAged = 0
    MaxCrashes = 0
    MaxFaults = 0
INVARIANTS
    SingleUpload
CHECK_DEADLOCK FALSE
