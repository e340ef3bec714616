SPECIFICATION Spec
CONSTANTS
    Instance = {i1, i2}
    MaxBatch = 1
    Chunks <- MCOneChunk
    AdvisoryLock = FALSE
    MaxReading = 1
    MaxCancels = 1
    MaxAged = 0
    MaxCrashes = 0
    MaxFaults = 0
INVARIANTS
    CancelIsFinal
CHECK_DEADLOCK FALSE
