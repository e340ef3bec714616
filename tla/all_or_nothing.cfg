SPECIFICATION Spec
CONSTANTS
    Instance = {i1}
    MaxBatch = 1
    Chunks <- MCOneChunk
    AdvisoryLock = FALSE
    MaxReading = 1
    MaxCancels = 0
    MaxAged = 0
    MaxCrashes = 0
    MaxFaults = 1
INVARIANTS
    LoadedIsAllOrNothing
CHECK_DEADLOCK FALSE
