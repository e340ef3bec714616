SPECIFICATION FairSpec
CONSTANTS
    Instance = {i1}
    MaxBatch = 2
    Chunks <- MCOneChunk
    AdvisoryLock = TRUE
    MaxReading = 1
    MaxCancels = 0
    MaxAged = 2
    MaxCrashes = 1
    MaxFaults = 0
INVARIANTS
    LockHasHolder
PROPERTIES
    EventuallySettled
    LockGivenBack
CHECK_DEADLOCK FALSE
