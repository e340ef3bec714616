SPECIFICATION Spec
CONSTANTS
    Instance = {i1, i2}
    MaxBatch = 1
    Chunks <- MCChunks
    AdvisoryLock = FALSE
    MaxReading = 1
    MaxCancels = 1
    MaxAged = 1
    MaxCrashes = 1
    MaxFaults = 2
INVARIANTS
    TypeOK
    IInv
    LoadedIsComplete
    RollbackLeavesNothing
    FinishedIsTerminal
PROPERTIES
    ImportsAtomically
CHECK_DEADLOCK FALSE
