SPECIFICATION FairSpec
CONSTANTS
    NumRecords = 5
    ChunkSize = 3
    SubChunkSize = 2
    MaxRetries = 3
    MaxTries = 3
INVARIANTS
    BulkInv
    NothingMissing
    ExactUnlessLost
    GoodRowsSaved
PROPERTY EventuallyEnds
CHECK_DEADLOCK FALSE
