SPECIFICATION PrSpec
CONSTANTS
    NULL = NULL
    Uninit = Uninit
    Partitions = {p1, p2}
    WriteSizes = {1, 2}
    MaxGroups = 3
    MaxRows = 3
    MaxJobs = 2
    RowgroupSize = 2
    BatchTieringSize = 2
    MaxMemory = 3
    Overhead = 1
    NoEviction = {TRUE, FALSE}
    WriteMayFail = FALSE
    EvictQueueSize = 8
    FreeQueueSize = 8
    QueueMax = 100
    Waiters = {t1, t2}
    BioMaxJobs = 4
    SlotKeys = {"x"}
    MaxWrites = 2
    SlotStarts <- Resharding
    MfPrompt = TRUE
    MaxMfWrites = 2
    MaxMfAttempts = 2
INVARIANTS
    NoGroupForgotten
    BioKeepsPromises
    ListInv
PROPERTIES
    WaitStepCounts
    TieringProceeds
    BioProceeds
    ClusterProceeds
CHECK_DEADLOCK FALSE
