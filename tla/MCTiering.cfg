SPECIFICATION Spec
CONSTANTS
    p1 = p1
    p2 = p2
    NULL = NULL
    Uninit = Uninit
    Partitions <- TwoPartitions
    WriteSizes <- OneOrTwoRows
    MaxGroups = 5
    MaxRows = 5
    MaxJobs = 2
    RowgroupSize = 2
    BatchTieringSize = 2
    MaxMemory = 3
    Overhead = 1
    NoEviction = {TRUE, FALSE}
    WriteMayFail = FALSE
    EvictQueueSize = 2
    FreeQueueSize = 2
    QueueMax = 100
INVARIANTS
    NoAssertFails
    PersistedIsStored
    ScanReturnsAllRows
    MemoryBounded
    OwnershipInv
    ContentInv
PROPERTIES
    SealedGroupsFrozen
    ImplementsLog
