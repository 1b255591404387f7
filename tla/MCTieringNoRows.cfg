SPECIFICATION Spec
CONSTANTS
    p1 = p1
    p2 = p2
    NULL = NULL
    Uninit = Uninit
    Partitions <- OnePartition
    WriteSizes <- NoRowOrOne
    MaxGroups = 5
    MaxRows = 5
    MaxJobs = 2
    RowgroupSize = 2
    BatchTieringSize = 2
    MaxMemory = 3
    Overhead = 1
    NoEviction = {FALSE}
    WriteMayFail = FALSE
    EvictQueueSize = 2
    FreeQueueSize = 2
    QueueMax = 100
INVARIANTS
    NoAssertFails
CHECK_DEADLOCK FALSE
