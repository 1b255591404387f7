SPECIFICATION FairSpec
CONSTANTS
    p1 = p1
    p2 = p2
    NULL = NULL
    Uninit = Uninit
    Partitions <- OnePartition
    WriteSizes <- OneRow
    MaxGroups = 3
    MaxRows = 3
    MaxJobs = 2
    RowgroupSize = 2
    BatchTieringSize = 2
    MaxMemory = 3
    Overhead = 4
    NoEviction = {FALSE}
    WriteMayFail = FALSE
    EvictQueueSize = 16
    FreeQueueSize = 3
    QueueMax = 100
PROPERTIES
    WriteCompletes
