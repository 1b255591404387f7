SPECIFICATION SpecModules
CONSTANTS
    PstStarts <- PstScenarios
    Clients = {"c1", "c2", "c3"}
    Keys = {"a", "b"}
    Replicas = {"r1", "r2"}
    CmStarts <- CmScenarios
    IoClients = {"c1", "c2", "master"}
    IoMaster = "master"
    BufCap = 2
    ChunkCap = 3
    HardLimit = 7
    SoftLimit = 5
    SoftSeconds = 0
    IoStarts <- IoScenarios
    ScBodies <- ScripBodies
    ScCacheSize = 1
    ScLinkMax = 4
    ScMaxVal = 4
    ScStarts <- ScScenarios
    PsHome <- PsClientHome
    PsStarts <- PsScenarios
    MoClients = {"c1", "c2"}
    MoPipe = 1
    MoStarts <- CallbackWrites
    CfKb = 2
    CfInt = 8
    CfStarts <- CfScenarios
INVARIANT ModuleStreamClosed
CHECK_DEADLOCK FALSE
