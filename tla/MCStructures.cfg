SPECIFICATION StSpec
CONSTANTS
    entry1 = entry1
    entry2 = entry2
    NULL = NULL
    Uninit = Uninit
    Entries <- MCEntries
    Capacity = 2
    QueueMax = 7
    MaxSize = 7
    DictBits = 3
    DictInitialSize = 2
    DictMinFill = 60
    DictForceRatio = 5
    DictEmptyVisits = 2
    DictStarts <- DictScenarios
    ZlElements <- ZlEls
    ZlLenMax = 3
    ZlStarts <- ZlScenarios
    QlValues = {"a", "b"}
    QlFill = 2
    QlDepth = 1
    QlMinCompress = 1
    QlStarts <- QlScenarios
    RaxWords <- Words
    RaxProbes <- Probes
    RaxStarts <- RaxScenarios
    LzfStarts <- LzfScenarios
    RdbInts <- RdbNumbers
    RdbStarts <- RdbScenarios
    ByteBits = 2
    WordBits = 4
    BitopWords = 1
    BitStarts <- BitScenarios
    AeSec = 2
    AeStarts <- AeScenarios
INVARIANTS
    AeServesEvents
    RingHoldsEntries
    StructuresHold
    
PROPERTIES
    GrowthFromBaseKeepsAll
    ImplementsLossy
CHECK_DEADLOCK FALSE
