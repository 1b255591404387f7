SPECIFICATION TySpec
CONSTANTS
    SoNumber <- SoNumbers
    SoLong = 8
    SoStarts <- SoScenarios
    ZsElements = {1, 2, 3, 5}
    ZsLong = {5}
    ZsScores = {0, 1}
    ZsMaxScore = 2
    ZsEntries = 2
    ZsMaxLevel = 2
    ZsStarts <- ZsScenarios
    SetInts <- FourInts
    SetWords = {101}
    Int16Max = 10
    Int32Max = 20
    SetMaxIntset = 3
    SpopMoveMul = 1
    SetStarts <- SetScenarios
    HashFields = {1, 2, 3}
    HashLong = {50}
    HashIntMax = 3
    HashEntries = 2
    HashStarts <- HashScenarios
    ExMaxTime = 4
    ExMaxVal = 4
    ExLinkMax = 3
    ExStarts <- ExScenarios
    HllP = 3
    HllQ = 3
    HllZeroMaxLen = 2
    HllValMaxLen = 3
    HllValMaxValue = 2
    HllHdrSize = 1
    HllSparseMaxBytes = 7
    HllStarts <- HllScenarios
    KsMaxRows = 5
    KsRowgroupSize = 2
    KsStarts <- Removals
    ColMaxRows = 3
    ColumnNumber = 2
    ColumnVectorSize = 2
    ColValues <- Values
    FltMaxTokens = 4
    FltMaxStatements = 1
    FltColumns <- Columns
    FltLike <- Like
    FltTokens <- Tokens
    FltPartitions <- Partitions
INVARIANTS
    
    
    ValuesHold
    
CHECK_DEADLOCK FALSE
