SPECIFICATION Spec
CONSTANTS
    ReplNodes = {1, 2, 3}
    BacklogSize = 2
    ReplStarts <- Histories
    Sentinels = {1, 2, 3}
    Redises = {1, 2, 3}
    SenQuorum = 2
    SenStarts <- Failovers
    ScriptMaxQueue = 3
    ScriptMaxRunning = 3
    ScriptMaxRetry = 2
    ScriptStarts <- Scripts
INVARIANTS
    ReplicationIsExact
    OneLeaderPerEpoch
    FailoverIsSafe
CHECK_DEADLOCK FALSE
