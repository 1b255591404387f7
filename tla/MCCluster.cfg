SPECIFICATION Spec
CONSTANTS
    Names = {1, 2, 3, 4, 5}
    SlotIds = {1, 2, 3}
    ClusterStarts <- Starts
    PromptVotes = TRUE
    MaxBusEpoch = 5
    FdMasters = {1, 2, 3}
    FdReplicas = {4}
    FullCoverage = TRUE
    MaxFdMsgs = 1
    FdBudgets <- Faults
    SlotKeys = {"x", "y"}
    MaxWrites = 2
    SlotStarts <- Resharding
    Procs = {1, 2, 3}
    FreshAddrs = {4, 5}
    MeetStarts <- Meetings
    MfPrompt = TRUE
    MaxMfWrites = 2
    MaxMfAttempts = 2
INVARIANTS
    
    EpochsAndViewsAgree
    
    
PROPERTIES
    SlotsFollowEpochs
CHECK_DEADLOCK FALSE
