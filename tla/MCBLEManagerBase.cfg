SPECIFICATION FairSpec
CONSTANTS
    NumInit = 2
    NumCanInit = 2
    NumPids = 2
    Notifications = {0, 1, 2}
    PromptBufferMax = 1
    AdapterBuffer = 2
    MaxQueue = 1
    OnTime = FALSE
INVARIANTS
    TypeOK
    NeverTerminates
    HandleMatchesFlag
PROPERTIES
    StopReturns
    OrphanExits
