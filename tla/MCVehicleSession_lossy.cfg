SPECIFICATION FairSpec
CONSTANTS
    NumInit = 2
    NumCanInit = 1
    NumPids = 1
    Notifications = {1}
    PromptBufferMax = 0
    AdapterBuffer = 1
    MaxQueue = 1
    OnTime = FALSE
    LinkCanFail = TRUE
    Requests = {"connect", "disconnect", "switch"}
INVARIANTS
    NeverTerminates
    HandleMatchesFlag
    NoForgottenLink
PROPERTIES
    RequestsReturn
