SPECIFICATION Spec
CONSTANTS
    NumInit = 3
    NumCanInit = 3
    NumPids = 2
    Notifications = {0, 1}
    PromptBufferMax = 1
    AdapterBuffer = 4
    MaxQueue = 3
    OnTime = TRUE
    LinkCanFail = FALSE
    Requests = {"connect", "disconnect", "startDemo", "stopDemo"}
INVARIANTS
    TypeOK
    NoLostWakeup
    ModeMatches
    DemoHasNoLink
PROPERTIES
    Paced
    ReleasedAfterPolling
    PollingStarts
