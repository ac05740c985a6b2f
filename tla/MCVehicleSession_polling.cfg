SPECIFICATION FairSpec
CONSTANTS
    NumInit = 3
    NumCanInit = 3
    NumPids = 2
    Notifications = {0, 1}
    PromptBufferMax = 1
    AdapterBuffer = 4
    MaxQueue = 3
    OnTime = TRUE
    LinkCanFail = TRUE
    Requests = {"connect"}
PROPERTIES
    PollingStarts
