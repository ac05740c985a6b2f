CONSTANTS
    a1 = a1
    a2 = a2
    ble1 = ble1
    prompt = prompt
    cr = cr
    Apps = {a1, a2}
    BLE = ble1
    Calls = {"connect", "subscribe", "unsubscribe", "readData"}
    CallbackCalls = {"isConnected", "send"}
    MaxCalls = 3
    Stream <- LongStream
    Prompt = prompt
    CR = cr
    ChunkSizes = {1, 2, 5}
    Lossy = FALSE
SPECIFICATION Spec
CHECK_DEADLOCK FALSE
PROPERTIES DeliversAnswers
