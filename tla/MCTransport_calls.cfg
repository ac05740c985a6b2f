CONSTANTS
    a1 = a1
    a2 = a2
    ble1 = ble1
    prompt = prompt
    cr = cr
    Apps = {a1, a2}
    BLE = ble1
    Calls = {"connect", "disconnect", "send", "subscribe", "unsubscribe"}
    CallbackCalls = {}
    MaxCalls = 3
    Stream <- ShortStream
    Prompt = prompt
    CR = cr
    ChunkSizes = {1, 3}
    Lossy = TRUE
SPECIFICATION Spec
CHECK_DEADLOCK FALSE
INVARIANTS TypeOK Silence NoRepeat
PROPERTIES NothingHangs
