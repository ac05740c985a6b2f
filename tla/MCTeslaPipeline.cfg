CONSTANTS
    Conversations <- MCConversations
    ChunkSizes = {1, 2, 3, 5, 7}
    MaxLosses = 2
SPECIFICATION Spec
CHECK_DEADLOCK FALSE
INVARIANTS TypeOK LossIsLocal StaysAligned FindsFrames
