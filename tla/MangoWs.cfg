SPECIFICATION Spec
CONSTANTS
    WB_TOT = 4
    ChunkOverhead = 4
    LastChunkSz = 5
    Methods = {"GET", "POST"}
    LineSizes = {1}
    ReqHeaders <- OnlyChunked
    DataSizes = {0, 1}
    PollTimeouts = {0, 1}
    Replies <- WsReplies
    Frames <- WsFrames
    Interims = TRUE
    MaxRequests = 2
    MaxCalls = 3
    MaxFrames = 3
CHECK_DEADLOCK FALSE
INVARIANT EnsuresHold
INVARIANT InStep
INVARIANT MessagesInOrder
