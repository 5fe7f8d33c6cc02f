SPECIFICATION FairSpec
CONSTANTS
    WB_TOT = 5
    ChunkOverhead = 2
    LastChunkSz = 5
    Methods = {"GET", "HEAD", "POST", "POST_CHUNKED"}
    LineSizes = {1, 6}
    ReqHeaders <- UploadHeaders
    DataSizes = {0, 1, 2}
    PollTimeouts = {0}
    Replies <- HttpReplies
    Frames <- NoFrames
    Interims = FALSE
    MaxRequests = 2
    MaxCalls = 3
    MaxFrames = 0
CHECK_DEADLOCK FALSE
INVARIANT EnsuresHold
INVARIANT InStep
INVARIANT ArgsMatch
INVARIANT AnswerComplete
PROPERTY WaitsEnd
