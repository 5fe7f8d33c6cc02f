SPECIFICATION FairSpec
CONSTANTS
    TASKS_CNT = 2
    QUEUE_SIZE = 2
    TIMER_CNT = 0
    Sigs = {A}
    S1 = S1
    S2 = S2
    S3 = S3
    States <- MCStates
    Owner <- MCOwner
    InitState <- MCInitState
    Timeouts = {0, 1}
    HandlerOps = {"post", "tran"}
    Hooked = FALSE
    IsrPosts = TRUE
    Masked = TRUE
INVARIANTS
    TypeOK
    QueueCoherent
    OwnState
    EntryFirst
PROPERTIES
    FifoMailboxes
    EveryQueueServed
