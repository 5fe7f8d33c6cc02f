SPECIFICATION Spec
CONSTANTS
    TASKS_CNT = 1
    QUEUE_SIZE = 2
    TIMER_CNT = 2
    Sigs = {A, B}
    S1 = S1
    S2 = S2
    S3 = S3
    States <- OneStates
    Owner <- OneOwner
    InitState <- OneInitState
    Timeouts = {0, 1}
    HandlerOps = {"post", "set", "reload", "del", "power"}
    Hooked = TRUE
    IsrPosts = TRUE
    Masked = FALSE
INVARIANTS
    HookAsked
PROPERTIES
    PeriodicStaysArmed
CHECK_DEADLOCK FALSE
SYMMETRY SigSymmetry
