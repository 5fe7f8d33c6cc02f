-------------------------------- MODULE Fsm --------------------------------
(***************************************************************************)
(* The event-driven state-machine kernel of apps/sample_fcmd/fsm_simple:   *)
(* one ring buffer of events per task, a round-robin dispatcher that takes *)
(* at most one event per task and round, the EXIT/ENTRY transition         *)
(* protocol, and a pool of software timers whose expiry posts an event.    *)
(*                                                                         *)
(* The task handlers are not in the repository (hal_active, task1_active,  *)
(* task2_active are extern): while a handler runs it may call any function *)
(* of the kernel named in HandlerOps, in any order, and then return.       *)
(***************************************************************************)
EXTENDS Integers, Sequences

CONSTANTS
    TASKS_CNT,      \* number of tasks
    QUEUE_SIZE,     \* slots of a task's event queue
    TIMER_CNT,      \* slots of the timer pool
    Sigs,           \* the user events
    States,         \* the state handlers
    Owner,          \* the task whose code each state handler is
    InitState,      \* tasks_pool's initializer
    Timeouts,       \* the timeouts passed to os_timer_set
    HandlerOps,     \* the kernel functions the handlers call
    Hooked,         \* TRUE: os_dispatch runs when dispatch_hook asks for it;
                    \* FALSE: the main loop calls it again and again
    IsrPosts,       \* TRUE: interrupt handlers call os_post_message too
    Masked          \* TRUE: PORT_CPU_DISABLE really masks interrupts

Tasks == 0 .. TASKS_CNT - 1
Slots == 0 .. QUEUE_SIZE - 1
Timers == 0 .. TIMER_CNT - 1

STM_ENTRY_SIG == "ENTRY"
STM_EXIT_SIG == "EXIT"
Events == Sigs \cup {STM_ENTRY_SIG, STM_EXIT_SIG}

INVALID_TASK_ID == 255
UINT8 == 256                            \* used is a uint8_t

ASSUME FsmAssumption ==
    /\ TASKS_CNT \in 1 .. INVALID_TASK_ID - 1
    /\ QUEUE_SIZE \in 1 .. UINT8 - 1
    /\ TIMER_CNT \in Nat
    /\ Timeouts \subseteq Nat
    /\ STM_ENTRY_SIG \notin Sigs /\ STM_EXIT_SIG \notin Sigs
    /\ Owner \in [States -> Tasks]
    /\ InitState \in [Tasks -> States]
    /\ \A t \in Tasks : Owner[InitState[t]] = t
    /\ Hooked \in BOOLEAN /\ IsrPosts \in BOOLEAN /\ Masked \in BOOLEAN

(***************************************************************************)
(* An interrupt can land inside a critical section only when interrupts    *)
(* post and the port's macros expand to nothing.                           *)
(***************************************************************************)
Torn == IsrPosts /\ ~Masked

VARIABLES
    tasks_queue,    \* [Tasks -> queue_t]
    tasks_pool,     \* the current state handler of each task
    tran,           \* stm_ret_value == STM_TRAN
    stm_state_temp, \* the state os_stm_tran asked for
    next_dispatch,
    dispatch_hook,  \* a hook is registered
    timer_pool,     \* [Timers -> timer_t]
    power,          \* power_task_state: the tasks holding the power
    pc,             \* where the main context is
    i,              \* the loop index of os_dispatch / os_timer_update
    reg,            \* tasks_queue[i].used as os_dispatch tested it
    e,              \* the event os_dispatch took
    call,           \* a half-done os_post_message of the main context
    wake,           \* dispatch_hook asked for an os_dispatch (history)
    entered,        \* the state that last got STM_ENTRY_SIG, per task (history)
    refused         \* tasks whose STM_ENTRY_SIG met a full queue (history)

stmVars == <<tasks_pool, tran, stm_state_temp, entered>>
loopVars == <<pc, i, reg, e>>
bootVars == <<dispatch_hook, refused>>
vars == <<tasks_queue, stmVars, next_dispatch, bootVars, timer_pool,
          power, loopVars, call, wake>>

NoCall == [active |-> FALSE]
QueueT == [head : Slots, tail : Slots, used : 0 .. UINT8 - 1,
           buf : [Slots -> Events]]
TimerT == [task_id : Tasks \cup {INVALID_TASK_ID}, sig : Events,
           timeout : Nat, reload : Nat, periodic : BOOLEAN]

CallT == {NoCall} \cup [active : {TRUE}, to : Tasks, reg : 0 .. UINT8 - 1]

StoreOK ==
    /\ tasks_queue \in [Tasks -> QueueT]
    /\ tasks_pool \in [Tasks -> States]
    /\ tran \in BOOLEAN
    /\ stm_state_temp \in States
    /\ next_dispatch \in BOOLEAN /\ dispatch_hook \in BOOLEAN /\ wake \in BOOLEAN
    /\ timer_pool \in [Timers -> TimerT]
    /\ power \in SUBSET Tasks
    /\ reg \in 0 .. UINT8 - 1
    /\ e \in Events
    /\ call \in CallT
    /\ entered \in [Tasks -> States \cup {"none"}]
    /\ refused \in SUBSET Tasks

CursorOK ==
    /\ pc \in {"boot", "init", "idle", "scan", "deq", "run", "exit", "entry",
              "tick"}
    /\ i \in Nat
    /\ pc \in {"init", "scan"} => i <= TASKS_CNT
    /\ pc \in {"deq", "run", "exit", "entry"} => i \in Tasks
    /\ pc = "tick" => i <= TIMER_CNT

\* Every index stays in its array and every counter in its width.
TypeOK == StoreOK /\ CursorOK

(***************************************************************************)
(* Static storage is zero: every queue is empty, and every timer slot      *)
(* still names task 0.                                                     *)
(***************************************************************************)
Init ==
    /\ tasks_queue = [t \in Tasks |->
           [head |-> 0, tail |-> 0, used |-> 0,
            buf |-> [s \in Slots |-> STM_ENTRY_SIG]]]
    /\ tasks_pool = InitState
    /\ tran = FALSE
    /\ stm_state_temp = InitState[0]
    /\ next_dispatch = FALSE /\ dispatch_hook = FALSE /\ wake = FALSE
    /\ timer_pool = [k \in Timers |->
           [task_id |-> 0, sig |-> STM_ENTRY_SIG, timeout |-> 0,
            reload |-> 0, periodic |-> FALSE]]
    /\ power = {}
    /\ pc = "boot" /\ i = 0 /\ reg = 0 /\ e = STM_ENTRY_SIG
    /\ call = NoCall
    /\ entered = [t \in Tasks |-> "none"] /\ refused = {}

-----------------------------------------------------------------------------
(***************************************************************************)
(* Queue operations.                                                       *)
(***************************************************************************)
\* mutant: > for >=
WrapLate(x) == IF x > QUEUE_SIZE THEN 0 ELSE x

Wrap(x) == IF x >= QUEUE_SIZE THEN 0 ELSE x

\* mutant: tail moves before the event is stored
PutSlotLate(q, s) ==
    [q EXCEPT !.buf[Wrap(q.tail + 1)] = s, !.tail = Wrap(q.tail + 1)]

PutSlot(q, s) ==                        \* buf[tail] = e; tail++
    [q EXCEPT !.buf[q.tail] = s, !.tail = Wrap(q.tail + 1)]

Enqueue(q, s) == [PutSlot(q, s) EXCEPT !.used = (@ + 1) % UINT8]

\* next_dispatch and the hook, once a message was stored
Notify ==
    /\ next_dispatch' = TRUE
    /\ wake' = (wake \/ (dispatch_hook /\ ~next_dispatch))

\* mutant: > for >=
FullLate(t) == tasks_queue[t].used > QUEUE_SIZE

Full(t) == tasks_queue[t].used >= QUEUE_SIZE

\* os_post_message run without interruption
Post(t, s) ==
    \/ /\ Full(t)                       \* QUEUE_FULLED, dropped
       /\ UNCHANGED <<tasks_queue, next_dispatch, wake>>
    \/ /\ ~Full(t)
       /\ tasks_queue' = [tasks_queue EXCEPT ![t] = Enqueue(@, s)]
       /\ Notify

(***************************************************************************)
(* os_post_message called by the main context.  With unmasked interrupts   *)
(* the store of used++ is a step of its own: the compiler holds used in a  *)
(* register from the test on.                                              *)
(***************************************************************************)
MainPost(t, s) ==
    IF Torn /\ ~Full(t)
    THEN /\ tasks_queue' = [tasks_queue EXCEPT ![t] = PutSlot(@, s)]
         /\ call' = [active |-> TRUE, to |-> t, reg |-> tasks_queue[t].used]
         /\ UNCHANGED <<next_dispatch, wake>>
    ELSE Post(t, s) /\ UNCHANGED call

FinishPost ==
    /\ call.active
    /\ tasks_queue' = [tasks_queue EXCEPT ![call.to].used = (call.reg + 1) % UINT8]
    /\ call' = NoCall
    /\ Notify
    /\ UNCHANGED <<stmVars, bootVars, timer_pool, power, loopVars>>

\* os_post_message called by an interrupt, start-up included; an application
\* that wants the hook registers it before it enables interrupts
IsrPost(t, s) ==
    /\ IsrPosts
    /\ Hooked => dispatch_hook
    /\ Post(t, s)
    /\ UNCHANGED <<stmVars, bootVars, timer_pool, power, loopVars, call>>

-----------------------------------------------------------------------------
(***************************************************************************)
(* Start-up.                                                               *)
(***************************************************************************)
os_register_hook ==
    /\ pc = "boot" /\ Hooked
    /\ ~dispatch_hook
    /\ dispatch_hook' = TRUE
    /\ UNCHANGED <<tasks_queue, stmVars, next_dispatch, refused, timer_pool,
                   power, loopVars, call, wake>>

\* os_init_tasks posts STM_ENTRY_SIG to one task after the other, and
\* interrupts may post in between
os_init_tasks ==
    /\ pc = "boot"
    /\ Hooked => dispatch_hook
    /\ pc' = "init" /\ i' = 0
    /\ UNCHANGED <<tasks_queue, stmVars, next_dispatch, bootVars,
                   timer_pool, power, reg, e, call, wake>>

InitTask ==
    /\ pc = "init" /\ ~call.active /\ i < TASKS_CNT
    /\ MainPost(i, STM_ENTRY_SIG)
    /\ refused' = IF Full(i) THEN refused \cup {i} ELSE refused
    /\ i' = i + 1
    /\ UNCHANGED <<stmVars, dispatch_hook, timer_pool, power, pc, reg, e>>

\* its second loop empties the timer pool, which no interrupt touches
InitTimers ==
    /\ pc = "init" /\ ~call.active /\ i = TASKS_CNT
    /\ timer_pool' = [k \in Timers |->
           [timer_pool[k] EXCEPT !.task_id = INVALID_TASK_ID]]
    /\ pc' = "idle"
    /\ UNCHANGED <<tasks_queue, stmVars, next_dispatch, bootVars, power,
                   i, reg, e, call, wake>>

-----------------------------------------------------------------------------
(***************************************************************************)
(* os_dispatch: one round over the tasks, at most one event each.          *)
(***************************************************************************)
\* mutant: the loop starts at 1
DispatchBeginAtOne ==
    /\ pc = "idle" /\ ~call.active
    /\ Hooked => wake
    /\ next_dispatch' = FALSE
    /\ wake' = FALSE
    /\ pc' = "scan" /\ i' = 1
    /\ UNCHANGED <<tasks_queue, stmVars, bootVars, timer_pool, power,
                   reg, e, call>>

\* mutant: next_dispatch is not cleared
DispatchBeginNoClear ==
    /\ pc = "idle" /\ ~call.active
    /\ Hooked => wake
    /\ wake' = FALSE
    /\ pc' = "scan" /\ i' = 0
    /\ UNCHANGED <<tasks_queue, stmVars, next_dispatch, bootVars,
                   timer_pool, power, reg, e, call>>

DispatchBegin ==
    /\ pc = "idle" /\ ~call.active
    /\ Hooked => wake
    /\ next_dispatch' = FALSE
    /\ wake' = FALSE
    /\ pc' = "scan" /\ i' = 0
    /\ UNCHANGED <<tasks_queue, stmVars, bootVars, timer_pool, power,
                   reg, e, call>>

\* the test of tasks_queue[i].used, outside the critical section
ScanTask ==
    /\ pc = "scan" /\ i < TASKS_CNT
    /\ \/ /\ tasks_queue[i].used = 0
          /\ i' = i + 1
          /\ UNCHANGED <<pc, reg>>
       \/ /\ tasks_queue[i].used > 0
          /\ pc' = "deq" /\ reg' = tasks_queue[i].used
          /\ UNCHANGED i
    /\ UNCHANGED <<tasks_queue, stmVars, next_dispatch, bootVars,
                   timer_pool, power, e, call, wake>>

\* the critical section that takes the event, and the call of the handler
Dequeue ==
    LET q == tasks_queue[i]
        used == IF Torn THEN reg ELSE q.used
    IN  /\ pc = "deq"
        /\ e' = q.buf[q.head]
        /\ tasks_queue' = [tasks_queue EXCEPT ![i].used = (used - 1) % UINT8,
                                              ![i].head = Wrap(q.head + 1)]
        /\ entered' = IF e' = STM_ENTRY_SIG
                      THEN [entered EXCEPT ![i] = tasks_pool[i]]
                      ELSE entered
        /\ pc' = "run"
        /\ UNCHANGED <<tasks_pool, tran, stm_state_temp, next_dispatch,
                       bootVars, timer_pool, power, i, reg, call, wake>>

\* mutant: stm_ret_value is not reset
RunReturnNoReset ==
    /\ pc = "run" /\ ~call.active
    /\ \/ /\ tran
          /\ pc' = "exit"
          /\ UNCHANGED <<i, tran>>
       \/ /\ ~tran
          /\ pc' = "scan" /\ i' = i + 1
          /\ UNCHANGED tran
    /\ UNCHANGED <<tasks_queue, tasks_pool, stm_state_temp, entered,
                   next_dispatch, bootVars, timer_pool, power, reg, e,
                   call, wake>>

\* the handler returns; a requested transition first sends EXIT to the old state
RunReturn ==
    /\ pc = "run" /\ ~call.active
    /\ \/ /\ tran
          /\ tran' = FALSE
          /\ pc' = "exit"
          /\ UNCHANGED i
       \/ /\ ~tran
          /\ pc' = "scan" /\ i' = i + 1
          /\ UNCHANGED tran
    /\ UNCHANGED <<tasks_queue, tasks_pool, stm_state_temp, entered,
                   next_dispatch, bootVars, timer_pool, power, reg, e,
                   call, wake>>

\* mutant: the new state gets no STM_ENTRY_SIG
ExitReturnNoEntry ==
    /\ pc = "exit" /\ ~call.active
    /\ pc' = "entry"
    /\ UNCHANGED <<tasks_queue, tasks_pool, tran, stm_state_temp, entered,
                   next_dispatch, bootVars, timer_pool, power, i, reg, e,
                   call, wake>>

\* EXIT done: ENTRY to the new state
ExitReturn ==
    /\ pc = "exit" /\ ~call.active
    /\ pc' = "entry"
    /\ entered' = [entered EXCEPT ![i] = stm_state_temp]
    /\ UNCHANGED <<tasks_queue, tasks_pool, tran, stm_state_temp,
                   next_dispatch, bootVars, timer_pool, power, i, reg, e,
                   call, wake>>

EntryReturn ==
    /\ pc = "entry" /\ ~call.active
    /\ tasks_pool' = [tasks_pool EXCEPT ![i] = stm_state_temp]
    /\ pc' = "scan" /\ i' = i + 1
    /\ UNCHANGED <<tasks_queue, tran, stm_state_temp, entered, next_dispatch,
                   bootVars, timer_pool, power, reg, e, call, wake>>

\* the round is over; os_power_sleep is an empty statement in this port
DispatchEnd ==
    /\ pc = "scan" /\ i = TASKS_CNT
    /\ pc' = "idle"
    /\ UNCHANGED <<tasks_queue, stmVars, next_dispatch, bootVars,
                   timer_pool, power, i, reg, e, call, wake>>

-----------------------------------------------------------------------------
(***************************************************************************)
(* Timers.  Both setters walk the pool and stop at the first slot that is  *)
(* either free or already serves the same task and event.                  *)
(***************************************************************************)
Serves(k, t, s) == timer_pool[k].task_id = t /\ timer_pool[k].sig = s
Free(k) == timer_pool[k].task_id = INVALID_TASK_ID

FirstSlot(t, s, k) ==
    /\ Serves(k, t, s) \/ Free(k)
    /\ \A m \in Timers : m < k => ~Serves(m, t, s) /\ ~Free(m)

\* mutant: an existing timer becomes one-shot
os_timer_set_once(t, s, n) ==
    \E k \in Timers :
        /\ FirstSlot(t, s, k)
        /\ timer_pool' = [timer_pool EXCEPT ![k] =
               IF Serves(k, t, s)
               THEN [@ EXCEPT !.timeout = n, !.periodic = FALSE]
               ELSE [@ EXCEPT !.sig = s, !.timeout = n, !.task_id = t,
                              !.periodic = FALSE]]

os_timer_set(t, s, n) ==
    \E k \in Timers :
        /\ FirstSlot(t, s, k)
        /\ timer_pool' = [timer_pool EXCEPT ![k] =
               IF Serves(k, t, s)
               THEN [@ EXCEPT !.timeout = n]
               ELSE [@ EXCEPT !.sig = s, !.timeout = n, !.task_id = t,
                              !.periodic = FALSE]]

os_reload_timer_set(t, s, n) ==
    \E k \in Timers :
        /\ FirstSlot(t, s, k)
        /\ timer_pool' = [timer_pool EXCEPT ![k] =
               IF Serves(k, t, s)
               THEN [@ EXCEPT !.reload = n]
               ELSE [@ EXCEPT !.sig = s, !.timeout = n, !.reload = n,
                              !.task_id = t, !.periodic = TRUE]]

os_timer_del(t, s) ==
    \E k \in Timers :
        /\ Serves(k, t, s)
        /\ \A m \in Timers : m < k => ~Serves(m, t, s)
        /\ timer_pool' = [timer_pool EXCEPT ![k].task_id = INVALID_TASK_ID,
                                            ![k].periodic = FALSE]

\* os_timer_update: the main loop calls it once per system tick
TickBegin ==
    /\ pc = "idle" /\ ~call.active
    /\ TIMER_CNT > 0
    /\ pc' = "tick" /\ i' = 0
    /\ UNCHANGED <<tasks_queue, stmVars, next_dispatch, bootVars,
                   timer_pool, power, reg, e, call, wake>>

TickTimer ==
    /\ pc = "tick" /\ ~call.active /\ i < TIMER_CNT
    /\ i' = i + 1
    /\ \/ /\ Free(i)
          /\ UNCHANGED <<tasks_queue, next_dispatch, wake, call, timer_pool>>
       \/ /\ ~Free(i) /\ timer_pool[i].timeout > 0
          /\ timer_pool' = [timer_pool EXCEPT ![i].timeout = @ - 1]
          /\ UNCHANGED <<tasks_queue, next_dispatch, wake, call>>
       \/ /\ ~Free(i) /\ timer_pool[i].timeout = 0
          /\ MainPost(timer_pool[i].task_id, timer_pool[i].sig)
          /\ timer_pool' = [timer_pool EXCEPT ![i] =
                 IF @.periodic THEN [@ EXCEPT !.timeout = timer_pool[i].reload]
                               ELSE [@ EXCEPT !.task_id = INVALID_TASK_ID]]
    /\ UNCHANGED <<stmVars, bootVars, power, pc, reg, e>>

TickEnd ==
    /\ pc = "tick" /\ ~call.active /\ i = TIMER_CNT
    /\ pc' = "idle"
    /\ UNCHANGED <<tasks_queue, stmVars, next_dispatch, bootVars,
                   timer_pool, power, i, reg, e, call, wake>>

-----------------------------------------------------------------------------
(***************************************************************************)
(* What a running handler of task i may call.                              *)
(***************************************************************************)
InHandler(op) ==
    /\ pc \in {"run", "exit", "entry"} /\ ~call.active
    /\ op \in HandlerOps

HandlerPost(t, s) ==
    /\ InHandler("post")
    /\ MainPost(t, s)
    /\ UNCHANGED <<stmVars, bootVars, timer_pool, power, loopVars>>

HandlerTimer(t, s) ==
    /\ \/ /\ InHandler("set")
          /\ \E n \in Timeouts : os_timer_set(t, s, n)
       \/ /\ InHandler("reload")
          /\ \E n \in Timeouts : os_reload_timer_set(t, s, n)
       \/ /\ InHandler("del")
          /\ os_timer_del(t, s)
    /\ UNCHANGED <<tasks_queue, stmVars, next_dispatch, bootVars, power,
                   loopVars, call, wake>>

\* os_stm_tran; a task names its own states, and not while it is handling
\* the EXIT or ENTRY of a transition under way
os_stm_tran(s) ==
    /\ InHandler("tran")
    /\ pc = "run" /\ Owner[s] = i
    /\ tran' = TRUE
    /\ stm_state_temp' = s
    /\ UNCHANGED <<tasks_queue, tasks_pool, entered, next_dispatch,
                   bootVars, timer_pool, power, loopVars, call, wake>>

os_power_set(t, hold) ==
    /\ InHandler("power")
    /\ power' = IF hold THEN power \cup {t} ELSE power \ {t}
    /\ UNCHANGED <<tasks_queue, stmVars, next_dispatch, bootVars,
                   timer_pool, loopVars, call, wake>>

-----------------------------------------------------------------------------
Kernel ==
    \/ os_register_hook \/ os_init_tasks \/ InitTask \/ InitTimers
    \/ DispatchBegin \/ ScanTask \/ Dequeue
    \/ RunReturn \/ ExitReturn \/ EntryReturn \/ DispatchEnd
    \/ TickBegin \/ TickTimer \/ TickEnd
    \/ FinishPost

Handler ==
    \/ \E t \in Tasks, s \in Sigs : HandlerPost(t, s) \/ HandlerTimer(t, s)
    \/ \E s \in States : os_stm_tran(s)
    \/ \E t \in Tasks, hold \in BOOLEAN : os_power_set(t, hold)

Isr == \E t \in Tasks, s \in Sigs : IsrPost(t, s)

Next == Kernel \/ Handler \/ Isr

Spec == Init /\ [][Next]_vars

(***************************************************************************)
(* The main loop keeps running: it finishes the os_dispatch and            *)
(* os_timer_update calls it starts, starts os_dispatch again and again,    *)
(* and the handlers it calls return.                                       *)
(***************************************************************************)
Fairness ==
    /\ WF_vars(os_register_hook) /\ WF_vars(os_init_tasks)
    /\ WF_vars(InitTask \/ InitTimers)
    /\ SF_vars(DispatchBegin)
    /\ WF_vars(ScanTask \/ Dequeue \/ DispatchEnd)
    /\ WF_vars(RunReturn) /\ WF_vars(ExitReturn) /\ WF_vars(EntryReturn)
    /\ WF_vars(TickTimer \/ TickEnd) /\ WF_vars(FinishPost)

FairSpec == Spec /\ Fairness

-----------------------------------------------------------------------------
(***************************************************************************)
(* Properties.                                                             *)
(***************************************************************************)
\* head, tail and used of a ring of QUEUE_SIZE slots always agree, and no
\* queue holds more than it has room for: os_post_message never overwrites
\* an event that os_dispatch has not taken, and os_dispatch never takes a
\* slot nobody filled.  (A post of the main context that is half done does
\* not count: its tail is ahead of its used.)
RingCoherent(q) ==
    /\ q.used <= QUEUE_SIZE
    /\ \/ q.tail = q.head + q.used
       \/ q.tail = q.head + q.used - QUEUE_SIZE

QueueCoherent ==
    \A t \in Tasks :
        ~(call.active /\ call.to = t) => RingCoherent(tasks_queue[t])

\* Between two events a task's handler is one of its own states: the
\* stm_state_temp and stm_ret_value that all tasks share never move one task
\* into the state another one asked for.
OwnState == \A t \in Tasks : Owner[tasks_pool[t]] = t

\* the slot of the k-th event, counted from the head
SlotOf(q, k) ==
    IF q.head + k - 1 < QUEUE_SIZE THEN q.head + k - 1
                                   ELSE q.head + k - 1 - QUEUE_SIZE

Contents(q) == [k \in 1 .. q.used |-> q.buf[SlotOf(q, k)]]

EntryQueued(t) ==
    \E k \in 1 .. tasks_queue[t].used : Contents(tasks_queue[t])[k] = STM_ENTRY_SIG

\* A state handler gets an ordinary event only after it got STM_ENTRY_SIG, at
\* start-up and after every os_stm_tran.  The one exception is the first state
\* of a task that an interrupt posted to before os_init_tasks came to it: its
\* STM_ENTRY_SIG is then still queued behind the early events, unless these
\* had filled the queue and os_post_message refused it.
EntryFirst ==
    pc = "run" /\ e # STM_ENTRY_SIG =>
        entered[i] = tasks_pool[i] \/ EntryQueued(i) \/ i \in refused

\* a step that leaves a running periodic timer running, unless it deletes it
LeavesArmed(k) ==
    /\ timer_pool[k].periodic /\ ~Free(k) /\ pc # "init"
    /\ ~(timer_pool'[k].task_id = INVALID_TASK_ID /\ ~timer_pool'[k].periodic)
    => /\ timer_pool'[k].periodic
       /\ timer_pool'[k].task_id = timer_pool[k].task_id
       /\ timer_pool'[k].sig = timer_pool[k].sig

\* A periodic timer stays armed until os_timer_del, whatever else happens: in
\* particular when its event meets a full queue.
PeriodicStaysArmed == [][\A k \in Timers : LeavesArmed(k)]_vars

\* With the main loop calling os_dispatch again and again, no queue is
\* forgotten: a task with a queued event gets its handler called.
EveryQueueServed ==
    \A t \in Tasks : tasks_queue[t].used > 0 ~> (pc = "run" /\ i = t)

(***************************************************************************)
(* The strengthenings that make these inductive when no interrupt can land *)
(* inside a critical section.                                              *)
(***************************************************************************)
RingInv ==
    /\ call = NoCall
    /\ \A t \in Tasks : RingCoherent(tasks_queue[t])
    /\ pc = "deq" => tasks_queue[i].used > 0

TranInv ==
    /\ OwnState
    /\ tran => pc = "run"
    /\ tran \/ pc \in {"exit", "entry"} => Owner[stm_state_temp] = i

\* os_init_tasks has come to task t
Started(t) == pc # "boot" /\ (pc = "init" => t < i)

\* a state that has not had its STM_ENTRY_SIG finds it in its queue
EntryInv ==
    \A t \in Tasks : Started(t) =>
        IF pc = "entry" /\ i = t
        THEN entered[t] = stm_state_temp
        ELSE entered[t] = tasks_pool[t] \/ EntryQueued(t) \/ t \in refused

\* next_dispatch keeps os_post_message from calling the hook, so while it is
\* set the hook has been called and its os_dispatch is still to come: no post
\* trusts a next_dispatch left over from a round that has begun.
HookAsked == Hooked /\ next_dispatch => wake

\* HookAsked is inductive once the hook is known to be there before any post
HookInv ==
    /\ HookAsked
    /\ pc = "boot" => call = NoCall
    /\ Hooked /\ (next_dispatch \/ pc # "boot") => dispatch_hook

(***************************************************************************)
(* What the queues promise: bounded first-in-first-out mailboxes.          *)
(***************************************************************************)
Mailbox == INSTANCE FsmMailbox WITH
    Capacity <- QUEUE_SIZE,
    box <- [t \in Tasks |-> Contents(tasks_queue[t])],
    cur <- IF pc = "run" THEN <<i, e>> ELSE <<>>

\* Every queue behaves as a bounded FIFO mailbox: a task's events are handled
\* in the order they were posted, each once, and only those posted to it.
FifoMailboxes == Mailbox!Spec
=============================================================================
