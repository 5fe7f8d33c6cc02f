----------------------------- MODULE FsmProofs -----------------------------
(***************************************************************************)
(* What holds of the event kernel for any number of tasks, states, events, *)
(* timers and queue slots.                                                 *)
(***************************************************************************)
EXTENDS Fsm, SequenceTheorems, TLAPS

-----------------------------------------------------------------------------
(***************************************************************************)
(* Facts about the queue operators.                                        *)
(***************************************************************************)

\* Moving an index of the ring by one stays in the ring.
LEMMA WrapInSlots == \A x \in Slots : Wrap(x + 1) \in Slots
  BY FsmAssumption DEF Wrap, Slots, UINT8

\* Storing an event in a ring gives a ring.
LEMMA PutSlotType ==
  ASSUME NEW q \in QueueT, NEW s \in Events
  PROVE  PutSlot(q, s) \in QueueT
  BY WrapInSlots DEF PutSlot, QueueT

\* Storing an event and counting it gives a ring.
LEMMA EnqueueType ==
  ASSUME NEW q \in QueueT, NEW s \in Events
  PROVE  Enqueue(q, s) \in QueueT
<1>1. PutSlot(q, s) \in QueueT BY PutSlotType
<1>2. ASSUME NEW r \in QueueT
      PROVE  [r EXCEPT !.used = (@ + 1) % UINT8] \in QueueT
  BY DEF QueueT, UINT8
<1> QED BY <1>1, <1>2 DEF Enqueue

\* A post that finds room keeps the ring coherent and leaves the event at
\* its head alone if there is one.
LEMMA EnqueueCoherent ==
  ASSUME NEW q \in QueueT, NEW s \in Events,
         RingCoherent(q), q.used < QUEUE_SIZE
  PROVE  /\ RingCoherent(Enqueue(q, s))
         /\ Enqueue(q, s).head = q.head
         /\ Enqueue(q, s).used = q.used + 1
         /\ q.used > 0 => Enqueue(q, s).buf[q.head] = q.buf[q.head]
         /\ q.used = 0 => Enqueue(q, s).buf[q.head] = s
<1> DEFINE r == Enqueue(q, s)
<1>2. QUEUE_SIZE \in Nat /\ QUEUE_SIZE >= 1 /\ QUEUE_SIZE <= 255
  BY FsmAssumption DEF UINT8
<1>0. /\ q.head \in Slots /\ q.tail \in Slots /\ q.used \in 0 .. UINT8 - 1
      /\ q.buf \in [Slots -> Events]
  BY DEF QueueT
<1>1. /\ q.head \in Nat /\ q.tail \in Nat /\ q.used \in Nat
      /\ q.head < QUEUE_SIZE /\ q.tail < QUEUE_SIZE
  <2>1. \A x \in Slots : x \in Nat /\ x < QUEUE_SIZE BY <1>2 DEF Slots
  <2>2. \A x \in 0 .. UINT8 - 1 : x \in Nat BY DEF UINT8
  <2> QED BY <1>0, <2>1, <2>2
<1>3. (q.used + 1) % UINT8 = q.used + 1
  BY <1>1, <1>2 DEF UINT8
<1>4. r.head = q.head /\ r.used = q.used + 1 /\ r.tail = Wrap(q.tail + 1)
  BY <1>3 DEF Enqueue, PutSlot, QueueT
<1>5. r.buf = [q.buf EXCEPT ![q.tail] = s]
  BY DEF Enqueue, PutSlot, QueueT
<1>6. RingCoherent(r)
  BY <1>1, <1>2, <1>4 DEF RingCoherent, Wrap
<1>7. q.used > 0 => q.tail # q.head
  BY <1>1, <1>2 DEF RingCoherent
<1>8. q.used = 0 => q.tail = q.head
  BY <1>1, <1>2 DEF RingCoherent
<1> QED BY <1>0, <1>4, <1>5, <1>6, <1>7, <1>8

-----------------------------------------------------------------------------
(***************************************************************************)
(* Type correctness.                                                       *)
(***************************************************************************)

\* The timer operations keep the pool a pool.
LEMMA TimerType ==
  ASSUME timer_pool \in [Timers -> TimerT],
         NEW t \in Tasks, NEW s \in Sigs, NEW n \in Timeouts,
         \/ os_timer_set(t, s, n)
         \/ os_reload_timer_set(t, s, n)
         \/ os_timer_del(t, s)
  PROVE  timer_pool' \in [Timers -> TimerT]
<1>0. s \in Events /\ n \in Nat BY FsmAssumption DEF Events
<1>a. ASSUME NEW r \in TimerT
      PROVE  /\ [r EXCEPT !.timeout = n] \in TimerT
             /\ [r EXCEPT !.reload = n] \in TimerT
             /\ [r EXCEPT !.sig = s, !.timeout = n, !.task_id = t,
                          !.periodic = FALSE] \in TimerT
             /\ [r EXCEPT !.sig = s, !.timeout = n, !.reload = n,
                          !.task_id = t, !.periodic = TRUE] \in TimerT
  BY <1>0 DEF TimerT
<1>1. CASE os_timer_set(t, s, n)
  <2>1. PICK k \in Timers : timer_pool' = [timer_pool EXCEPT ![k] =
               IF Serves(k, t, s)
               THEN [timer_pool[k] EXCEPT !.timeout = n]
               ELSE [timer_pool[k] EXCEPT !.sig = s, !.timeout = n,
                                          !.task_id = t, !.periodic = FALSE]]
    BY <1>1, ZenonT(60) DEF os_timer_set
  <2>2. timer_pool[k] \in TimerT BY SMTT(60)
  <2> QED BY <1>a, <2>1, <2>2
<1>2. CASE os_reload_timer_set(t, s, n)
  <2>1. PICK k \in Timers : timer_pool' = [timer_pool EXCEPT ![k] =
               IF Serves(k, t, s)
               THEN [timer_pool[k] EXCEPT !.reload = n]
               ELSE [timer_pool[k] EXCEPT !.sig = s, !.timeout = n, !.reload = n,
                                          !.task_id = t, !.periodic = TRUE]]
    BY <1>2 DEF os_reload_timer_set
  <2>2. timer_pool[k] \in TimerT OBVIOUS
  <2> QED BY <1>a, <2>1, <2>2
<1>3. CASE os_timer_del(t, s)
  BY <1>3 DEF os_timer_del, TimerT
<1> QED BY <1>1, <1>2, <1>3

\* A post, interrupted or not, keeps the queues and the flags well typed.
LEMMA PostType ==
  ASSUME StoreOK, NEW t \in Tasks, NEW s \in Events,
         MainPost(t, s) \/ (Post(t, s) /\ UNCHANGED call)
  PROVE  /\ tasks_queue' \in [Tasks -> QueueT]
         /\ next_dispatch' \in BOOLEAN /\ wake' \in BOOLEAN
         /\ call' \in CallT
<1>1. CASE Post(t, s) /\ UNCHANGED call
  <2>1. Enqueue(tasks_queue[t], s) \in QueueT BY EnqueueType DEF StoreOK
  <2>2. tasks_queue' \in [Tasks -> QueueT]
    BY <1>1, <2>1 DEF Post, StoreOK
  <2>3. next_dispatch' \in BOOLEAN /\ wake' \in BOOLEAN
    BY <1>1 DEF Post, Notify, StoreOK
  <2> QED BY <1>1, <2>2, <2>3 DEF StoreOK
<1>2. CASE MainPost(t, s) /\ Torn /\ ~Full(t)
  <2>1. PutSlot(tasks_queue[t], s) \in QueueT BY PutSlotType DEF StoreOK
  <2>2. tasks_queue[t].used \in 0 .. UINT8 - 1 BY DEF StoreOK, QueueT
  <2>3. tasks_queue' \in [Tasks -> QueueT]
    BY <1>2, <2>1 DEF MainPost, StoreOK
  <2>4. call' \in CallT
    <3>1. \A n \in 0 .. UINT8 - 1 :
             [active |-> TRUE, to |-> t, reg |-> n] \in CallT
      BY DEF CallT
    <3> QED BY <1>2, <2>2, <3>1 DEF MainPost
  <2> QED BY <1>2, <2>3, <2>4 DEF MainPost, StoreOK
<1> QED BY <1>1, <1>2 DEF MainPost

\* The cursor of the main loop stays inside the loop it is in.
LEMMA CursorStep == CursorOK /\ [Next]_vars => CursorOK'
<1> SUFFICES ASSUME CursorOK, [Next]_vars PROVE CursorOK' OBVIOUS
<1>0. TASKS_CNT \in Nat /\ TIMER_CNT \in Nat
  BY FsmAssumption DEF INVALID_TASK_ID
<1>1. CASE UNCHANGED <<pc, i>>
  BY <1>1 DEF CursorOK
<1>2. CASE InitTimers \/ DispatchEnd \/ TickEnd
  BY <1>2 DEF CursorOK, InitTimers, DispatchEnd, TickEnd
<1>3. CASE os_init_tasks \/ DispatchBegin \/ TickBegin
  BY <1>0, <1>3 DEF CursorOK, os_init_tasks, DispatchBegin, TickBegin
<1>4. CASE ScanTask
  BY <1>0, <1>4 DEF CursorOK, ScanTask, Tasks
<1>5. CASE Dequeue \/ ExitReturn
  BY <1>5 DEF CursorOK, Dequeue, ExitReturn
<1>6. CASE RunReturn \/ EntryReturn
  BY <1>0, <1>6 DEF CursorOK, RunReturn, EntryReturn, Tasks
<1>7. CASE TickTimer \/ InitTask
  BY <1>0, <1>7 DEF CursorOK, TickTimer, InitTask
<1>8. CASE os_register_hook \/ FinishPost \/ Handler \/ Isr
  BY <1>1, <1>8 DEF os_register_hook, FinishPost, Handler, Isr, HandlerPost,
     HandlerTimer, os_stm_tran, os_power_set, IsrPost, loopVars
<1>9. CASE UNCHANGED vars
  BY <1>1, <1>9 DEF vars, loopVars
<1> QED
  BY <1>2, <1>3, <1>4, <1>5, <1>6, <1>7, <1>8, <1>9 DEF Next, Kernel

\* Every step of the kernel, a handler or an interrupt keeps the stored data
\* well typed.
LEMMA StoreStep == TypeOK /\ [Next]_vars => StoreOK'
<1> SUFFICES ASSUME StoreOK, CursorOK, [Next]_vars PROVE StoreOK'
  BY DEF TypeOK
<1>a. Sigs \subseteq Events /\ STM_ENTRY_SIG \in Events BY DEF Events
<1>1. CASE os_register_hook
  BY <1>1 DEF StoreOK, os_register_hook, stmVars, loopVars
<1>2. CASE os_init_tasks
  BY <1>2 DEF StoreOK, os_init_tasks, stmVars, bootVars
<1>2a. CASE InitTask
  <2>1. i \in Tasks
    <3>1. TASKS_CNT \in Nat BY FsmAssumption DEF INVALID_TASK_ID
    <3> QED BY <3>1, <1>2a DEF CursorOK, InitTask, Tasks
  <2>2. MainPost(i, STM_ENTRY_SIG) BY <1>2a DEF InitTask
  <2>3. /\ tasks_queue' \in [Tasks -> QueueT]
        /\ next_dispatch' \in BOOLEAN /\ wake' \in BOOLEAN
        /\ call' \in CallT
    BY <1>a, <2>1, <2>2, PostType
  <2>4. refused' \in SUBSET Tasks BY <1>2a, <2>1 DEF InitTask, StoreOK
  <2> QED BY <1>2a, <2>3, <2>4 DEF StoreOK, InitTask, stmVars
<1>2b. CASE InitTimers
  <2>1. timer_pool' \in [Timers -> TimerT]
    BY <1>2b DEF StoreOK, InitTimers, TimerT
  <2> QED BY <1>2b, <2>1 DEF StoreOK, InitTimers, stmVars, bootVars
<1>3. CASE DispatchBegin
  BY <1>3 DEF StoreOK, bootVars, DispatchBegin, stmVars
<1>4. CASE ScanTask
  <2>1. i \in Tasks
    <3>1. TASKS_CNT \in Nat BY FsmAssumption DEF INVALID_TASK_ID
    <3> QED BY <3>1, <1>4 DEF CursorOK, ScanTask, Tasks
  <2>2. tasks_queue[i].used \in 0 .. UINT8 - 1
    BY <2>1 DEF StoreOK, QueueT
  <2>3. reg' \in 0 .. UINT8 - 1
    BY <1>4, <2>2 DEF StoreOK, bootVars, ScanTask
  <2> QED BY <1>4, <2>3 DEF StoreOK, bootVars, ScanTask, stmVars
<1>5. CASE Dequeue
  <2> DEFINE q == tasks_queue[i]
             used == IF Torn THEN reg ELSE q.used
  <2>1. i \in Tasks /\ q \in QueueT BY <1>5 DEF StoreOK, CursorOK, Dequeue
  <2>2. used \in 0 .. UINT8 - 1 BY <2>1 DEF StoreOK, QueueT
  <2>3. (used - 1) % UINT8 \in 0 .. UINT8 - 1
    <3> HIDE DEF used
    <3> QED BY <2>2 DEF UINT8
  <2>4. Wrap(q.head + 1) \in Slots BY <2>1, WrapInSlots DEF QueueT
  <2>5. tasks_queue' \in [Tasks -> QueueT]
    BY <1>5, <2>1, <2>3, <2>4 DEF StoreOK, Dequeue, QueueT
  <2>6. e' \in Events BY <1>5, <2>1 DEF Dequeue, QueueT
  <2>7. entered' \in [Tasks -> States \cup {"none"}]
    BY <1>5, <2>1 DEF StoreOK, Dequeue
  <2> QED BY <1>5, <2>1, <2>5, <2>6, <2>7 DEF StoreOK, bootVars, Dequeue
<1>6. CASE RunReturn
  BY <1>6 DEF StoreOK, bootVars, RunReturn
<1>7. CASE ExitReturn
  BY <1>7 DEF StoreOK, bootVars, ExitReturn
<1>8. CASE EntryReturn
  BY <1>8 DEF StoreOK, bootVars, EntryReturn
<1>9. CASE DispatchEnd \/ TickEnd
  BY <1>9 DEF StoreOK, bootVars, DispatchEnd, TickEnd, stmVars
<1>10. CASE TickBegin
  BY <1>10 DEF StoreOK, bootVars, TickBegin, stmVars
<1>11. CASE TickTimer
  <2>1. i \in Timers
    <3>1. TIMER_CNT \in Nat BY FsmAssumption
    <3> QED BY <3>1, <1>11 DEF CursorOK, TickTimer, Timers
  <2>2. timer_pool[i] \in TimerT BY <2>1 DEF StoreOK
  <2>3. /\ tasks_queue' \in [Tasks -> QueueT]
        /\ next_dispatch' \in BOOLEAN /\ wake' \in BOOLEAN
        /\ call' \in CallT
    <3>1. CASE ~Free(i) /\ MainPost(timer_pool[i].task_id, timer_pool[i].sig)
      BY <2>2, <3>1, PostType DEF Free, TimerT
    <3>2. CASE UNCHANGED <<tasks_queue, next_dispatch, wake, call>>
      BY <3>2 DEF StoreOK
    <3> QED BY <1>11, <3>1, <3>2 DEF TickTimer
  <2>4. timer_pool' \in [Timers -> TimerT]
    BY <1>11, <2>1, <2>2 DEF StoreOK, TickTimer, TimerT
  <2> QED BY <1>11, <2>3, <2>4 DEF StoreOK, bootVars, TickTimer, stmVars
<1>13. CASE FinishPost
  <2>1. call.to \in Tasks /\ call.reg \in 0 .. UINT8 - 1
    <3>1. call # NoCall BY <1>13 DEF FinishPost, NoCall
    <3> QED BY <3>1 DEF StoreOK, CallT
  <2>2. (call.reg + 1) % UINT8 \in 0 .. UINT8 - 1 BY <2>1 DEF UINT8
  <2>3. ASSUME NEW q \in QueueT, NEW n \in 0 .. UINT8 - 1
        PROVE  [q EXCEPT !.used = n] \in QueueT
    BY DEF QueueT
  <2>4. tasks_queue' \in [Tasks -> QueueT]
    BY <1>13, <2>1, <2>2, <2>3 DEF StoreOK, FinishPost
  <2>5. next_dispatch' \in BOOLEAN /\ wake' \in BOOLEAN
    BY <1>13 DEF StoreOK, FinishPost, Notify
  <2>6. call' \in CallT BY <1>13 DEF FinishPost, CallT
  <2> QED BY <1>13, <2>4, <2>5, <2>6 DEF StoreOK, bootVars, FinishPost, stmVars, loopVars
<1>14. ASSUME NEW t \in Tasks, NEW s \in Sigs, HandlerPost(t, s)
       PROVE  StoreOK'
  BY <1>14, <1>a, PostType DEF StoreOK, bootVars, HandlerPost, stmVars, loopVars
<1>15. ASSUME NEW t \in Tasks, NEW s \in Sigs, HandlerTimer(t, s)
       PROVE  StoreOK'
  <2>1. timer_pool' \in [Timers -> TimerT]
    <3>1. CASE \E n \in Timeouts :
                  os_timer_set(t, s, n) \/ os_reload_timer_set(t, s, n)
      BY <3>1, TimerType DEF StoreOK
    <3>2. CASE os_timer_del(t, s)
      <4>1. ASSUME NEW r \in TimerT
            PROVE  [r EXCEPT !.task_id = INVALID_TASK_ID,
                             !.periodic = FALSE] \in TimerT
        BY DEF TimerT
      <4>2. PICK k \in Timers :
              timer_pool' = [timer_pool EXCEPT ![k] =
                  [@ EXCEPT !.task_id = INVALID_TASK_ID, !.periodic = FALSE]]
        BY <3>2 DEF os_timer_del, StoreOK, TimerT
      <4> QED BY <4>1, <4>2 DEF StoreOK
    <3> QED BY <1>15, <3>1, <3>2 DEF HandlerTimer
  <2> QED BY <1>15, <2>1 DEF StoreOK, bootVars, HandlerTimer, stmVars, loopVars
<1>16. ASSUME NEW s \in States, os_stm_tran(s) PROVE StoreOK'
  BY <1>16 DEF StoreOK, bootVars, os_stm_tran, loopVars
<1>17. ASSUME NEW t \in Tasks, NEW hold \in BOOLEAN, os_power_set(t, hold)
       PROVE  StoreOK'
  BY <1>17 DEF StoreOK, bootVars, os_power_set, stmVars, loopVars
<1>18. ASSUME NEW t \in Tasks, NEW s \in Sigs, IsrPost(t, s)
       PROVE  StoreOK'
  BY <1>18, <1>a, PostType DEF StoreOK, bootVars, IsrPost, stmVars, loopVars
<1>19. CASE UNCHANGED vars
  BY <1>19 DEF StoreOK, bootVars, vars, stmVars, loopVars
<1> QED
  BY <1>1, <1>2, <1>2a, <1>2b, <1>3, <1>4, <1>5, <1>6, <1>7, <1>8, <1>9, <1>10, <1>11,
     <1>13, <1>14, <1>15, <1>16, <1>17, <1>18, <1>19
  DEF Next, Kernel, Handler, Isr

\* Every variable keeps its type, whatever interrupts do: no index of a
\* queue, of the task table or of the timer pool leaves its array.
THEOREM TypeCorrect == Spec => []TypeOK
<1>1. Init => TypeOK
  <2> SUFFICES ASSUME Init PROVE TypeOK OBVIOUS
  <2>1. 0 \in Slots /\ 0 \in Tasks /\ STM_ENTRY_SIG \in Events
    BY FsmAssumption DEF Slots, Tasks, Events, UINT8, INVALID_TASK_ID
  <2>2. tasks_queue \in [Tasks -> QueueT]
    BY <2>1 DEF Init, QueueT, UINT8
  <2>3. timer_pool \in [Timers -> TimerT]
    BY <2>1 DEF Init, TimerT
  <2>4. entered \in [Tasks -> States \cup {"none"}]
    BY DEF Init
  <2>5. InitState \in [Tasks -> States] BY FsmAssumption
  <2>6. reg \in 0 .. UINT8 - 1 /\ call \in CallT BY DEF Init, UINT8, CallT
  <2>7. StoreOK BY <2>1, <2>2, <2>3, <2>4, <2>5, <2>6 DEF Init, StoreOK
  <2>8. CursorOK BY DEF Init, CursorOK
  <2> QED BY <2>7, <2>8 DEF TypeOK
<1>2. TypeOK /\ [Next]_vars => TypeOK'
  BY CursorStep, StoreStep DEF TypeOK
<1> QED BY <1>1, <1>2, PTL DEF Spec

-----------------------------------------------------------------------------
(***************************************************************************)
(* Queues and transitions, when critical sections are critical sections.   *)
(***************************************************************************)

\* A whole os_post_message keeps every ring coherent, moves no head, takes
\* no event away and keeps the event at the head of every queue.
LEMMA PostRings ==
  ASSUME StoreOK, ~Torn, RingInv, NEW t \in Tasks, NEW s \in Events,
         MainPost(t, s) \/ (Post(t, s) /\ UNCHANGED call)
  PROVE  /\ call' = NoCall
         /\ \A u \in Tasks :
              /\ RingCoherent(tasks_queue'[u])
              /\ tasks_queue[u].used > 0 =>
                   /\ tasks_queue'[u].used > 0
                   /\ tasks_queue'[u].head = tasks_queue[u].head
                   /\ tasks_queue'[u].buf[tasks_queue[u].head] =
                        tasks_queue[u].buf[tasks_queue[u].head]
<1>1. Post(t, s) /\ UNCHANGED call BY DEF MainPost
<1>2. CASE UNCHANGED tasks_queue
  BY <1>1, <1>2 DEF RingInv
<1>3. CASE ~Full(t) /\ tasks_queue' = [tasks_queue EXCEPT ![t] = Enqueue(@, s)]
  <2>1. tasks_queue[t] \in QueueT /\ RingCoherent(tasks_queue[t])
    BY DEF StoreOK, RingInv
  <2>2. tasks_queue[t].used \in Nat BY <2>1 DEF QueueT, UINT8
  <2>3. tasks_queue[t].used < QUEUE_SIZE
    BY <1>3, <2>2, FsmAssumption DEF Full, UINT8
  <2>4. /\ RingCoherent(tasks_queue'[t])
        /\ tasks_queue'[t].head = tasks_queue[t].head
        /\ tasks_queue'[t].used = tasks_queue[t].used + 1
        /\ tasks_queue[t].used > 0 =>
             tasks_queue'[t].buf[tasks_queue[t].head] =
               tasks_queue[t].buf[tasks_queue[t].head]
    BY <1>3, <2>1, <2>3, EnqueueCoherent DEF StoreOK
  <2>5. \A u \in Tasks \ {t} : tasks_queue'[u] = tasks_queue[u]
    BY <1>3 DEF StoreOK
  <2>6. tasks_queue'[t].used > 0 BY <2>2, <2>4
  <2> QED BY <1>1, <2>4, <2>5, <2>6 DEF RingInv
<1> QED BY <1>1, <1>2, <1>3 DEF Post

\* Taking the event at the head keeps the ring coherent.
LEMMA TakeCoherent ==
  ASSUME NEW q \in QueueT, RingCoherent(q), q.used > 0
  PROVE  RingCoherent([q EXCEPT !.used = (q.used - 1) % UINT8,
                                !.head = Wrap(q.head + 1)])
<1>1. QUEUE_SIZE \in Nat /\ QUEUE_SIZE >= 1 BY FsmAssumption DEF UINT8
<1>2. q.used \in 0 .. UINT8 - 1 /\ q.head \in Slots /\ q.tail \in Slots
  BY DEF QueueT
<1>3. /\ q.used \in Nat /\ q.used < 256 /\ q.head \in Nat /\ q.tail \in Nat
      /\ q.head < QUEUE_SIZE /\ q.tail < QUEUE_SIZE
  <2>1. \A x \in Slots : x \in Nat /\ x < QUEUE_SIZE BY <1>1 DEF Slots
  <2>2. \A x \in 0 .. UINT8 - 1 : x \in Nat /\ x < 256 BY DEF UINT8
  <2> QED BY <1>2, <2>1, <2>2
<1>4. (q.used - 1) % UINT8 = q.used - 1 BY <1>3 DEF UINT8
<1> DEFINE r == [q EXCEPT !.used = (q.used - 1) % UINT8,
                          !.head = Wrap(q.head + 1)]
<1>5. r.used = q.used - 1 /\ r.head = Wrap(q.head + 1) /\ r.tail = q.tail
  BY <1>4 DEF QueueT
<1> QED BY <1>1, <1>3, <1>5 DEF RingCoherent, Wrap

\* RingInv is inductive.
LEMMA RingStep == TypeOK /\ ~Torn /\ RingInv /\ [Next]_vars => RingInv'
<1> SUFFICES ASSUME StoreOK, CursorOK, ~Torn, RingInv, [Next]_vars
             PROVE  RingInv'
  BY DEF TypeOK
<1>a. Sigs \subseteq Events /\ STM_ENTRY_SIG \in Events BY DEF Events
<1>1. CASE UNCHANGED <<tasks_queue, call, pc, i>>
  BY <1>1 DEF RingInv
<1>2. CASE InitTask
  <2>1. i \in Tasks
    <3>1. TASKS_CNT \in Nat BY FsmAssumption DEF INVALID_TASK_ID
    <3> QED BY <3>1, <1>2 DEF CursorOK, InitTask, Tasks
  <2>2. MainPost(i, STM_ENTRY_SIG) /\ pc' = "init" BY <1>2 DEF InitTask
  <2> QED BY <1>a, <2>1, <2>2, PostRings DEF RingInv
<1>3. CASE /\ UNCHANGED <<tasks_queue, call>>
           /\ pc' # "deq"
  BY <1>3 DEF RingInv
<1>4. CASE ScanTask
  BY <1>4 DEF RingInv, ScanTask
<1>5. CASE Dequeue
  <2> DEFINE q == tasks_queue[i]
  <2>1. i \in Tasks /\ q \in QueueT /\ RingCoherent(q) /\ q.used > 0
    BY <1>5 DEF StoreOK, CursorOK, RingInv, Dequeue
  <2>2. tasks_queue' = [tasks_queue EXCEPT ![i] =
           [q EXCEPT !.used = (q.used - 1) % UINT8, !.head = Wrap(q.head + 1)]]
    BY <1>5, <2>1 DEF Dequeue, StoreOK, QueueT
  <2>3. RingCoherent(tasks_queue'[i])
    BY <2>1, <2>2, TakeCoherent DEF StoreOK
  <2>4. \A t \in Tasks \ {i} : tasks_queue'[t] = tasks_queue[t]
    BY <2>2 DEF StoreOK
  <2>5. call' = call /\ pc' = "run" BY <1>5 DEF Dequeue
  <2> QED BY <2>3, <2>4, <2>5 DEF RingInv
<1>6. CASE TickTimer
  <2>1. i \in Timers
    <3>1. TIMER_CNT \in Nat BY FsmAssumption
    <3> QED BY <3>1, <1>6 DEF CursorOK, TickTimer, Timers
  <2>2. timer_pool[i] \in TimerT BY <2>1 DEF StoreOK
  <2>3. pc' = "tick" BY <1>6 DEF TickTimer
  <2>4. CASE ~Free(i) /\ MainPost(timer_pool[i].task_id, timer_pool[i].sig)
    <3>1. timer_pool[i].task_id \in Tasks /\ timer_pool[i].sig \in Events
      BY <2>2, <2>4 DEF Free, TimerT
    <3> QED BY <2>3, <2>4, <3>1, PostRings DEF RingInv
  <2>5. CASE UNCHANGED <<tasks_queue, call>>
    BY <2>3, <2>5 DEF RingInv
  <2> QED BY <1>6, <2>4, <2>5 DEF TickTimer
<1>7. ASSUME NEW t \in Tasks, NEW s \in Sigs,
             HandlerPost(t, s) \/ IsrPost(t, s)
      PROVE  RingInv'
  <2>1. /\ MainPost(t, s) \/ (Post(t, s) /\ UNCHANGED call)
        /\ UNCHANGED <<pc, i>>
    BY <1>7 DEF HandlerPost, IsrPost, loopVars
  <2>2. pc = "deq" => i \in Tasks BY DEF CursorOK
  <2> QED BY <1>a, <2>1, <2>2, PostRings DEF RingInv
<1>8. ~FinishPost BY DEF FinishPost, RingInv, NoCall
<1>9. ASSUME NEW t \in Tasks, NEW s \in Sigs, HandlerTimer(t, s)
      PROVE  RingInv'
  BY <1>1, <1>9 DEF HandlerTimer, loopVars
<1>10. ASSUME NEW s \in States, os_stm_tran(s) PROVE RingInv'
  BY <1>1, <1>10 DEF os_stm_tran, loopVars
<1>11. ASSUME NEW t \in Tasks, NEW hold \in BOOLEAN, os_power_set(t, hold)
       PROVE  RingInv'
  BY <1>1, <1>11 DEF os_power_set, loopVars
<1>12. CASE os_register_hook
  BY <1>1, <1>12 DEF os_register_hook, loopVars
<1>13. CASE \/ os_init_tasks \/ InitTimers \/ DispatchBegin \/ RunReturn
            \/ ExitReturn \/ EntryReturn \/ DispatchEnd \/ TickBegin \/ TickEnd
  BY <1>3, <1>13 DEF os_init_tasks, InitTimers, DispatchBegin, RunReturn, ExitReturn, EntryReturn,
     DispatchEnd, TickBegin, TickEnd
<1>14. CASE UNCHANGED vars
  BY <1>1, <1>14 DEF vars, loopVars
<1> QED
  BY <1>2, <1>4, <1>5, <1>6, <1>7, <1>8, <1>9, <1>10, <1>11, <1>12, <1>13,
     <1>14 DEF Next, Kernel, Handler, Isr

\* When interrupts do not post, or critical sections mask them, the indices of
\* every queue agree for ever: no event is overwritten and none is read twice.
THEOREM QueuesCoherent ==
  ASSUME ~Torn
  PROVE  Spec => []QueueCoherent
<1>1. Init => RingInv
  <2> SUFFICES ASSUME Init PROVE RingInv OBVIOUS
  <2>1. QUEUE_SIZE \in Nat BY FsmAssumption DEF UINT8
  <2> QED BY <2>1 DEF Init, RingInv, RingCoherent
<1>2. TypeOK /\ RingInv /\ [Next]_vars => RingInv'
  BY RingStep
<1>3. RingInv => QueueCoherent
  BY DEF RingInv, QueueCoherent, NoCall
<1> QED BY <1>1, <1>2, <1>3, TypeCorrect, PTL DEF Spec

\* TranInv is inductive: it needs nothing of the queues.
LEMMA TranStep == TypeOK /\ TranInv /\ [Next]_vars => TranInv'
<1> SUFFICES ASSUME StoreOK, CursorOK, TranInv, [Next]_vars PROVE TranInv'
  BY DEF TypeOK
<1> USE DEF TranInv, OwnState
<1>1. CASE UNCHANGED <<tasks_pool, tran, stm_state_temp, pc, i>>
  BY <1>1
<1>2. CASE /\ UNCHANGED <<tasks_pool, tran, stm_state_temp>>
           /\ pc \notin {"run", "exit", "entry"}
           /\ pc' \notin {"exit", "entry"}
  BY <1>2
<1>3. CASE RunReturn
  BY <1>3 DEF RunReturn
<1>4. CASE ExitReturn
  BY <1>4 DEF ExitReturn
<1>5. CASE EntryReturn
  <2>1. i \in Tasks /\ Owner[stm_state_temp] = i
    BY <1>5 DEF EntryReturn, CursorOK
  <2>2. \A t \in Tasks : Owner[tasks_pool'[t]] = t
    BY <1>5, <2>1 DEF EntryReturn, StoreOK
  <2>3. ~tran' /\ pc' = "scan" BY <1>5 DEF EntryReturn
  <2> QED BY <2>2, <2>3
<1>6. ASSUME NEW s \in States, os_stm_tran(s) PROVE TranInv'
  BY <1>6 DEF os_stm_tran, loopVars
<1>7. CASE \/ os_init_tasks \/ InitTask \/ InitTimers \/ DispatchBegin
           \/ ScanTask \/ Dequeue \/ DispatchEnd
           \/ TickBegin \/ TickTimer \/ TickEnd
  BY <1>2, <1>7 DEF os_init_tasks, InitTask, InitTimers, DispatchBegin, ScanTask, Dequeue,
     DispatchEnd, TickBegin, TickTimer, TickEnd, stmVars
<1>8. CASE os_register_hook \/ FinishPost \/ Isr
  BY <1>1, <1>8 DEF os_register_hook, FinishPost, Isr, IsrPost, stmVars, loopVars
<1>9. ASSUME NEW t \in Tasks, NEW s \in Sigs,
             HandlerPost(t, s) \/ HandlerTimer(t, s)
      PROVE  TranInv'
  BY <1>1, <1>9 DEF HandlerPost, HandlerTimer, stmVars, loopVars
<1>10. ASSUME NEW t \in Tasks, NEW hold \in BOOLEAN, os_power_set(t, hold)
       PROVE  TranInv'
  BY <1>1, <1>10 DEF os_power_set, stmVars, loopVars
<1>11. CASE UNCHANGED vars
  BY <1>1, <1>11 DEF vars, stmVars, loopVars
<1> QED
  BY <1>3, <1>4, <1>5, <1>6, <1>7, <1>8, <1>9, <1>10, <1>11
  DEF Next, Kernel, Handler

\* A task never ends up in the state another task asked for, even when
\* interrupts tear the queues.
THEOREM StatesOwned == Spec => []OwnState
<1>1. Init => TranInv
  BY FsmAssumption DEF Init, TranInv, OwnState
<1>2. TranInv => OwnState BY DEF TranInv
<1> QED BY <1>1, <1>2, TranStep, TypeCorrect, PTL DEF Spec

-----------------------------------------------------------------------------
(***************************************************************************)
(* The events of a ring, oldest first.                                     *)
(***************************************************************************)

\* The indices of a ring, as the provers of arithmetic want them.
LEMMA RingFacts ==
  ASSUME NEW q \in QueueT
  PROVE  /\ QUEUE_SIZE \in Nat /\ QUEUE_SIZE >= 1 /\ QUEUE_SIZE <= 255
         /\ q.head \in Nat /\ q.head < QUEUE_SIZE
         /\ q.tail \in Nat /\ q.tail < QUEUE_SIZE
         /\ q.used \in Nat /\ q.used < UINT8
         /\ q.buf \in [Slots -> Events]
<1>1. QUEUE_SIZE \in Nat /\ QUEUE_SIZE >= 1 /\ QUEUE_SIZE <= 255
  BY FsmAssumption DEF UINT8
<1>2. \A x \in Slots : x \in Nat /\ x < QUEUE_SIZE BY <1>1 DEF Slots
<1>3. \A x \in 0 .. UINT8 - 1 : x \in Nat /\ x < UINT8 BY DEF UINT8
<1> QED BY <1>1, <1>2, <1>3 DEF QueueT

\* The events of a coherent ring, oldest first, are a sequence of used events.
LEMMA ContentsSeq ==
  ASSUME NEW q \in QueueT, RingCoherent(q)
  PROVE  /\ Contents(q) \in Seq(Events)
         /\ Len(Contents(q)) = q.used
         /\ \A k \in 1 .. q.used : /\ SlotOf(q, k) \in Slots
                                   /\ Contents(q)[k] = q.buf[SlotOf(q, k)]
<1>1. \A k \in 1 .. q.used : SlotOf(q, k) \in Slots
  BY RingFacts, SMTT(60) DEF SlotOf, Slots, RingCoherent
<1>2. Contents(q) \in [1 .. q.used -> Events] BY <1>1, RingFacts DEF Contents
<1>3. q.used \in Nat BY RingFacts
<1>4. Contents(q) \in Seq(Events) BY <1>2, <1>3, SeqDef
<1>5. Len(Contents(q)) = q.used BY <1>2, <1>3, <1>4
<1> QED BY <1>1, <1>4, <1>5 DEF Contents

\* Storing an event appends it to the ring's events.
LEMMA ContentsEnqueue ==
  ASSUME NEW q \in QueueT, NEW s \in Events,
         RingCoherent(q), q.used < QUEUE_SIZE
  PROVE  Contents(Enqueue(q, s)) = Append(Contents(q), s)
<1> DEFINE r == Enqueue(q, s)
           c == Contents(q)
           d == Append(c, s)
<1>1. r \in QueueT BY EnqueueType
<1>2. RingCoherent(r) /\ r.head = q.head /\ r.used = q.used + 1
  BY EnqueueCoherent
<1>3. r.buf = [q.buf EXCEPT ![q.tail] = s] BY DEF Enqueue, PutSlot, QueueT
<1>4. \A k \in 1 .. q.used : SlotOf(r, k) = SlotOf(q, k) /\ SlotOf(q, k) # q.tail
  BY <1>2, RingFacts DEF SlotOf, RingCoherent
<1>5. SlotOf(r, q.used + 1) = q.tail
  BY <1>2, RingFacts DEF SlotOf, RingCoherent
<1>6. q.tail \in Slots BY DEF QueueT
<1>7. /\ c \in Seq(Events) /\ Len(c) = q.used
      /\ \A k \in 1 .. q.used : /\ SlotOf(q, k) \in Slots
                                /\ c[k] = q.buf[SlotOf(q, k)]
  BY ContentsSeq
<1>8. /\ Contents(r) \in Seq(Events) /\ Len(Contents(r)) = q.used + 1
      /\ \A k \in 1 .. q.used + 1 : Contents(r)[k] = r.buf[SlotOf(r, k)]
  BY <1>1, <1>2, ContentsSeq
<1>u. q.used \in Nat /\ q.buf \in [Slots -> Events] BY RingFacts
<1> HIDE DEF c, r
<1>9. d \in Seq(Events) /\ Len(d) = q.used + 1
  BY <1>7, <1>u
<1>10. ASSUME NEW k \in 1 .. q.used + 1 PROVE Contents(r)[k] = d[k]
  <2>1. CASE k \in 1 .. q.used
    <3>1. d[k] = c[k] BY <1>7, <1>u, <2>1
    <3> QED BY <1>3, <1>4, <1>6, <1>7, <1>8, <1>u, <2>1, <3>1
  <2>2. CASE k = q.used + 1
    <3>1. d[k] = s BY <1>7, <1>u, <2>2
    <3> QED BY <1>3, <1>5, <1>6, <1>8, <1>u, <2>2, <3>1
  <2>3. k \in 1 .. q.used \/ k = q.used + 1 BY <1>u
  <2> QED BY <2>1, <2>2, <2>3
<1>11. \A k \in 1 .. Len(Contents(r)) : Contents(r)[k] = d[k] BY <1>8, <1>10
<1> HIDE DEF d
<1>12. Contents(r) = d BY <1>8, <1>9, <1>11, SeqEqual
<1> QED BY <1>12 DEF c, r, d

\* Taking the event at the head takes the first of the ring's events.
LEMMA ContentsTake ==
  ASSUME NEW q \in QueueT, RingCoherent(q), q.used > 0
  PROVE  /\ Contents(q) # <<>>
         /\ Head(Contents(q)) = q.buf[q.head]
         /\ Contents([q EXCEPT !.used = (q.used - 1) % UINT8,
                               !.head = Wrap(q.head + 1)]) = Tail(Contents(q))
<1> DEFINE r == [q EXCEPT !.used = (q.used - 1) % UINT8,
                          !.head = Wrap(q.head + 1)]
           c == Contents(q)
           d == Tail(c)
<1>1. (q.used - 1) % UINT8 = q.used - 1 BY RingFacts DEF UINT8
<1>2. Wrap(q.head + 1) \in Slots BY WrapInSlots DEF QueueT
<1>3. q.used - 1 \in 0 .. UINT8 - 1 BY RingFacts DEF UINT8
<1>4. /\ r \in QueueT /\ r.used = q.used - 1 /\ r.head = Wrap(q.head + 1)
      /\ r.buf = q.buf
  BY <1>1, <1>2, <1>3 DEF QueueT
<1>5. RingCoherent(r) BY TakeCoherent
<1>6. \A k \in 1 .. q.used - 1 : SlotOf(r, k) = SlotOf(q, k + 1)
  BY <1>4, RingFacts DEF SlotOf, RingCoherent, Wrap
<1>7. /\ c \in Seq(Events) /\ Len(c) = q.used
      /\ \A k \in 1 .. q.used : c[k] = q.buf[SlotOf(q, k)]
  BY ContentsSeq
<1>8. /\ Contents(r) \in Seq(Events) /\ Len(Contents(r)) = q.used - 1
      /\ \A k \in 1 .. q.used - 1 : Contents(r)[k] = r.buf[SlotOf(r, k)]
  BY <1>4, <1>5, ContentsSeq
<1>u. q.used \in Nat BY RingFacts
<1>h. SlotOf(q, 1) = q.head BY RingFacts DEF SlotOf
<1> HIDE DEF c, r
<1>9. c # <<>> BY <1>7, <1>u
<1>10. Head(c) = q.buf[q.head]
  <2>1. Head(c) = c[1] BY <1>7, <1>9
  <2>2. c[1] = q.buf[SlotOf(q, 1)] BY <1>7, <1>u
  <2> QED BY <1>h, <2>1, <2>2
<1>11. /\ d \in Seq(Events) /\ Len(d) = q.used - 1
       /\ \A k \in 1 .. q.used - 1 : d[k] = c[k + 1]
  BY <1>7, <1>9, HeadTailProperties
<1>12. \A k \in 1 .. q.used - 1 : Contents(r)[k] = d[k]
  BY <1>4, <1>6, <1>7, <1>8, <1>11, <1>u, SMTT(60)
<1> HIDE DEF d
<1>13. Contents(r) = d BY <1>8, <1>11, <1>12, SeqEqual
<1> QED BY <1>9, <1>10, <1>13 DEF c, r, d

\* What a queue holds of STM_ENTRY_SIG survives a post, and a post of it is
\* queued unless it is refused.
LEMMA PostKeepsEntry ==
  ASSUME StoreOK, ~Torn, RingInv, NEW t \in Tasks, NEW s \in Events,
         MainPost(t, s) \/ (Post(t, s) /\ UNCHANGED call)
  PROVE  /\ \A u \in Tasks : EntryQueued(u) => EntryQueued(u)'
         /\ s = STM_ENTRY_SIG /\ ~Full(t) => EntryQueued(t)'
<1>1. Post(t, s) BY DEF MainPost
<1>2. CASE Full(t) /\ UNCHANGED tasks_queue BY <1>2 DEF EntryQueued
<1>3. CASE ~Full(t) /\ tasks_queue' = [tasks_queue EXCEPT ![t] = Enqueue(@, s)]
  <2> DEFINE q == tasks_queue[t]
             r == Enqueue(q, s)
  <2>1. q \in QueueT /\ RingCoherent(q) BY DEF StoreOK, RingInv
  <2>2. q.used \in Nat /\ q.used < QUEUE_SIZE BY <1>3, <2>1, RingFacts DEF Full
  <2>3. tasks_queue'[t] = r BY <1>3 DEF StoreOK
  <2>4. Contents(r) = Append(Contents(q), s) BY <2>1, <2>2, ContentsEnqueue
  <2>5. r.used = q.used + 1 BY <2>1, <2>2, EnqueueCoherent
  <2>6. Contents(q) \in Seq(Events) /\ Len(Contents(q)) = q.used
    BY <2>1, ContentsSeq
  <2> HIDE DEF q, r
  <2>7. /\ \A k \in 1 .. q.used : Contents(r)[k] = Contents(q)[k]
        /\ Contents(r)[q.used + 1] = s
    BY <2>2, <2>4, <2>6
  <2>8. EntryQueued(t) => EntryQueued(t)'
    <3> SUFFICES ASSUME EntryQueued(t) PROVE EntryQueued(t)' OBVIOUS
    <3>1. PICK k \in 1 .. q.used : Contents(q)[k] = STM_ENTRY_SIG
      BY DEF EntryQueued, q
    <3>2. k \in 1 .. r.used /\ Contents(r)[k] = STM_ENTRY_SIG
      BY <2>2, <2>5, <2>7, <3>1
    <3> QED BY <2>3, <3>2 DEF EntryQueued
  <2>9. s = STM_ENTRY_SIG => EntryQueued(t)'
    <3>1. q.used + 1 \in 1 .. r.used BY <2>2, <2>5
    <3> QED BY <2>3, <2>7, <3>1 DEF EntryQueued
  <2>10. \A u \in Tasks \ {t} : tasks_queue'[u] = tasks_queue[u]
    BY <1>3 DEF StoreOK
  <2>11. \A u \in Tasks \ {t} : EntryQueued(u) => EntryQueued(u)'
    BY <2>10 DEF EntryQueued
  <2> QED BY <2>8, <2>9, <2>11
<1> QED BY <1>1, <1>2, <1>3 DEF Post

\* Taking an event that is not STM_ENTRY_SIG leaves STM_ENTRY_SIG queued.
LEMMA TakeKeepsEntry ==
  ASSUME StoreOK, CursorOK, ~Torn, RingInv, Dequeue, e' # STM_ENTRY_SIG
  PROVE  EntryQueued(i) => EntryQueued(i)'
<1> DEFINE q == tasks_queue[i]
           r == [q EXCEPT !.used = (q.used - 1) % UINT8, !.head = Wrap(q.head + 1)]
<1>1. i \in Tasks /\ q \in QueueT /\ RingCoherent(q) /\ q.used > 0
  BY DEF StoreOK, CursorOK, RingInv, Dequeue
<1>2. tasks_queue' = [tasks_queue EXCEPT ![i] = r]
  BY <1>1 DEF Dequeue, StoreOK, QueueT
<1>3. tasks_queue'[i] = r BY <1>1, <1>2 DEF StoreOK
<1>4. i' = i /\ e' = q.buf[q.head] BY DEF Dequeue
<1>5. /\ Contents(q) # <<>>
      /\ Head(Contents(q)) = q.buf[q.head]
      /\ Contents(r) = Tail(Contents(q))
  BY <1>1, ContentsTake
<1>6. /\ Contents(q) \in Seq(Events) /\ Len(Contents(q)) = q.used
      /\ q.used \in Nat
  BY <1>1, ContentsSeq, RingFacts
<1>7. r.used = q.used - 1
  <2>1. (q.used - 1) % UINT8 = q.used - 1 BY <1>1, RingFacts DEF UINT8
  <2> QED BY <1>1, <2>1 DEF QueueT
<1> HIDE DEF q, r
<1>8. Contents(q)[1] # STM_ENTRY_SIG BY <1>4, <1>5, <1>6
<1>9. \A k \in 1 .. q.used - 1 : Contents(r)[k] = Contents(q)[k + 1]
  BY <1>5, <1>6, HeadTailProperties
<1> SUFFICES ASSUME EntryQueued(i) PROVE EntryQueued(i)' OBVIOUS
<1>10. PICK k \in 1 .. q.used : Contents(q)[k] = STM_ENTRY_SIG
  BY DEF EntryQueued, q
<1>11. k # 1 BY <1>8, <1>10
<1>12. k - 1 \in 1 .. r.used /\ k - 1 \in 1 .. q.used - 1 /\ (k - 1) + 1 = k
  BY <1>6, <1>7, <1>10, <1>11
<1>13. Contents(r)[k - 1] = STM_ENTRY_SIG BY <1>9, <1>10, <1>12
<1> QED BY <1>3, <1>4, <1>12, <1>13 DEF EntryQueued

\* EntryInv is inductive over RingInv.
LEMMA EntryStep ==
  TypeOK /\ ~Torn /\ RingInv /\ EntryInv /\ [Next]_vars => EntryInv'
<1> SUFFICES ASSUME StoreOK, CursorOK, ~Torn, RingInv, EntryInv, [Next]_vars
             PROVE  EntryInv'
  BY DEF TypeOK
<1>a. Sigs \subseteq Events /\ STM_ENTRY_SIG \in Events BY DEF Events
<1>b. \A t \in Tasks : tasks_queue[t] \in QueueT BY DEF StoreOK
\* the conclusion for every step that leaves the handlers alone
<1>c. ASSUME UNCHANGED <<tasks_pool, entered, stm_state_temp, refused>>,
             \A t \in Tasks : EntryQueued(t) => EntryQueued(t)',
             \/ UNCHANGED <<pc, i>>
             \/ /\ pc \notin {"boot", "init", "entry"}
                /\ pc' \notin {"boot", "init", "entry"}
      PROVE  EntryInv'
  BY <1>c DEF EntryInv, Started
<1>d. UNCHANGED tasks_queue =>
        \A t \in Tasks : EntryQueued(t) => EntryQueued(t)'
  BY DEF EntryQueued
<1>1. CASE os_init_tasks
  BY <1>1 DEF EntryInv, Started, os_init_tasks, Tasks
<1>2. CASE InitTask
  <2>1. i \in Tasks /\ i \in Nat
    <3>1. TASKS_CNT \in Nat BY FsmAssumption DEF INVALID_TASK_ID
    <3> QED BY <3>1, <1>2 DEF CursorOK, InitTask, Tasks
  <2>p. PICK n \in Tasks : n = i BY <2>1
  <2>2. /\ \A u \in Tasks : EntryQueued(u) => EntryQueued(u)'
        /\ ~Full(n) => EntryQueued(n)'
    <3>1. MainPost(n, STM_ENTRY_SIG) BY <1>2, <2>p DEF InitTask
    <3> QED BY <1>a, <3>1, PostKeepsEntry
  <2>3. /\ pc = "init" /\ pc' = "init" /\ i' = i + 1
        /\ UNCHANGED <<tasks_pool, entered, stm_state_temp>>
        /\ refused' = IF Full(i) THEN refused \cup {i} ELSE refused
    BY <1>2 DEF InitTask, stmVars
  <2>4. \A t \in Tasks : t < i + 1 => t < i \/ t = i BY <2>1 DEF Tasks
  <2>6. ASSUME NEW t \in Tasks, Started(t)'
        PROVE  entered'[t] = tasks_pool'[t] \/ EntryQueued(t)' \/ t \in refused'
    <3>1. CASE t = i
      <4>1. t = n BY <2>p, <3>1
      <4>2. t \in refused' \/ EntryQueued(n)' BY <2>2, <2>3, <2>p, <4>1
      <4> QED BY <4>1, <4>2
    <3>2. CASE t < i BY <2>2, <2>3, <3>2 DEF EntryInv, Started
    <3> QED BY <2>3, <2>4, <2>6, <3>1, <3>2 DEF Started
  <2> QED BY <2>3, <2>6 DEF EntryInv
<1>3. CASE InitTimers
  <2>1. \A t \in Tasks : t < i
    <3>1. TASKS_CNT \in Nat BY FsmAssumption DEF INVALID_TASK_ID
    <3> QED BY <1>3, <3>1 DEF InitTimers, Tasks
  <2>2. \A t \in Tasks : Started(t) BY <1>3, <2>1 DEF InitTimers, Started
  <2> QED BY <1>3, <1>d, <2>2 DEF InitTimers, EntryInv, stmVars, bootVars
<1>4. CASE Dequeue
  <2> DEFINE q == tasks_queue[i]
  <2>1. i \in Tasks /\ q \in QueueT BY <1>4, <1>b DEF CursorOK, Dequeue
  <2>2. /\ pc = "deq" /\ pc' = "run" /\ i' = i
        /\ UNCHANGED <<tasks_pool, refused>>
    BY <1>4 DEF Dequeue, bootVars
  <2>3. entered'[i] = tasks_pool[i] \/ EntryQueued(i)' \/ i \in refused
    <3>1. CASE e' = STM_ENTRY_SIG BY <1>4, <2>1, <3>1 DEF Dequeue, StoreOK
    <3>2. CASE e' # STM_ENTRY_SIG
      <4>1. entered' = entered BY <1>4, <3>2 DEF Dequeue
      <4>2. entered[i] = tasks_pool[i] \/ EntryQueued(i) \/ i \in refused
        BY <2>1, <2>2 DEF EntryInv, Started
      <4> QED BY <1>4, <3>2, <4>1, <4>2, TakeKeepsEntry
    <3> QED BY <3>1, <3>2
  <2>4. \A t \in Tasks \ {i} :
          tasks_queue'[t] = tasks_queue[t] /\ entered'[t] = entered[t]
    BY <1>4, <2>1 DEF Dequeue, StoreOK
  <2>5. \A t \in Tasks \ {i} :
          entered'[t] = tasks_pool'[t] \/ EntryQueued(t)' \/ t \in refused'
    BY <2>2, <2>4 DEF EntryInv, EntryQueued, Started
  <2> QED BY <2>2, <2>3, <2>5 DEF EntryInv
<1>5. CASE ExitReturn
  <2>1. i \in Tasks BY <1>5 DEF CursorOK, ExitReturn
  <2>2. \A t \in Tasks \ {i} : entered'[t] = entered[t]
    BY <1>5 DEF ExitReturn, StoreOK
  <2>3. entered'[i] = stm_state_temp' BY <1>5, <2>1 DEF ExitReturn, StoreOK
  <2> QED BY <1>5, <1>d, <2>1, <2>2, <2>3
      DEF ExitReturn, EntryInv, Started, bootVars
<1>6. CASE EntryReturn
  <2>1. i \in Tasks BY <1>6 DEF CursorOK, EntryReturn
  <2>2. \A t \in Tasks \ {i} : tasks_pool'[t] = tasks_pool[t]
    BY <1>6 DEF EntryReturn, StoreOK
  <2>3. tasks_pool'[i] = stm_state_temp BY <1>6, <2>1 DEF EntryReturn, StoreOK
  <2>4. \A t \in Tasks :
          entered'[t] = tasks_pool'[t] \/ EntryQueued(t)' \/ t \in refused'
    BY <1>6, <1>d, <2>1, <2>2, <2>3 DEF EntryReturn, EntryInv, Started, bootVars
  <2> QED BY <1>6, <2>4 DEF EntryReturn, EntryInv
<1>7. ASSUME NEW t \in Tasks, NEW s \in Sigs,
             HandlerPost(t, s) \/ IsrPost(t, s)
      PROVE  EntryInv'
  <2>1. /\ MainPost(t, s) \/ (Post(t, s) /\ UNCHANGED call)
        /\ UNCHANGED <<pc, i>>
        /\ UNCHANGED <<tasks_pool, entered, stm_state_temp, refused>>
    BY <1>7 DEF HandlerPost, IsrPost, loopVars, stmVars, bootVars
  <2>2. \A u \in Tasks : EntryQueued(u) => EntryQueued(u)'
    BY <1>a, <2>1, PostKeepsEntry
  <2> QED BY <1>c, <2>1, <2>2
<1>8. CASE TickTimer
  <2>1. i \in Timers
    <3>1. TIMER_CNT \in Nat BY FsmAssumption
    <3> QED BY <3>1, <1>8 DEF CursorOK, TickTimer, Timers
  <2>2. timer_pool[i] \in TimerT BY <2>1 DEF StoreOK
  <2>3. \A u \in Tasks : EntryQueued(u) => EntryQueued(u)'
    <3>1. CASE ~Free(i) /\ MainPost(timer_pool[i].task_id, timer_pool[i].sig)
      <4>1. timer_pool[i].task_id \in Tasks /\ timer_pool[i].sig \in Events
        BY <2>2, <3>1 DEF Free, TimerT
      <4> QED BY <3>1, <4>1, PostKeepsEntry
    <3> QED BY <1>8, <1>d, <3>1 DEF TickTimer
  <2> QED BY <1>8, <1>c, <2>3 DEF TickTimer, stmVars, bootVars
<1>9. CASE RunReturn
  BY <1>9, <1>c, <1>d DEF RunReturn, bootVars
<1>10. CASE DispatchBegin \/ ScanTask \/ DispatchEnd \/ TickBegin \/ TickEnd
  BY <1>10, <1>c, <1>d DEF DispatchBegin, ScanTask, DispatchEnd, TickBegin,
     TickEnd, stmVars, bootVars
<1>11. ~FinishPost BY DEF FinishPost, RingInv, NoCall
<1>12. ASSUME NEW t \in Tasks, NEW s \in Sigs, HandlerTimer(t, s)
       PROVE  EntryInv'
  BY <1>12, <1>c, <1>d DEF HandlerTimer, stmVars, loopVars, bootVars
<1>13. ASSUME NEW s \in States, os_stm_tran(s) PROVE EntryInv'
  BY <1>13, <1>d DEF os_stm_tran, loopVars, bootVars, EntryInv, Started
<1>14. ASSUME NEW t \in Tasks, NEW hold \in BOOLEAN, os_power_set(t, hold)
       PROVE  EntryInv'
  BY <1>14, <1>c, <1>d DEF os_power_set, stmVars, loopVars, bootVars
<1>15. CASE os_register_hook
  BY <1>15, <1>c, <1>d DEF os_register_hook, stmVars, loopVars
<1>16. CASE UNCHANGED vars
  BY <1>16, <1>c, <1>d DEF vars, stmVars, loopVars, bootVars
<1> QED
  BY <1>1, <1>2, <1>3, <1>4, <1>5, <1>6, <1>7, <1>8, <1>9, <1>10, <1>11,
     <1>12, <1>13, <1>14, <1>15, <1>16 DEF Next, Kernel, Handler, Isr

\* No state handler is given an ordinary event before its STM_ENTRY_SIG, save
\* the events interrupts posted before os_init_tasks came to the task.
THEOREM EntryComesFirst ==
  ASSUME ~Torn
  PROVE  Spec => []EntryFirst
<1>1. Init => RingInv /\ EntryInv
  <2> SUFFICES ASSUME Init PROVE RingInv /\ EntryInv OBVIOUS
  <2>1. QUEUE_SIZE \in Nat BY FsmAssumption DEF UINT8
  <2> QED BY <2>1 DEF Init, RingInv, RingCoherent, EntryInv, Started
<1>2. TypeOK /\ RingInv /\ EntryInv /\ [Next]_vars => RingInv' /\ EntryInv'
  BY RingStep, EntryStep
<1>3. CursorOK /\ EntryInv => EntryFirst
  BY DEF EntryInv, EntryFirst, CursorOK, Started
<1>4. TypeOK => CursorOK BY DEF TypeOK
<1> QED BY <1>1, <1>2, <1>3, <1>4, TypeCorrect, PTL DEF Spec

-----------------------------------------------------------------------------
(***************************************************************************)
(* The hook and the timers, whatever interrupts do.                        *)
(***************************************************************************)

\* A stored message leaves the hook asked for: by this post, or by the one
\* that set next_dispatch.
LEMMA NotifyAsks ==
  ASSUME HookInv, Hooked => dispatch_hook, Notify
  PROVE  HookAsked'
  BY DEF HookInv, HookAsked, Notify

\* So does a post, stored, refused or half done.
LEMMA PostAsks ==
  ASSUME HookInv, Hooked => dispatch_hook, NEW t \in Tasks, NEW s \in Events,
         MainPost(t, s) \/ (Post(t, s) /\ UNCHANGED call)
  PROVE  HookAsked'
<1>1. CASE UNCHANGED <<next_dispatch, wake>> BY <1>1 DEF HookInv, HookAsked
<1> QED BY <1>1, NotifyAsks DEF MainPost, Post

\* HookInv is inductive.
LEMMA HookStep == TypeOK /\ HookInv /\ [Next]_vars => HookInv'
<1> SUFFICES ASSUME StoreOK, CursorOK, HookInv, [Next]_vars PROVE HookInv'
  BY DEF TypeOK
<1>a. Sigs \subseteq Events BY DEF Events
<1>b. ASSUME UNCHANGED dispatch_hook, Hooked => dispatch_hook, HookAsked',
             pc' # "boot" \/ UNCHANGED <<pc, call>>
      PROVE  HookInv'
  BY <1>b DEF HookInv
<1>1. CASE UNCHANGED <<next_dispatch, dispatch_hook, wake>>
           /\ pc # "boot" /\ pc' # "boot"
  BY <1>1 DEF HookInv, HookAsked
<1>2. CASE os_register_hook
  BY <1>2 DEF HookInv, HookAsked, os_register_hook, loopVars
<1>3. CASE os_init_tasks
  BY <1>3 DEF HookInv, HookAsked, os_init_tasks, bootVars
<1>3a. CASE InitTask
  <2>1. i \in Tasks
    <3>1. TASKS_CNT \in Nat BY FsmAssumption DEF INVALID_TASK_ID
    <3> QED BY <3>1, <1>3a DEF CursorOK, InitTask, Tasks
  <2>2. /\ MainPost(i, STM_ENTRY_SIG) /\ STM_ENTRY_SIG \in Events
        /\ pc = "init" /\ pc' = "init" /\ UNCHANGED dispatch_hook
    BY <1>3a DEF InitTask, Events
  <2>3. Hooked => dispatch_hook BY <2>2 DEF HookInv
  <2> QED BY <1>b, <2>1, <2>2, <2>3, PostAsks
<1>3b. CASE InitTimers
  BY <1>1, <1>3b DEF InitTimers, bootVars
<1>4. CASE DispatchBegin
  BY <1>4 DEF HookInv, HookAsked, DispatchBegin, bootVars
<1>5. CASE \/ ScanTask \/ Dequeue \/ RunReturn \/ ExitReturn \/ EntryReturn
           \/ DispatchEnd \/ TickBegin \/ TickEnd
  BY <1>5, <1>1 DEF ScanTask, Dequeue, RunReturn, ExitReturn, EntryReturn,
     DispatchEnd, TickBegin, TickEnd, bootVars
<1>6. CASE TickTimer
  <2>1. i \in Timers
    <3>1. TIMER_CNT \in Nat BY FsmAssumption
    <3> QED BY <3>1, <1>6 DEF CursorOK, TickTimer, Timers
  <2>2. timer_pool[i] \in TimerT BY <2>1 DEF StoreOK
  <2>3. /\ pc = "tick" /\ pc' = "tick" /\ UNCHANGED dispatch_hook
        /\ Hooked => dispatch_hook
    BY <1>6 DEF TickTimer, HookInv, bootVars
  <2>4. CASE ~Free(i) /\ MainPost(timer_pool[i].task_id, timer_pool[i].sig)
    <3>1. timer_pool[i].task_id \in Tasks /\ timer_pool[i].sig \in Events
      BY <2>2, <2>4 DEF Free, TimerT
    <3> QED BY <1>b, <2>3, <2>4, <3>1, PostAsks
  <2>5. CASE UNCHANGED <<next_dispatch, wake>>
    BY <1>1, <2>3, <2>5
  <2> QED BY <1>6, <2>4, <2>5 DEF TickTimer
<1>7. CASE FinishPost
  <2>1. pc # "boot" BY <1>7 DEF FinishPost, HookInv, NoCall
  <2>2. Hooked => dispatch_hook BY <2>1 DEF HookInv
  <2>3. HookAsked' BY <1>7, <2>2, NotifyAsks DEF FinishPost
  <2> QED BY <1>7, <1>b, <2>1, <2>2, <2>3 DEF FinishPost, loopVars, bootVars
<1>8. ASSUME NEW t \in Tasks, NEW s \in Sigs, HandlerPost(t, s) \/ IsrPost(t, s)
      PROVE  HookInv'
  <2>1. /\ MainPost(t, s) \/ (Post(t, s) /\ UNCHANGED call)
        /\ UNCHANGED <<pc, dispatch_hook>>
        /\ Hooked => dispatch_hook
        /\ pc' # "boot" \/ UNCHANGED <<pc, call>>
    BY <1>8 DEF HandlerPost, IsrPost, InHandler, loopVars, bootVars, HookInv
  <2> QED BY <1>a, <1>b, <2>1, PostAsks
<1>9. ASSUME NEW t \in Tasks, NEW s \in Sigs, HandlerTimer(t, s)
      PROVE  HookInv'
  BY <1>1, <1>9 DEF HandlerTimer, InHandler, loopVars, bootVars
<1>10. ASSUME NEW s \in States, os_stm_tran(s) PROVE HookInv'
  BY <1>1, <1>10 DEF os_stm_tran, InHandler, loopVars, bootVars
<1>11. ASSUME NEW t \in Tasks, NEW hold \in BOOLEAN, os_power_set(t, hold)
       PROVE  HookInv'
  BY <1>1, <1>11 DEF os_power_set, InHandler, loopVars, bootVars
<1>12. CASE UNCHANGED vars
  BY <1>12 DEF vars, loopVars, bootVars, HookInv, HookAsked
<1> QED
  BY <1>2, <1>3, <1>3a, <1>3b, <1>4, <1>5, <1>6, <1>7, <1>8, <1>9, <1>10, <1>11, <1>12
  DEF Next, Kernel, Handler, Isr

\* A next_dispatch that is set is never stale: whenever os_post_message
\* trusts it and does not call the hook, the os_dispatch the hook asked for
\* is still to come, even when interrupts tear the queues.
THEOREM HookAlwaysAsked == Spec => []HookAsked
<1>1. Init => HookInv BY DEF Init, HookInv, HookAsked
<1>2. HookInv => HookAsked BY DEF HookInv
<1> QED BY <1>1, <1>2, HookStep, TypeCorrect, PTL DEF Spec

\* The timer functions a handler calls leave the running periodic timers
\* they do not delete as they are.
LEMMA TimerCallsLeaveArmed ==
  ASSUME StoreOK, NEW t \in Tasks, NEW s \in Sigs, HandlerTimer(t, s),
         NEW m \in Timers
  PROVE  LeavesArmed(m)
<1>0. INVALID_TASK_ID \notin Tasks BY FsmAssumption DEF Tasks, INVALID_TASK_ID
<1>1. timer_pool[m] \in TimerT BY DEF StoreOK
<1>2. ASSUME UNCHANGED timer_pool[m] PROVE LeavesArmed(m)
  BY <1>2 DEF LeavesArmed
<1>3. ASSUME NEW n \in Timeouts, os_timer_set(t, s, n) PROVE LeavesArmed(m)
  <2>1. PICK k \in Timers :
           /\ FirstSlot(t, s, k)
           /\ timer_pool' = [timer_pool EXCEPT ![k] =
               IF Serves(k, t, s)
               THEN [timer_pool[k] EXCEPT !.timeout = n]
               ELSE [timer_pool[k] EXCEPT !.sig = s, !.timeout = n,
                                          !.task_id = t, !.periodic = FALSE]]
    BY <1>3 DEF os_timer_set
  <2>2. CASE k # m BY <1>2, <2>1, <2>2 DEF StoreOK
  <2>3. CASE k = m /\ Serves(k, t, s)
    BY <1>1, <2>1, <2>3 DEF LeavesArmed, StoreOK, TimerT
  <2>4. CASE k = m /\ ~Serves(k, t, s)
    BY <2>1, <2>4 DEF LeavesArmed, FirstSlot
  <2> QED BY <2>2, <2>3, <2>4
<1>4. ASSUME NEW n \in Timeouts, os_reload_timer_set(t, s, n) PROVE LeavesArmed(m)
  <2>1. PICK k \in Timers :
           /\ FirstSlot(t, s, k)
           /\ timer_pool' = [timer_pool EXCEPT ![k] =
               IF Serves(k, t, s)
               THEN [timer_pool[k] EXCEPT !.reload = n]
               ELSE [timer_pool[k] EXCEPT !.sig = s, !.timeout = n, !.reload = n,
                                          !.task_id = t, !.periodic = TRUE]]
    BY <1>4 DEF os_reload_timer_set
  <2>2. CASE k # m BY <1>2, <2>1, <2>2 DEF StoreOK
  <2>3. CASE k = m /\ Serves(k, t, s)
    BY <1>1, <2>1, <2>3 DEF LeavesArmed, StoreOK, TimerT
  <2>4. CASE k = m /\ ~Serves(k, t, s)
    BY <2>1, <2>4 DEF LeavesArmed, FirstSlot
  <2> QED BY <2>2, <2>3, <2>4
<1>5. ASSUME os_timer_del(t, s) PROVE LeavesArmed(m)
  <2>1. PICK k \in Timers :
           timer_pool' = [timer_pool EXCEPT ![k].task_id = INVALID_TASK_ID,
                                            ![k].periodic = FALSE]
    BY <1>5 DEF os_timer_del
  <2>2. CASE k # m BY <1>2, <2>1, <2>2 DEF StoreOK
  <2>3. CASE k = m
    <3>1. /\ timer_pool'[m].task_id = INVALID_TASK_ID
          /\ timer_pool'[m].periodic = FALSE
      BY <1>1, <2>1, <2>3 DEF StoreOK, TimerT
    <3> QED BY <3>1 DEF LeavesArmed
  <2> QED BY <2>2, <2>3
<1> QED BY <1>3, <1>4, <1>5 DEF HandlerTimer

\* A running periodic timer keeps running, for the same task and event, in
\* every step that is not its deletion: an expiry reloads it even when the
\* queue it posts to is full.
THEOREM PeriodicTimersStay == Spec => PeriodicStaysArmed
<1>1. TypeOK /\ [Next]_vars => [\A k \in Timers : LeavesArmed(k)]_vars
  <2> SUFFICES ASSUME StoreOK, CursorOK, Next, NEW k \in Timers
               PROVE  LeavesArmed(k)
    BY DEF TypeOK
  <2>1. timer_pool[k] \in TimerT BY DEF StoreOK
  <2>2. CASE UNCHANGED timer_pool BY <2>2 DEF LeavesArmed
  <2>3. CASE InitTimers BY <2>3 DEF LeavesArmed, InitTimers
  <2>4. CASE TickTimer
    <3>1. i \in Timers
      <4>1. TIMER_CNT \in Nat BY FsmAssumption
      <4> QED BY <4>1, <2>4 DEF CursorOK, TickTimer, Timers
    <3>2. timer_pool[i] \in TimerT BY <3>1 DEF StoreOK
    <3>3. CASE k # i BY <2>4, <3>1, <3>3 DEF TickTimer, LeavesArmed, StoreOK
    <3>4. CASE k = i /\ timer_pool' = [timer_pool EXCEPT ![i].timeout = @ - 1]
      BY <3>2, <3>4 DEF LeavesArmed, StoreOK, TimerT
    <3>5. CASE k = i /\ timer_pool' = [timer_pool EXCEPT ![i] =
                 IF @.periodic THEN [@ EXCEPT !.timeout = timer_pool[i].reload]
                               ELSE [@ EXCEPT !.task_id = INVALID_TASK_ID]]
      <4>1. CASE timer_pool[i].periodic
        BY <3>2, <3>5, <4>1 DEF LeavesArmed, StoreOK, TimerT
      <4>2. CASE ~timer_pool[i].periodic BY <3>5, <4>2 DEF LeavesArmed
      <4> QED BY <4>1, <4>2
    <3> QED BY <2>2, <2>4, <3>3, <3>4, <3>5 DEF TickTimer
  <2>5. ASSUME NEW t \in Tasks, NEW s \in Sigs, HandlerTimer(t, s)
        PROVE  LeavesArmed(k)
    BY <2>5, TimerCallsLeaveArmed
  <2>6. CASE \/ os_register_hook \/ os_init_tasks \/ InitTask \/ DispatchBegin \/ ScanTask \/ Dequeue
             \/ RunReturn \/ ExitReturn \/ EntryReturn \/ DispatchEnd
             \/ TickBegin \/ TickEnd \/ FinishPost
    BY <2>2, <2>6 DEF os_register_hook, os_init_tasks, InitTask, DispatchBegin,
       ScanTask, Dequeue,
       RunReturn, ExitReturn, EntryReturn, DispatchEnd, TickBegin, TickEnd,
       FinishPost
  <2>7. ASSUME NEW t \in Tasks, NEW s \in Sigs, HandlerPost(t, s) \/ IsrPost(t, s)
        PROVE  LeavesArmed(k)
    BY <2>2, <2>7 DEF HandlerPost, IsrPost
  <2>8. ASSUME NEW s \in States, os_stm_tran(s) PROVE LeavesArmed(k)
    BY <2>2, <2>8 DEF os_stm_tran
  <2>9. ASSUME NEW t \in Tasks, NEW hold \in BOOLEAN, os_power_set(t, hold)
        PROVE  LeavesArmed(k)
    BY <2>2, <2>9 DEF os_power_set
  <2> QED
    BY <2>3, <2>4, <2>5, <2>6, <2>7, <2>8, <2>9
    DEF Next, Kernel, Handler, Isr
<1> QED BY <1>1, TypeCorrect, PTL DEF Spec, PeriodicStaysArmed

-----------------------------------------------------------------------------
(***************************************************************************)
(* Refinement: the rings are bounded first-in-first-out mailboxes.         *)
(***************************************************************************)

\* A post is a Send when there is room, and leaves every mailbox alone when
\* there is none.
LEMMA PostSends ==
  ASSUME StoreOK, ~Torn, RingInv, NEW t \in Tasks, NEW s \in Events,
         MainPost(t, s) \/ (Post(t, s) /\ UNCHANGED call),
         UNCHANGED (IF pc = "run" THEN <<i, e>> ELSE <<>>)
  PROVE  Mailbox!Send(t, s) \/ UNCHANGED Mailbox!boxVars
<1>1. Post(t, s) BY DEF MainPost
<1>2. CASE UNCHANGED tasks_queue BY <1>2 DEF Mailbox!boxVars
<1>3. CASE ~Full(t) /\ tasks_queue' = [tasks_queue EXCEPT ![t] = Enqueue(@, s)]
  <2>1. tasks_queue[t] \in QueueT /\ RingCoherent(tasks_queue[t])
    BY DEF StoreOK, RingInv
  <2>2. tasks_queue[t].used < QUEUE_SIZE BY <1>3, <2>1, RingFacts DEF Full
  <2>3. Contents(tasks_queue'[t]) = Append(Contents(tasks_queue[t]), s)
    BY <1>3, <2>1, <2>2, ContentsEnqueue DEF StoreOK
  <2>4. \A u \in Tasks \ {t} : tasks_queue'[u] = tasks_queue[u]
    BY <1>3 DEF StoreOK
  <2>5. Len(Contents(tasks_queue[t])) < QUEUE_SIZE
    BY <2>1, <2>2, ContentsSeq
  <2> QED BY <2>3, <2>4, <2>5 DEF Mailbox!Send
<1> QED BY <1>1, <1>2, <1>3 DEF Post

\* Every step of the kernel is a step of the mailboxes or leaves them alone.
LEMMA MailboxStep ==
  TypeOK /\ ~Torn /\ RingInv /\ [Next]_vars
  => [Mailbox!Next]_(Mailbox!boxVars)
<1> SUFFICES ASSUME StoreOK, CursorOK, ~Torn, RingInv, [Next]_vars
             PROVE  Mailbox!Next \/ UNCHANGED Mailbox!boxVars
  BY DEF TypeOK
<1>a. Sigs \subseteq Events /\ STM_ENTRY_SIG \in Events BY DEF Events
<1>1. CASE UNCHANGED <<tasks_queue, pc, i, e>>
  BY <1>1 DEF Mailbox!boxVars
<1>2. CASE /\ UNCHANGED tasks_queue
           /\ pc # "run" /\ pc' # "run"
  BY <1>2 DEF Mailbox!boxVars
<1>3. CASE InitTask
  <2>1. i \in Tasks
    <3>1. TASKS_CNT \in Nat BY FsmAssumption DEF INVALID_TASK_ID
    <3> QED BY <3>1, <1>3 DEF CursorOK, InitTask, Tasks
  <2>2. MainPost(i, STM_ENTRY_SIG) /\ pc = "init" /\ pc' = "init"
    BY <1>3 DEF InitTask
  <2>3. UNCHANGED (IF pc = "run" THEN <<i, e>> ELSE <<>>) BY <2>2
  <2> QED BY <1>a, <2>1, <2>2, <2>3, PostSends DEF Mailbox!Next
<1>4. CASE Dequeue
  <2> DEFINE q == tasks_queue[i]
  <2>1. i \in Tasks /\ q \in QueueT /\ RingCoherent(q) /\ q.used > 0
    BY <1>4 DEF StoreOK, CursorOK, RingInv, Dequeue
  <2>2. tasks_queue' = [tasks_queue EXCEPT ![i] =
           [q EXCEPT !.used = (q.used - 1) % UINT8, !.head = Wrap(q.head + 1)]]
    BY <1>4, <2>1 DEF Dequeue, StoreOK, QueueT
  <2>3. /\ Contents(q) # <<>>
        /\ Head(Contents(q)) = q.buf[q.head]
        /\ Contents(tasks_queue'[i]) = Tail(Contents(q))
    BY <2>1, <2>2, ContentsTake DEF StoreOK
  <2>4. \A u \in Tasks \ {i} : tasks_queue'[u] = tasks_queue[u]
    BY <2>2 DEF StoreOK
  <2>5. pc = "deq" /\ pc' = "run" /\ i' = i /\ e' = q.buf[q.head]
    BY <1>4 DEF Dequeue
  <2>6. Mailbox!Take(i) BY <2>1, <2>3, <2>4, <2>5 DEF Mailbox!Take
  <2> QED BY <2>1, <2>6 DEF Mailbox!Next
<1>5. CASE RunReturn
  <2>1. pc = "run" /\ pc' # "run" /\ UNCHANGED tasks_queue
    BY <1>5 DEF RunReturn
  <2>2. Mailbox!Done BY <2>1 DEF Mailbox!Done
  <2> QED BY <2>2 DEF Mailbox!Next
<1>6. CASE TickTimer
  <2>1. i \in Timers
    <3>1. TIMER_CNT \in Nat BY FsmAssumption
    <3> QED BY <3>1, <1>6 DEF CursorOK, TickTimer, Timers
  <2>2. timer_pool[i] \in TimerT BY <2>1 DEF StoreOK
  <2>3. pc = "tick" /\ pc' = "tick" BY <1>6 DEF TickTimer
  <2>4. CASE ~Free(i) /\ MainPost(timer_pool[i].task_id, timer_pool[i].sig)
    <3>1. timer_pool[i].task_id \in Tasks /\ timer_pool[i].sig \in Events
      BY <2>2, <2>4 DEF Free, TimerT
    <3>2. UNCHANGED (IF pc = "run" THEN <<i, e>> ELSE <<>>) BY <2>3
    <3> QED BY <2>3, <2>4, <3>1, <3>2, PostSends DEF Mailbox!Next
  <2>5. CASE UNCHANGED tasks_queue BY <1>2, <2>3, <2>5
  <2> QED BY <1>6, <2>4, <2>5 DEF TickTimer
<1>7. ASSUME NEW t \in Tasks, NEW s \in Sigs, HandlerPost(t, s) \/ IsrPost(t, s)
      PROVE  Mailbox!Next \/ UNCHANGED Mailbox!boxVars
  <2>1. /\ MainPost(t, s) \/ (Post(t, s) /\ UNCHANGED call)
        /\ UNCHANGED <<pc, i, e>>
    BY <1>7 DEF HandlerPost, IsrPost, loopVars
  <2>2. UNCHANGED (IF pc = "run" THEN <<i, e>> ELSE <<>>) BY <2>1
  <2> QED BY <1>a, <2>1, <2>2, PostSends DEF Mailbox!Next
<1>8. CASE \/ os_init_tasks \/ InitTimers \/ DispatchBegin \/ ScanTask
           \/ ExitReturn \/ EntryReturn \/ DispatchEnd \/ TickBegin \/ TickEnd
  BY <1>2, <1>8 DEF os_init_tasks, InitTimers, DispatchBegin, ScanTask, ExitReturn, EntryReturn,
     DispatchEnd, TickBegin, TickEnd
<1>9. ~FinishPost BY DEF FinishPost, RingInv, NoCall
<1>10. ASSUME NEW t \in Tasks, NEW s \in Sigs, HandlerTimer(t, s)
       PROVE  UNCHANGED <<tasks_queue, pc, i, e>>
  BY <1>10 DEF HandlerTimer, loopVars
<1>11. ASSUME NEW s \in States, os_stm_tran(s)
       PROVE  UNCHANGED <<tasks_queue, pc, i, e>>
  BY <1>11 DEF os_stm_tran, loopVars
<1>12. ASSUME NEW t \in Tasks, NEW hold \in BOOLEAN, os_power_set(t, hold)
       PROVE  UNCHANGED <<tasks_queue, pc, i, e>>
  BY <1>12 DEF os_power_set, loopVars
<1>13. CASE os_register_hook
  BY <1>1, <1>13 DEF os_register_hook, loopVars
<1>14. CASE UNCHANGED vars
  BY <1>1, <1>14 DEF vars, loopVars
<1> QED
  BY <1>1, <1>3, <1>4, <1>5, <1>6, <1>7, <1>8, <1>9, <1>10, <1>11, <1>12,
     <1>13, <1>14 DEF Next, Kernel, Handler, Isr

\* When critical sections are critical sections, every task's queue is a
\* bounded FIFO mailbox: the kernel hands a task exactly the events posted to
\* it, in that order, one at a time.
THEOREM QueuesAreMailboxes ==
  ASSUME ~Torn
  PROVE  Spec => FifoMailboxes
<1>1. Init => RingInv
  <2> SUFFICES ASSUME Init PROVE RingInv OBVIOUS
  <2>1. QUEUE_SIZE \in Nat BY FsmAssumption DEF UINT8
  <2> QED BY <2>1 DEF Init, RingInv, RingCoherent
<1>2. Init => Mailbox!Init
  <2> SUFFICES ASSUME Init PROVE Mailbox!Init OBVIOUS
  <2>1. ASSUME NEW t \in Tasks PROVE Contents(tasks_queue[t]) = <<>>
    BY DEF Init, Contents
  <2> QED BY <2>1 DEF Init, Mailbox!Init
<1>3. TypeOK /\ RingInv /\ [Next]_vars => RingInv'
  BY RingStep
<1>4. TypeOK /\ RingInv /\ [Next]_vars => [Mailbox!Next]_(Mailbox!boxVars)
  BY MailboxStep
<1> QED
  BY <1>1, <1>2, <1>3, <1>4, TypeCorrect, PTL DEF Spec, FifoMailboxes, Mailbox!Spec
=============================================================================
