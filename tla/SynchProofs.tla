----------------------------- MODULE SynchProofs -----------------------------
(***************************************************************************)
(* Proofs about Threads and Synch, for any set of threads, any time slice  *)
(* and any locks, semaphores and condition variables: the scheduler        *)
(* is safe, and the primitives call into thread.c only as its assertions   *)
(* allow.                                                                  *)
(***************************************************************************)
EXTENDS Synch, TLAPS

-----------------------------------------------------------------------------
(* The scheduler.  SchedInv is the inductive invariant: its own properties,*)
(* and what is known of the idle thread before and after its first run.    *)

\* The idle thread never exits.  Until idle () has run for the first time it
\* has never been blocked, and from then on its page stays taken.
IdleInv ==
  /\ status[idle_page] # "DYING"
  /\ idle_thread = NoThread => status[idle_page] # "BLOCKED"
  /\ idle_thread # NoThread => status[idle_page] # "FREE"

SchedInv ==
  /\ SchedulerSafe
  /\ ready_list \in Seq(Threads)
  /\ IdleInv

-----------------------------------------------------------------------------
\* list_push_back links one element more.
LEMMA LinkedAppend ==
  ASSUME NEW S, NEW q \in Seq(S), NEW e \in S
  PROVE  /\ Append(q, e) \in Seq(S) /\ Append(q, e) # <<>>
         /\ Linked(Append(q, e)) = Linked(q) \cup {e}
         /\ OneEach(q) /\ e \notin Linked(q) => OneEach(Append(q, e))
  <1>1. /\ Append(q, e) \in Seq(S) /\ Append(q, e) # <<>>
        /\ DOMAIN Append(q, e) = 1 .. Len(q) + 1 /\ DOMAIN q = 1 .. Len(q)
        /\ Len(q) \in Nat
    OBVIOUS
  <1>2. /\ \A n \in 1 .. Len(q) : Append(q, e)[n] = q[n]
        /\ Append(q, e)[Len(q) + 1] = e
    OBVIOUS
  <1>3. \A n \in 1 .. Len(q) + 1 : n \in 1 .. Len(q) \/ n = Len(q) + 1
    BY <1>1
  <1>4. 1 .. Len(q) \subseteq 1 .. Len(q) + 1 /\ Len(q) + 1 \in 1 .. Len(q) + 1
    BY <1>1
  <1>5. Linked(Append(q, e)) = Linked(q) \cup {e}
    BY <1>4 DEF Linked
  <1>6. OneEach(q) /\ e \notin Linked(q) => OneEach(Append(q, e))
    BY DEF OneEach, Linked
  <1> QED
    BY <1>1, <1>5, <1>6, Zenon

\* list_pop_front takes the first element off and leaves the others.
LEMMA LinkedTail ==
  ASSUME NEW S, NEW q \in Seq(S), q # <<>>, OneEach(q)
  PROVE  /\ Head(q) \in S /\ Head(q) \in Linked(q)
         /\ Tail(q) \in Seq(S) /\ OneEach(Tail(q))
         /\ Linked(Tail(q)) = Linked(q) \ {Head(q)}
  <1>1. /\ Tail(q) \in Seq(S) /\ Head(q) = q[1] /\ Len(q) \in Nat /\ Len(q) > 0
        /\ DOMAIN Tail(q) = 1 .. Len(q) - 1 /\ DOMAIN q = 1 .. Len(q)
    OBVIOUS
  <1>2. \A n \in 1 .. Len(q) - 1 : Tail(q)[n] = q[n + 1]
    OBVIOUS
  <1>3. \A n \in 1 .. Len(q) - 1 : n + 1 \in 1 .. Len(q) /\ n + 1 # 1
    BY <1>1
  <1>4. \A n \in 1 .. Len(q) : n # 1 => n - 1 \in 1 .. Len(q) - 1 /\ (n - 1) + 1 = n
    BY <1>1
  <1>5. 1 \in 1 .. Len(q)
    BY <1>1
  <1>6. Head(q) \in S /\ Head(q) \in Linked(q)
    BY DEF Linked
  <1>7. OneEach(Tail(q))
    <2> SUFFICES ASSUME NEW m \in 1 .. Len(q) - 1, NEW n \in 1 .. Len(q) - 1, Tail(q)[m] = Tail(q)[n]
                 PROVE  m = n
      BY DEF OneEach
    <2>1. m + 1 = n + 1
      BY DEF OneEach
    <2> QED
      BY <2>1
  <1>8. Linked(Tail(q)) \subseteq Linked(q) \ {Head(q)}
    <2> SUFFICES ASSUME NEW n \in 1 .. Len(q) - 1
                 PROVE  Tail(q)[n] \in Linked(q) /\ Tail(q)[n] # Head(q)
      BY DEF Linked
    <2>1. Tail(q)[n] = q[n + 1] /\ n + 1 \in DOMAIN q /\ n + 1 # 1 /\ 1 \in DOMAIN q
      OBVIOUS
    <2> QED
      BY DEF Linked, OneEach
  <1>9. Linked(q) \ {Head(q)} \subseteq Linked(Tail(q))
    <2> SUFFICES ASSUME NEW n \in 1 .. Len(q), q[n] # Head(q)
                 PROVE  q[n] \in Linked(Tail(q))
      BY DEF Linked
    <2>1. n # 1
      BY <1>1, Zenon
    <2>2. n - 1 \in DOMAIN Tail(q) /\ Tail(q)[n - 1] = q[n]
      OBVIOUS
    <2> QED
      BY <2>2, Zenon DEF Linked
  <1> QED
    BY <1>6, <1>7, <1>8, <1>9

-----------------------------------------------------------------------------
\* What schedule needs of the status table and the run queue it is entered
\* with: nobody is marked running, the queue holds the ready threads, and
\* there is a thread to switch to.
Switchable(st, rl) ==
  /\ st \in [Threads -> Status] /\ rl \in Seq(Threads) /\ OneEach(rl)
  /\ \A t \in Threads : st[t] # "RUNNING"
  /\ \A t \in Linked(rl) : st[t] = "READY"
  /\ \A t \in Threads : st[t] = "READY" /\ t # idle_thread => t \in Linked(rl)
  /\ idle_thread \notin Linked(rl)
  /\ rl = <<>> => idle_thread # NoThread
  /\ st[idle_page] # "DYING"
  /\ idle_thread = NoThread => st[idle_page] # "BLOCKED"
  /\ idle_thread # NoThread => st[idle_page] # "FREE"

-----------------------------------------------------------------------------
\* The invariant in the terms of Switchable.
LEMMA SchedFacts ==
  ASSUME SchedInv
  PROVE  /\ status \in [Threads -> Status] /\ current \in Threads
         /\ idle_thread \in {NoThread, idle_page} /\ ready_list \in Seq(Threads)
         /\ OneEach(ready_list) /\ Queued = Linked(ready_list) /\ Queued \subseteq Threads
         /\ \A t \in Threads : status[t] = "RUNNING" <=> t = current
         /\ \A t \in Linked(ready_list) : status[t] = "READY"
         /\ \A t \in Threads : status[t] = "READY" /\ t # idle_thread => t \in Linked(ready_list)
         /\ idle_thread \notin Linked(ready_list)
         /\ all_list = {t \in Threads : status[t] \notin {"FREE", "DYING"}}
  <1>1. Queued = Linked(ready_list)
    BY Zenon DEF Queued
  <1> QED
    BY <1>1, Zenon DEF SchedInv, SchedulerSafe, ThreadTypes, QueueIsReady, IdleNotQueued, OneRunning, AllListLive

\* Until idle () has run the idle thread waits on the run queue, so that
\* schedule finds it there.
LEMMA IdleReady ==
  ASSUME SchedInv, idle_thread = NoThread, current # idle_page, status[idle_page] # "FREE"
  PROVE  ready_list # <<>>
  <1>1. idle_page \in Threads
    BY ThreadsAssumption, Zenon
  <1>2. status[idle_page] = "READY"
    BY <1>1, SchedFacts, Zenon DEF SchedInv, IdleInv, Status
  <1>3. idle_page \in Linked(ready_list)
    BY <1>2, SchedFacts, ThreadsAssumption, Zenon
  <1> QED
    BY <1>3 DEF Linked

\* thread_init establishes the invariant.
LEMMA SchedInit ==
  thread_init => SchedInv
  <1> SUFFICES ASSUME thread_init PROVE SchedInv
    BY Zenon
  <1>1. /\ status = [t \in Threads |-> IF t = initial_thread THEN "RUNNING" ELSE "FREE"]
        /\ current = initial_thread /\ ready_list = <<>> /\ all_list = {initial_thread}
        /\ idle_thread = NoThread /\ thread_ticks = 0
    BY Zenon DEF thread_init
  <1>2. Queued = {} /\ ready_list \in Seq(Threads)
    BY <1>1 DEF Queued, Linked
  <1>3. ThreadTypes
    BY <1>1, <1>2, ThreadsAssumption, SliceAssumption DEF ThreadTypes, Status
  <1>4. QueueIsReady /\ IdleNotQueued
    BY <1>1, <1>2 DEF QueueIsReady, IdleNotQueued, OneEach
  <1>5. OneRunning /\ AllListLive
    BY <1>1, ThreadsAssumption, Zenon DEF OneRunning, AllListLive
  <1>6. IdleInv
    BY <1>1, ThreadsAssumption, Zenon DEF IdleInv
  <1> QED
    BY <1>2, <1>3, <1>4, <1>5, <1>6, Zenon DEF SchedInv, SchedulerSafe

\* Every step of the scheduler keeps the invariant.
LEMMA SchedStep ==
  SchedInv /\ [ThreadStep]_thread_vars => SchedInv'
  \* schedule switches to a live thread and leaves the scheduler's data in
  \* order; the page of a thread that died is free afterwards.
  <1>Schedule.
    ASSUME current \in Threads, idle_thread \in {NoThread, idle_page}, UNCHANGED idle_thread,
           NEW st, NEW rl, Switchable(st, rl), schedule(st, rl),
           all_list' = {t \in Threads : st[t] \notin {"FREE", "DYING"}}
    PROVE  SchedInv'
    <2> USE <1>Schedule
    <2> DEFINE nx == next_thread_to_run(rl)
               freed == st[current] = "DYING" /\ current # initial_thread
    <2>1. /\ nx \in Threads /\ st[nx] \notin {"FREE", "DYING"}
          /\ ready_list' \in Seq(Threads) /\ OneEach(ready_list')
          /\ Linked(ready_list') = Linked(rl) \ {nx}
      <3>1. CASE rl = <<>>
        <4>1. nx = idle_page /\ idle_thread = idle_page /\ ready_list' = rl
          BY <3>1, Zenon DEF schedule, next_thread_to_run, Switchable
        <4>2. Linked(rl) = {}
          BY <3>1 DEF Linked
        <4> QED
          BY <4>1, ThreadsAssumption, Zenon DEF Switchable
      <3>2. CASE rl # <<>>
        <4>1. nx = Head(rl) /\ ready_list' = Tail(rl)
          BY <3>2, Zenon DEF schedule, next_thread_to_run
        <4>2. rl \in Seq(Threads) /\ OneEach(rl)
          BY Zenon DEF Switchable
        <4>3. /\ nx \in Threads /\ nx \in Linked(rl) /\ ready_list' \in Seq(Threads)
              /\ OneEach(ready_list') /\ Linked(ready_list') = Linked(rl) \ {nx}
          BY <3>2, <4>1, <4>2, LinkedTail
        <4>4. st[nx] = "READY"
          BY <4>3, Zenon DEF Switchable
        <4> QED
          BY <4>3, <4>4, Zenon
      <3> QED
        BY <3>1, <3>2, Zenon
    <2>2. /\ current' = nx /\ thread_ticks' = 0
          /\ status' = [t \in Threads |-> IF t = nx THEN "RUNNING"
                                        ELSE IF t = current /\ freed THEN "FREE" ELSE st[t]]
      BY Zenon DEF schedule
    <2>3. /\ status' \in [Threads -> Status]
          /\ \A t \in Threads : status'[t] = IF t = nx THEN "RUNNING"
                                             ELSE IF t = current /\ freed THEN "FREE" ELSE st[t]
      BY <2>2, Zenon DEF Switchable, Status
    <2>q. Queued' = Linked(ready_list') /\ Linked(ready_list') \subseteq Threads
      BY <2>1 DEF Queued, Linked
    <2>4. ThreadTypes'
      <3>1. thread_ticks' \in 0 .. TIME_SLICE - 1
        BY <2>2, SliceAssumption
      <3> QED
        BY <2>1, <2>2, <2>3, <2>q, <3>1, Zenon DEF ThreadTypes
    <2>5. QueueIsReady'
      <3>1. \A t \in Linked(ready_list') : status'[t] = "READY"
        BY <2>1, <2>3, <2>q, Zenon DEF Switchable
      <3>2. \A t \in Threads : status'[t] = "READY" /\ t # idle_thread => t \in Linked(ready_list')
        BY <2>1, <2>3, Zenon DEF Switchable
      <3> QED
        BY <2>1, <2>q, <3>1, <3>2, Zenon DEF QueueIsReady
    <2>6. IdleNotQueued'
      BY <2>1, <2>q, Zenon DEF IdleNotQueued, Switchable
    <2>7. OneRunning'
      BY <2>2, Zenon DEF OneRunning, Switchable
    <2>8. AllListLive'
      BY <2>1, <2>3, Zenon DEF AllListLive
    <2>9. IdleInv'
      <3>1. idle_page \in Threads
        BY ThreadsAssumption, Zenon
      <3> QED
        BY <2>3, <3>1, Zenon DEF IdleInv, Switchable
    <2> QED
      BY <2>1, <2>4, <2>5, <2>6, <2>7, <2>8, <2>9, Zenon DEF SchedInv, SchedulerSafe
  \* thread_block, wherever it is called.
  <1>BlockStep.
    ASSUME SchedInv, Block PROVE SchedInv'
    <2> USE <1>BlockStep
    <2> DEFINE st == [status EXCEPT ![current] = "BLOCKED"]
    <2>1. \A t \in Threads : st[t] = IF t = current THEN "BLOCKED" ELSE status[t]
      BY SchedFacts, Zenon
    <2>2. st \in [Threads -> Status]
      BY SchedFacts, Zenon DEF Status
    <2>3. idle_page \in Threads /\ initial_thread \in Threads /\ initial_thread # idle_page
      BY ThreadsAssumption, Zenon
    <2>4. schedule(st, ready_list) /\ UNCHANGED idle_thread /\ all_list' = all_list
      BY Zenon DEF Block, thread_block
    <2>5. ready_list = <<>> => idle_thread # NoThread
      BY <2>3, IdleReady, Zenon DEF Block, MayBlock, Started
    <2>6. idle_thread = NoThread => st[idle_page] # "BLOCKED"
      BY <2>3 DEF SchedInv, IdleInv, Block, MayBlock
    <2>7. Switchable(st, ready_list)
      <3>1. \A t \in Linked(ready_list) : st[t] = "READY" /\ t \in Threads
        BY SchedFacts, Zenon
      <3> QED
        BY <2>2, <2>5, <2>6, SchedFacts DEF Switchable, SchedInv, IdleInv
    <2>8. all_list' = {t \in Threads : st[t] \notin {"FREE", "DYING"}}
      BY <2>4, SchedFacts, Zenon
    <2> QED
      BY <2>4, <2>7, SchedFacts, <1>Schedule, Zenon
  \* thread_yield, by a thread or on the way out of the timer interrupt.
  <1>YieldStep.
    ASSUME SchedInv, thread_yield PROVE SchedInv'
    <2> USE <1>YieldStep
    <2> DEFINE st == [status EXCEPT ![current] = "READY"]
               rl == IF current # idle_thread THEN Append(ready_list, current) ELSE ready_list
    <2>1. \A t \in Threads : st[t] = IF t = current THEN "READY" ELSE status[t]
      BY SchedFacts, Zenon
    <2>2. st \in [Threads -> Status]
      BY SchedFacts, Zenon DEF Status
    <2>3. idle_page \in Threads /\ NoThread \notin Threads
      BY ThreadsAssumption, Zenon
    <2>4. schedule(st, rl) /\ UNCHANGED idle_thread /\ all_list' = all_list
      BY Zenon DEF thread_yield
    <2>5. current \notin Linked(ready_list)
      BY SchedFacts, Zenon
    <2>6. /\ rl \in Seq(Threads) /\ OneEach(rl)
          /\ rl = <<>> => idle_thread # NoThread
          /\ Linked(rl) = IF current # idle_thread THEN Linked(ready_list) \cup {current} ELSE Linked(ready_list)
      <3>1. CASE current # idle_thread
        BY <3>1, SchedFacts, LinkedAppend
      <3>2. CASE current = idle_thread
        BY <2>3, <3>2, SchedFacts, Zenon
      <3> QED
        BY <3>1, <3>2, Zenon
    <2>7. Switchable(st, rl)
      <3>1. \A t \in Linked(rl) : st[t] = "READY" /\ t \in Threads
        BY <2>6, SchedFacts, Zenon
      <3>2. \A t \in Threads : st[t] = "READY" /\ t # idle_thread => t \in Linked(rl)
        BY <2>6, SchedFacts, Zenon
      <3>3. idle_thread \notin Linked(rl)
        BY <2>6, SchedFacts, Zenon
      <3>4. \A t \in Threads : st[t] # "RUNNING"
        BY SchedFacts, Zenon
      <3>5. /\ st[idle_page] # "DYING"
            /\ idle_thread = NoThread => st[idle_page] # "BLOCKED"
            /\ idle_thread # NoThread => st[idle_page] # "FREE"
        BY DEF SchedInv, IdleInv
      <3> QED
        BY <2>2, <2>6, <3>1, <3>2, <3>3, <3>4, <3>5, Zenon DEF Switchable
    <2>8. all_list' = {t \in Threads : st[t] \notin {"FREE", "DYING"}}
      BY <2>4, SchedFacts, Zenon
    <2> QED
      BY <2>4, <2>7, <2>8, SchedFacts, <1>Schedule, Zenon
  \* The end of thread_exit: the thread leaves all_list, and its page is freed.
  <1>ExitStep.
    ASSUME SchedInv, Exit PROVE SchedInv'
    <2> USE <1>ExitStep
    <2> DEFINE st == [status EXCEPT ![current] = "DYING"]
    <2>1. \A t \in Threads : st[t] = IF t = current THEN "DYING" ELSE status[t]
      BY SchedFacts, Zenon
    <2>2. st \in [Threads -> Status]
      BY SchedFacts, Zenon DEF Status
    <2>3. idle_page \in Threads /\ current # idle_page /\ idle_thread # NoThread
      BY ThreadsAssumption, Zenon DEF Exit, thread_exit
    <2>4. schedule(st, ready_list) /\ UNCHANGED idle_thread /\ all_list' = all_list \ {current}
      BY Zenon DEF Exit, thread_exit
    <2>5. Switchable(st, ready_list)
      <3>1. \A t \in Linked(ready_list) : st[t] = "READY" /\ t \in Threads
        BY SchedFacts, Zenon
      <3> QED
        BY <2>2, <2>3, SchedFacts, Zenon DEF Switchable, SchedInv, IdleInv
    <2>6. all_list' = {t \in Threads : st[t] \notin {"FREE", "DYING"}}
      BY <2>4, SchedFacts, Zenon
    <2> QED
      BY <2>4, <2>5, SchedFacts, <1>Schedule, Zenon
  \* A step that moves no thread onto or off the CPU.
  <1>StayStep.
    ASSUME SchedInv, current' = current,
           status' \in [Threads -> Status],
           ready_list' \in Seq(Threads), OneEach(ready_list'),
           idle_thread' \in {NoThread, idle_page},
           thread_ticks' \in 0 .. TIME_SLICE - 1,
           \A t \in Threads : status'[t] = "RUNNING" <=> t = current,
           \A t \in Linked(ready_list') : status'[t] = "READY",
           \A t \in Threads : status'[t] = "READY" /\ t # idle_thread' => t \in Linked(ready_list'),
           idle_thread' \notin Linked(ready_list'),
           all_list' = {t \in Threads : status'[t] \notin {"FREE", "DYING"}},
           IdleInv'
    PROVE  SchedInv'
    <2> USE <1>StayStep
    <2>1. Queued' = Linked(ready_list') /\ Linked(ready_list') \subseteq Threads
      BY DEF Queued, Linked
    <2>2. ThreadTypes'
      BY <2>1, SchedFacts, Zenon DEF ThreadTypes
    <2>3. QueueIsReady' /\ IdleNotQueued'
      BY <2>1, Zenon DEF QueueIsReady, IdleNotQueued
    <2>4. OneRunning' /\ AllListLive'
      BY Zenon DEF OneRunning, AllListLive
    <2> QED
      BY <2>2, <2>3, <2>4, Zenon DEF SchedInv, SchedulerSafe
  \* thread_start: the idle thread is created and queued.
  <1>StartStep.
    ASSUME SchedInv, thread_start PROVE SchedInv'
    <2> USE <1>StartStep
    <2>1. /\ status' = [status EXCEPT ![idle_page] = "READY"] /\ status[idle_page] = "FREE"
          /\ all_list' = all_list \cup {idle_page} /\ ready_list' = Append(ready_list, idle_page)
          /\ current' = current /\ idle_thread' = idle_thread /\ thread_ticks' = thread_ticks
      BY Zenon DEF thread_start
    <2>2. idle_page \in Threads /\ NoThread \notin Threads
      BY ThreadsAssumption, Zenon
    <2>3. idle_thread = NoThread
      BY <2>1, Zenon DEF SchedInv, IdleInv
    <2>4. \A t \in Threads : status'[t] = IF t = idle_page THEN "READY" ELSE status[t]
      BY <2>1, SchedFacts, Zenon
    <2>5. status' \in [Threads -> Status]
      BY <2>1, SchedFacts, Zenon DEF Status
    <2>6. idle_page \notin Linked(ready_list)
      BY <2>1, SchedFacts, Zenon
    <2>7. /\ ready_list' \in Seq(Threads) /\ OneEach(ready_list')
          /\ Linked(ready_list') = Linked(ready_list) \cup {idle_page}
      BY <2>1, <2>2, SchedFacts, LinkedAppend
    <2>8. \A t \in Linked(ready_list') : status'[t] = "READY" /\ t \in Threads
      BY <2>2, <2>4, <2>7, SchedFacts, Zenon
    <2>9. idle_thread' \notin Linked(ready_list')
      BY <2>1, <2>2, <2>3, <2>8, Zenon
    <2>10. \A t \in Threads : status'[t] = "READY" /\ t # idle_thread' => t \in Linked(ready_list')
      BY <2>1, <2>7, SchedFacts, Zenon
    <2>11. \A t \in Threads : status'[t] = "RUNNING" <=> t = current
      BY <2>1, SchedFacts, Zenon
    <2>12. all_list' = {t \in Threads : status'[t] \notin {"FREE", "DYING"}}
      BY <2>1, <2>2, SchedFacts
    <2>13. IdleInv' /\ thread_ticks' \in 0 .. TIME_SLICE - 1
      BY <2>1, Zenon DEF IdleInv, SchedInv, SchedulerSafe, ThreadTypes
    <2> QED
      BY <2>1, <2>5, <2>7, <2>9, <2>13, SchedFacts, <1>StayStep
  \* idle (): the idle thread leaves the run queue for good.
  <1>IdleStep.
    ASSUME SchedInv, idle PROVE SchedInv'
    <2> USE <1>IdleStep
    <2>1. /\ idle_thread' = idle_page /\ current = idle_page /\ UNCHANGED <<status, ready_list, all_list>>
          /\ current' = current /\ thread_ticks' = thread_ticks
      BY Zenon DEF idle
    <2>2. idle_page \in Threads /\ status[idle_page] = "RUNNING"
      BY <2>1, SchedFacts, Zenon
    <2>3. idle_page \notin Linked(ready_list)
      BY <2>2, SchedFacts, Zenon
    <2>4. IdleInv' /\ thread_ticks' \in 0 .. TIME_SLICE - 1
      BY <2>1, <2>2, Zenon DEF IdleInv, SchedInv, SchedulerSafe, ThreadTypes
    <2>5. \A t \in Threads : status'[t] = "READY" /\ t # idle_thread' => t \in Linked(ready_list')
      <3>1. \A t \in Threads : status[t] = "READY" => t # idle_page
        BY <2>2, Zenon
      <3> QED
        BY <2>1, SchedFacts, ThreadsAssumption, Zenon
    <2> QED
      BY <2>1, <2>4, <2>5, SchedFacts, <1>StayStep, Zenon
  \* A tick that does not end the time slice.
  <1>TickStep.
    ASSUME SchedInv, Tick PROVE SchedInv'
    <2> USE <1>TickStep
    <2>1. CASE thread_yield
      BY <2>1, <1>YieldStep, Zenon
    <2>2. CASE ~ thread_yield
      <3>1. /\ ~ (thread_ticks + 1 >= TIME_SLICE)
            /\ thread_ticks' = thread_ticks + 1
            /\ UNCHANGED <<status, current, ready_list, all_list, idle_thread>>
        BY <2>2, Zenon DEF Tick, timer_interrupt
      <3>2. thread_ticks' \in 0 .. TIME_SLICE - 1
        BY <3>1, SliceAssumption DEF SchedInv, SchedulerSafe, ThreadTypes
      <3>3. IdleInv'
        BY <3>1, Zenon DEF IdleInv, SchedInv
      <3> QED
        BY <3>1, <3>2, <3>3, SchedFacts, <1>StayStep, Zenon
    <2> QED
      BY <2>1, <2>2, Zenon
  \* init_thread: a page becomes a blocked thread.
  <1>CreateStep.
    ASSUME SchedInv, NEW t \in Threads, Create(t) PROVE SchedInv'
    <2> USE <1>CreateStep
    <2>1. /\ status' = [status EXCEPT ![t] = "BLOCKED"] /\ status[t] = "FREE"
          /\ all_list' = all_list \cup {t} /\ idle_thread # NoThread
          /\ current' = current /\ ready_list' = ready_list /\ idle_thread' = idle_thread
          /\ thread_ticks' = thread_ticks
      BY Zenon DEF Create, init_thread
    <2>2. \A u \in Threads : status'[u] = IF u = t THEN "BLOCKED" ELSE status[u]
      BY <2>1, SchedFacts, Zenon
    <2>3. status' \in [Threads -> Status]
      BY <2>1, SchedFacts, Zenon DEF Status
    <2>4. \A u \in Linked(ready_list') : status'[u] = "READY"
      BY <2>1, SchedFacts, Zenon
    <2>5. \A u \in Threads : status'[u] = "READY" /\ u # idle_thread' => u \in Linked(ready_list')
      BY <2>1, SchedFacts, Zenon
    <2>6. \A u \in Threads : status'[u] = "RUNNING" <=> u = current
      BY <2>1, SchedFacts, Zenon
    <2>7. all_list' = {u \in Threads : status'[u] \notin {"FREE", "DYING"}}
      BY <2>1, SchedFacts, Zenon
    <2>8. IdleInv' /\ thread_ticks' \in 0 .. TIME_SLICE - 1
      BY <2>1 DEF IdleInv, SchedInv, SchedulerSafe, ThreadTypes
    <2> QED
      BY <2>1, <2>3, <2>8, SchedFacts, <1>StayStep
  \* thread_unblock: the thread joins the end of the run queue.
  <1>UnblockStep.
    ASSUME SchedInv, NEW t \in Threads, Unblock(t) PROVE SchedInv'
    <2> USE <1>UnblockStep
    <2>1. /\ status' = [status EXCEPT ![t] = "READY"] /\ status[t] = "BLOCKED" /\ t # idle_thread
          /\ all_list' = all_list /\ ready_list' = Append(ready_list, t)
          /\ current' = current /\ idle_thread' = idle_thread /\ thread_ticks' = thread_ticks
      BY Zenon DEF Unblock, thread_unblock
    <2>2. \A u \in Threads : status'[u] = IF u = t THEN "READY" ELSE status[u]
      BY <2>1, SchedFacts, Zenon
    <2>3. status' \in [Threads -> Status]
      BY <2>1, SchedFacts, Zenon DEF Status
    <2>4. t \notin Linked(ready_list)
      BY <2>1, SchedFacts, Zenon
    <2>5. /\ ready_list' \in Seq(Threads) /\ OneEach(ready_list')
          /\ Linked(ready_list') = Linked(ready_list) \cup {t}
      BY <2>1, SchedFacts, LinkedAppend
    <2>6. \A u \in Linked(ready_list') : status'[u] = "READY"
      BY <2>2, <2>5, SchedFacts, Zenon
    <2>7. \A u \in Threads : status'[u] = "READY" /\ u # idle_thread' => u \in Linked(ready_list')
      BY <2>1, <2>5, SchedFacts, Zenon
    <2>8. \A u \in Threads : status'[u] = "RUNNING" <=> u = current
      BY <2>1, SchedFacts, Zenon
    <2>9. all_list' = {u \in Threads : status'[u] \notin {"FREE", "DYING"}}
      BY <2>1, SchedFacts, Zenon
    <2>10. idle_thread' \notin Linked(ready_list')
      BY <2>1, <2>5, SchedFacts, Zenon
    <2>11. IdleInv' /\ thread_ticks' \in 0 .. TIME_SLICE - 1
      BY <2>1 DEF IdleInv, SchedInv, SchedulerSafe, ThreadTypes
    <2> QED
      BY <2>1, <2>3, <2>5, <2>11, SchedFacts, <1>StayStep
  <1>1. ASSUME SchedInv, UNCHANGED thread_vars PROVE SchedInv'
    <2>1. UNCHANGED <<status, current, ready_list, all_list, idle_thread, thread_ticks>>
      BY <1>1, Zenon DEF thread_vars
    <2>2. SchedulerSafe'
      BY <1>1, <2>1, Zenon DEF SchedInv, SchedulerSafe, ThreadTypes, QueueIsReady, IdleNotQueued, OneRunning,
         AllListLive, Queued
    <2> QED
      BY <1>1, <2>1, <2>2, Zenon DEF SchedInv, IdleInv
  <1> QED
    BY <1>1, <1>StartStep, <1>IdleStep, <1>BlockStep, <1>YieldStep, <1>ExitStep, <1>TickStep, <1>CreateStep, <1>UnblockStep, Zenon
       DEF ThreadStep, Yield

\* Whatever order system calls and ticks come in, for any number of threads and
\* any time slice, the scheduler's data agree: schedule always finds a thread,
\* the run queue holds exactly the ready threads once each, exactly the thread
\* on the CPU is marked running, and all_list links exactly the live threads.
THEOREM SchedulerAlwaysSafe ==
  ThreadSpec => []SchedulerSafe
  <1>1. SchedInv => SchedulerSafe
    BY Zenon DEF SchedInv
  <1> QED
    BY <1>1, SchedInit, SchedStep, PTL DEF ThreadSpec

-----------------------------------------------------------------------------
(* The invariant.                                                          *)

\* The types of the primitives' own state.
Types ==
  /\ value \in [Sems -> Nat] /\ waiters \in [Sems -> Seq(Threads)]
  /\ holder \in [Locks -> Threads \cup {NoThread}]
  /\ cond_waiters \in [Conds -> Seq(Threads)]
  /\ pc \in [Threads -> Labels] /\ at \in [Threads -> Sems]
  /\ after \in [Threads -> Labels] /\ ret \in [Threads -> Labels]
  /\ cv \in [Threads -> Conds \cup {NoThread}]
  /\ new \in [Threads -> Threads \cup {NoThread}]
  /\ tmp \in [Threads -> Nat] /\ tid \in [Threads -> Nat] /\ next_tid \in Nat

\* t is in lock_acquire.
Acquiring(t) == pc[t] = "own" \/ (pc[t] = "wait" /\ after[t] = "own")

\* t is in cond_wait or cond_broadcast and still needs the condition.
InCond(t) ==
  \/ pc[t] \in {"crelease", "cdown", "cacquire", "broadcast"}
  \/ pc[t] = "up" /\ ret[t] \in {"cdown", "broadcast"}
  \/ pc[t] = "wait" /\ after[t] = "cacquire"

\* t is in thread_create and has a page for the new thread.
Creating(t) ==
  \/ pc[t] \in {"ctid", "tid_read", "tid_write", "tid_done", "cunblock"}
  \/ pc[t] = "up" /\ ret[t] = "cunblock"
  \/ Acquiring(t) /\ ret[t] = "tid_read"

\* Where a thread returns to fits the operation it is in.
Shape(t) ==
  /\ ret[t] \in {"run", "cdown", "broadcast", "cunblock", "block", "tid_read"}
  /\ pc[t] \in {"boot", "started"} => t = initial_thread
  /\ t = idle_page => pc[t] \in {"run", "up", "block"}
  /\ t = idle_page /\ pc[t] = "up" => at[t] = idle_started /\ ret[t] = "block"
  /\ t # idle_page => pc[t] # "block" /\ ret[t] # "block"
  /\ pc[t] = "wait" =>
       /\ after[t] \in {"run", "own", "cacquire"}
       /\ after[t] = "run" => at[t] \in Semas
       /\ after[t] = "own" => at[t] \in Locks
       /\ after[t] = "cacquire" => at[t] = t
  /\ pc[t] = "own" => at[t] \in Locks
  /\ Acquiring(t) => ret[t] \in {"run", "tid_read"} /\ (ret[t] = "tid_read" => at[t] = tid_lock)
  /\ pc[t] = "up" => ret[t] \in {"run", "cdown", "broadcast", "cunblock", "block"}
  /\ InCond(t) => cv[t] \in Conds
  /\ Creating(t) => new[t] \in Threads

\* How far the boot is: the idle thread exists once thread_start has created
\* it, and any other thread only once idle () has run.
BootInv ==
  /\ pc[initial_thread] = "boot" <=> status[idle_page] = "FREE"
  /\ pc[initial_thread] = "boot" => \A t \in Threads \ {initial_thread} : pc[t] = "run"
  /\ idle_thread = NoThread =>
       /\ pc[idle_page] = "run"
       /\ \A t \in Threads \ {initial_thread, idle_page} : status[t] = "FREE"

\* The scheduler's data agree, and every thread is where the operation it is
\* in can have brought it.
CallInv == SchedInv /\ Types /\ (\A t \in Threads : Shape(t)) /\ BootInv

-----------------------------------------------------------------------------
(* What the steps of the scheduler do, in the terms the primitives need.   *)

\* The scheduler's invariant, spelled out.
LEMMA SchedSays ==
  ASSUME SchedInv
  PROVE  /\ status \in [Threads -> Status] /\ current \in Threads /\ status[current] = "RUNNING"
         /\ idle_thread \in {NoThread, idle_page}
         /\ ready_list \in Seq(Threads) /\ OneEach(ready_list)
         /\ \A t \in Threads : status[t] = "RUNNING" => t = current
         /\ \A n \in DOMAIN ready_list : ready_list[n] \in Threads /\ status[ready_list[n]] = "READY"
         /\ status[idle_page] # "DYING"
         /\ idle_thread = NoThread => status[idle_page] # "BLOCKED"
         /\ idle_thread # NoThread => status[idle_page] # "FREE"
  <1>1. ready_list \in Seq(Threads) => \A n \in DOMAIN ready_list : ready_list[n] \in Linked(ready_list)
    BY Zenon DEF Linked
  <1> QED
    BY <1>1, SchedFacts, ThreadsAssumption, Zenon DEF SchedInv, IdleInv, Status

\* The thread that schedule picks was ready, or is the idle thread; apart from
\* it only the running thread changes its status.
LEMMA Picks ==
  ASSUME SchedInv, NEW st, NEW rl, schedule(st, rl),
         rl = ready_list \/ rl = Append(ready_list, current),
         rl = <<>> => idle_thread # NoThread
  PROVE  /\ \A u \in Threads \ {current, idle_page} : st[u] = status[u] =>
              \/ status'[u] = status[u]
              \/ status[u] = "READY" /\ status'[u] = "RUNNING"
         /\ current # idle_page => status'[idle_page] \in {st[idle_page], "RUNNING"}
         /\ status'[current] \in {st[current], "RUNNING"} \/ (st[current] = "DYING" /\ status'[current] = "FREE")
         /\ current # idle_page /\ rl = ready_list => status'[current] # "RUNNING" \/ st[current] = "RUNNING"
  <1> DEFINE nx == IF rl = <<>> THEN idle_thread ELSE Head(rl)
  <1>1. /\ status' = [t \in Threads |-> IF t = nx THEN "RUNNING"
                                       ELSE IF t = current /\ st[current] = "DYING" /\ current # initial_thread
                                              THEN "FREE" ELSE st[t]]
    BY Zenon DEF schedule, next_thread_to_run
  <1>2. current \in Threads /\ idle_page \in Threads
    BY SchedSays, ThreadsAssumption, Zenon
  <1>3. ready_list # <<>> => Head(ready_list) \in Threads /\ status[Head(ready_list)] = "READY"
    <2> SUFFICES ASSUME ready_list # <<>> PROVE Head(ready_list) \in Threads /\ status[Head(ready_list)] = "READY"
      BY Zenon
    <2>1. 1 \in DOMAIN ready_list /\ Head(ready_list) = ready_list[1]
      BY SchedSays
    <2> QED
      BY <2>1, SchedSays, Zenon
  <1>4. nx \in {idle_page, current} \/ status[nx] = "READY"
    <2>1. CASE rl = ready_list
      BY <1>3, <2>1, SchedSays, Zenon
    <2>2. CASE rl = Append(ready_list, current) /\ ready_list = <<>>
      BY <1>2, <2>2
    <2>3. CASE rl = Append(ready_list, current) /\ ready_list # <<>>
      <3>1. Head(rl) = Head(ready_list) /\ rl # <<>>
        BY <2>3, SchedSays
      <3> QED
        BY <1>3, <2>3, <3>1, Zenon
    <2> QED
      BY <2>1, <2>2, <2>3, Zenon
  <1>5. current # idle_page /\ rl = ready_list => nx # current
    BY <1>3, SchedSays, ThreadsAssumption, Zenon
  <1> QED
    BY <1>1, <1>2, <1>4, <1>5, Zenon

\* thread_block puts the caller, and nobody else, to sleep.
LEMMA BlockDoes ==
  ASSUME SchedInv, Block
  PROVE  /\ idle_thread' = idle_thread
         /\ \A u \in Threads : status'[u] = "FREE" <=> status[u] = "FREE"
         /\ \A u \in Threads \ {current, idle_page} : status'[u] = "BLOCKED" <=> status[u] = "BLOCKED"
         /\ current # idle_page => status'[current] = "BLOCKED"
  <1> DEFINE st == [status EXCEPT ![current] = "BLOCKED"]
  <1>1. schedule(st, ready_list) /\ idle_thread' = idle_thread
    BY Zenon DEF Block, thread_block
  <1>2. /\ \A u \in Threads \ {current} : st[u] = status[u]
        /\ current \in Threads /\ st[current] = "BLOCKED" /\ status[current] = "RUNNING"
        /\ idle_page \in Threads /\ initial_thread # idle_page
    BY SchedSays, ThreadsAssumption, Zenon
  <1>3. /\ status[idle_page] # "FREE"
        /\ idle_thread # NoThread \/ current = initial_thread
    BY Zenon DEF Block, MayBlock, Started
  <1>4. ready_list = <<>> => idle_thread # NoThread
    BY <1>2, <1>3, IdleReady, ThreadsAssumption, Zenon
  <1>5. /\ \A u \in Threads \ {current, idle_page} :
              \/ status'[u] = status[u]
              \/ status[u] = "READY" /\ status'[u] = "RUNNING"
        /\ current # idle_page => status'[idle_page] \in {st[idle_page], "RUNNING"}
        /\ status'[current] \in {st[current], "RUNNING"}
        /\ current # idle_page => status'[current] # "RUNNING"
    BY <1>1, <1>2, <1>4, Picks, Zenon
  <1>6. \A u \in Threads : status'[u] = "FREE" <=> status[u] = "FREE"
    BY <1>2, <1>3, <1>5, Zenon
  <1> QED
    BY <1>1, <1>2, <1>5, <1>6, Zenon

\* The timer interrupt neither wakes a thread nor puts one to sleep.
LEMMA TickDoes ==
  ASSUME SchedInv, Tick
  PROVE  /\ idle_thread' = idle_thread
         /\ \A u \in Threads : status'[u] = "FREE" <=> status[u] = "FREE"
         /\ \A u \in Threads \ {idle_page} : status'[u] = "BLOCKED" <=> status[u] = "BLOCKED"
  <1> DEFINE st == [status EXCEPT ![current] = "READY"]
             rl == IF current # idle_thread THEN Append(ready_list, current) ELSE ready_list
  <1>1. CASE status' = status /\ idle_thread' = idle_thread
    BY <1>1, Zenon
  <1>2. CASE schedule(st, rl) /\ idle_thread' = idle_thread
    <2>1. /\ \A u \in Threads \ {current} : st[u] = status[u]
          /\ current \in Threads /\ st[current] = "READY" /\ status[current] = "RUNNING"
          /\ idle_page \in Threads /\ NoThread \notin Threads
      BY SchedSays, ThreadsAssumption, Zenon
    <2>2. status[idle_page] # "FREE"
      BY Zenon DEF Tick, Started
    <2>3. (rl = ready_list \/ rl = Append(ready_list, current)) /\ (rl = <<>> => idle_thread # NoThread)
      BY <2>1, SchedSays
    <2>4. /\ \A u \in Threads \ {current, idle_page} :
                \/ status'[u] = status[u]
                \/ status[u] = "READY" /\ status'[u] = "RUNNING"
          /\ current # idle_page => status'[idle_page] \in {st[idle_page], "RUNNING"}
          /\ status'[current] \in {st[current], "RUNNING"}
      BY <1>2, <2>1, <2>3, Picks, Zenon
    <2> QED
      BY <1>2, <2>1, <2>2, <2>4, Zenon
  <1> QED
    BY <1>1, <1>2, Zenon DEF Tick, timer_interrupt, thread_yield

\* The end of thread_exit takes the caller, and nobody else, out of the system.
LEMMA ExitDoes ==
  ASSUME SchedInv, Exit
  PROVE  /\ idle_thread' = idle_thread /\ idle_thread # NoThread /\ current # idle_page
         /\ \A u \in Threads \ {current} : status'[u] = "FREE" <=> status[u] = "FREE"
         /\ \A u \in Threads \ {current, idle_page} : status'[u] = "BLOCKED" <=> status[u] = "BLOCKED"
         /\ status'[current] # "BLOCKED"
  <1> DEFINE st == [status EXCEPT ![current] = "DYING"]
  <1>1. /\ schedule(st, ready_list) /\ idle_thread' = idle_thread
        /\ idle_thread # NoThread /\ current # idle_page
    BY Zenon DEF Exit, thread_exit
  <1>2. /\ \A u \in Threads \ {current} : st[u] = status[u]
        /\ current \in Threads /\ st[current] = "DYING" /\ status[current] = "RUNNING"
        /\ idle_page \in Threads /\ status[idle_page] # "FREE"
    BY <1>1, SchedSays, ThreadsAssumption, Zenon
  <1>3. /\ \A u \in Threads \ {current, idle_page} :
              \/ status'[u] = status[u]
              \/ status[u] = "READY" /\ status'[u] = "RUNNING"
        /\ status'[idle_page] \in {st[idle_page], "RUNNING"}
        /\ status'[current] \in {st[current], "RUNNING", "FREE"}
    BY <1>1, <1>2, Picks, Zenon
  <1> QED
    BY <1>1, <1>2, <1>3, Zenon

\* thread_unblock makes one blocked thread ready.
LEMMA UnblockDoes ==
  ASSUME SchedInv, NEW t \in Threads, thread_unblock(t)
  PROVE  /\ idle_thread' = idle_thread /\ current' = current /\ status[t] = "BLOCKED"
         /\ \A u \in Threads : status'[u] = IF u = t THEN "READY" ELSE status[u]
  BY SchedSays, Zenon DEF thread_unblock

-----------------------------------------------------------------------------
(* The steps of the primitives.                                            *)

\* Code that runs after the boot's first step may be preempted, and may block
\* unless it is the idle thread's.
LEMMA Booted ==
  ASSUME CallInv, pc[current] # "boot"
  PROVE  Started /\ (current # idle_page => MayBlock)
  <1>1. current \in Threads /\ status[current] = "RUNNING"
    BY SchedSays, Zenon DEF CallInv
  <1>2. idle_thread = NoThread => current \in {initial_thread, idle_page}
    BY <1>1, Zenon DEF CallInv, BootInv
  <1>3. status[idle_page] # "FREE"
    BY <1>1, <1>2, SchedSays, Zenon DEF CallInv, BootInv
  <1> QED
    BY <1>2, <1>3, Zenon DEF Started, MayBlock

\* Thread u is where it was.
SameFor(u) ==
  /\ pc'[u] = pc[u] /\ at'[u] = at[u] /\ after'[u] = after[u]
  /\ ret'[u] = ret[u] /\ cv'[u] = cv[u] /\ new'[u] = new[u]

\* The step keeps the invariant, is one that thread.c allows, and moves only the
\* running thread.
Allowed ==
  /\ CallInv' /\ [ThreadStep]_thread_vars
  /\ \A u \in Threads \ {current} : SameFor(u)

\* A step that leaves the scheduler alone.
LEMMA Quiet ==
  ASSUME UNCHANGED thread_vars
  PROVE  /\ [ThreadStep]_thread_vars /\ idle_thread' = idle_thread /\ status' = status /\ current' = current
  BY Zenon DEF thread_vars, thread_vars

\* The types of a label.
LEMMA LabelNames ==
  /\ {"boot", "started", "run", "wait", "own", "up", "crelease", "cdown"} \subseteq Labels
  /\ {"cacquire", "broadcast", "ctid", "tid_read", "tid_write", "tid_done"} \subseteq Labels
  /\ {"cunblock", "block"} \subseteq Labels
  BY Zenon DEF Labels

\* The types sema_down works with.
LEMMA DownTypes ==
  ASSUME Types, NEW t \in Threads, NEW s \in Sems, NEW k \in Labels, sema_down(t, s, k)
  PROVE  /\ value' \in [Sems -> Nat] /\ waiters' \in [Sems -> Seq(Threads)]
         /\ pc' \in [Threads -> Labels] /\ at' \in [Threads -> Sems] /\ after' \in [Threads -> Labels]
         /\ at'[t] = s /\ ((pc'[t] = "wait" /\ after'[t] = k) \/ pc'[t] = k)
         /\ \A u \in Threads \ {t} : pc'[u] = pc[u] /\ at'[u] = at[u] /\ after'[u] = after[u]
  <1>1. /\ value \in [Sems -> Nat] /\ waiters \in [Sems -> Seq(Threads)]
        /\ pc \in [Threads -> Labels] /\ at \in [Threads -> Sems] /\ after \in [Threads -> Labels]
    BY Zenon DEF Types
  <1>2. at' \in [Threads -> Sems] /\ at'[t] = s /\ \A u \in Threads \ {t} : at'[u] = at[u]
    BY <1>1, Zenon DEF sema_down
  <1>3. CASE value[s] = 0
    <2>1. /\ value' = value /\ waiters' = [waiters EXCEPT ![s] = Append(@, t)]
          /\ pc' = [pc EXCEPT ![t] = "wait"] /\ after' = [after EXCEPT ![t] = k]
      BY <1>3, Zenon DEF sema_down
    <2>2. Append(waiters[s], t) \in Seq(Threads)
      BY <1>1
    <2>3. value' \in [Sems -> Nat] /\ waiters' \in [Sems -> Seq(Threads)]
      BY <1>1, <2>1, <2>2, Zenon
    <2>4. pc' \in [Threads -> Labels] /\ after' \in [Threads -> Labels]
      BY <1>1, <2>1, LabelNames, Zenon
    <2> QED
      BY <1>1, <1>2, <2>1, <2>3, <2>4, Zenon
  <1>4. CASE value[s] # 0
    <2>1. /\ value' = [value EXCEPT ![s] = @ - 1] /\ waiters' = waiters
          /\ pc' = [pc EXCEPT ![t] = k] /\ after' = [after EXCEPT ![t] = "run"]
      BY <1>4, Zenon DEF sema_down
    <2>2. value[s] - 1 \in Nat
      BY <1>1, <1>4
    <2>3. value' \in [Sems -> Nat] /\ waiters' \in [Sems -> Seq(Threads)]
      BY <1>1, <2>1, <2>2, Zenon
    <2>4. pc' \in [Threads -> Labels] /\ after' \in [Threads -> Labels]
      BY <1>1, <2>1, LabelNames, Zenon
    <2> QED
      BY <1>1, <1>2, <2>1, <2>3, <2>4, Zenon
  <1> QED
    BY <1>3, <1>4, Zenon

-----------------------------------------------------------------------------
(* The rest of the steps.                                                  *)

-----------------------------------------------------------------------------
\* thread_init and the initialization of the primitives establish CallInv.
LEMMA CallInit ==
  Init => CallInv
  <1> SUFFICES ASSUME Init PROVE CallInv
    BY Zenon
  <1>1. SchedInv
    BY SchedInit, Zenon DEF Init
  <1>2. /\ \A t \in Threads : pc[t] = IF t = initial_thread THEN "boot" ELSE "run"
        /\ \A t \in Threads : ret[t] = "run"
        /\ \A t \in Threads : status[t] = IF t = initial_thread THEN "RUNNING" ELSE "FREE"
    BY Zenon DEF Init, thread_init
  <1>3. ASSUME NEW t \in Threads PROVE Shape(t)
    BY <1>2, ThreadsAssumption, Zenon DEF Shape, Acquiring, InCond, Creating
  <1>4. BootInv
    BY <1>2, ThreadsAssumption, Zenon DEF BootInv
  <1>5. /\ value \in [Sems -> Nat] /\ waiters \in [Sems -> Seq(Threads)]
        /\ holder \in [Locks -> Threads \cup {NoThread}] /\ cond_waiters \in [Conds -> Seq(Threads)]
    BY DEF Init
  <1>6. /\ pc \in [Threads -> Labels] /\ after \in [Threads -> Labels] /\ ret \in [Threads -> Labels]
    BY LabelNames, Zenon DEF Init
  <1>7. at \in [Threads -> Sems]
    BY SemasAssumption, Zenon DEF Init, Sems
  <1>8. /\ cv \in [Threads -> Conds \cup {NoThread}] /\ new \in [Threads -> Threads \cup {NoThread}]
        /\ tmp \in [Threads -> Nat] /\ tid \in [Threads -> Nat] /\ next_tid \in Nat
    BY Zenon DEF Init
  <1> QED
    BY <1>1, <1>3, <1>4, <1>5, <1>6, <1>7, <1>8, Zenon DEF CallInv, Types

\* Every step of the primitives keeps CallInv and is a step of the scheduler.
LEMMA CallStep ==
  CallInv /\ [Next]_vars => Allowed
  <1> SUFFICES ASSUME CallInv, [Next]_vars PROVE Allowed
    BY Zenon
  \* A step of thread.c keeps the scheduler's invariant.
  <1>SchedKept.
    ASSUME SchedInv, [ThreadStep]_thread_vars PROVE SchedInv'
    BY <1>SchedKept, SchedStep, Zenon
  \* A step in which only the running thread moves.
  <1>OneMoves.
    ASSUME CallInv, [ThreadStep]_thread_vars, Types',
           NEW t \in Threads, t = current, pc[t] # "boot", pc'[t] # "boot", Shape(t)',
           \A u \in Threads \ {t} : SameFor(u),
           t = idle_page => idle_thread # NoThread, idle_thread' = idle_thread,
           status'[idle_page] = "FREE" <=> status[idle_page] = "FREE",
           idle_thread = NoThread => \A u \in Threads : status[u] = "FREE" => status'[u] = "FREE"
    PROVE  Allowed
    <2> USE <1>OneMoves
    <2>1. SchedInv'
      BY <1>SchedKept, Zenon DEF CallInv
    <2>2. \A u \in Threads : Shape(u)'
      <3> SUFFICES ASSUME NEW u \in Threads, u # t PROVE Shape(u)'
        BY Zenon
      <3>1. SameFor(u) /\ Shape(u)
        BY Zenon DEF CallInv
      <3>2. Acquiring(u)' => Acquiring(u)
        BY <3>1, Zenon DEF SameFor, Acquiring
      <3>3. InCond(u)' => InCond(u)
        BY <3>1, Zenon DEF SameFor, InCond
      <3>4. Creating(u)' => Creating(u)
        BY <3>1, <3>2, Zenon DEF SameFor, Creating
      <3> QED
        BY <3>1, <3>2, <3>3, <3>4 DEF Shape, SameFor
    <2>3. status[idle_page] # "FREE" /\ initial_thread \in Threads /\ idle_page \in Threads
      BY Booted, ThreadsAssumption, Zenon DEF Started
    <2>4. pc'[initial_thread] # "boot"
      BY <2>3, Zenon DEF SameFor, CallInv, BootInv
    <2>5. idle_thread = NoThread => pc'[idle_page] = "run"
      BY <2>3, Zenon DEF SameFor, CallInv, BootInv
    <2>6. BootInv'
      BY <2>3, <2>4, <2>5, Zenon DEF BootInv, CallInv
    <2> QED
      BY <2>1, <2>2, <2>6, Zenon DEF CallInv, Allowed
  \* One round of sema_down, as the scheduler sees it.
  <1>DownCalls.
    ASSUME CallInv, NEW t \in Threads, t = current, t # idle_page, pc[t] # "boot",
           NEW s, NEW k, sema_down(t, s, k)
    PROVE  /\ [ThreadStep]_thread_vars /\ idle_thread' = idle_thread
           /\ \A u \in Threads : status'[u] = "FREE" <=> status[u] = "FREE"
    <2> USE <1>DownCalls
    <2>1. CASE value[s] = 0
      <3>1. Block
        BY <2>1, Booted, Zenon DEF sema_down, Block
      <3>2. ThreadStep
        BY <3>1, Zenon DEF ThreadStep
      <3> QED
        BY <3>1, <3>2, BlockDoes, Zenon DEF CallInv
    <2>2. CASE value[s] # 0
      BY <2>2, Quiet, Zenon DEF sema_down
    <2> QED
      BY <2>1, <2>2, Zenon
  \* One round of sema_down; the caller says what its continuation k needs.
  <1>DownStep.
    ASSUME CallInv, NEW t \in Threads, t = current, t # idle_page, pc[t] # "boot",
           NEW s \in Sems, NEW k \in {"run", "own", "cacquire"}, sema_down(t, s, k),
           k = "run" => s \in Semas, k = "own" => s \in Locks, k = "cacquire" => s = t,
           holder' = holder, cond_waiters' = cond_waiters, UNCHANGED tidVars,
           ret' \in [Threads -> Labels], \A u \in Threads \ {t} : ret'[u] = ret[u],
           cv' \in [Threads -> Conds \cup {NoThread}], \A u \in Threads \ {t} : cv'[u] = cv[u],
           ret'[t] \in {"run", "cdown", "broadcast", "cunblock", "tid_read"},
           k = "own" => /\ ret'[t] \in {"run", "tid_read"}
                        /\ ret'[t] = "tid_read" => s = tid_lock /\ new[t] \in Threads,
           k = "cacquire" => cv'[t] \in Conds
    PROVE  Allowed
    <2> USE <1>DownStep
    <2>1. new' = new /\ tmp' = tmp /\ tid' = tid /\ next_tid' = next_tid
      BY Zenon DEF tidVars
    <2>2. Types /\ k \in Labels
      BY LabelNames, Zenon DEF CallInv
    <2>3. /\ value' \in [Sems -> Nat] /\ waiters' \in [Sems -> Seq(Threads)]
          /\ pc' \in [Threads -> Labels] /\ at' \in [Threads -> Sems] /\ after' \in [Threads -> Labels]
          /\ at'[t] = s /\ ((pc'[t] = "wait" /\ after'[t] = k) \/ pc'[t] = k)
          /\ \A u \in Threads \ {t} : pc'[u] = pc[u] /\ at'[u] = at[u] /\ after'[u] = after[u]
      <3>1. sema_down(t, s, k)
        BY Zenon
      <3> HIDE <1>DownStep
      <3> QED
        BY <2>2, <3>1, DownTypes
    <2>6. Types'
      BY <2>1, <2>2, <2>3, Zenon DEF Types
    <2>7. \A u \in Threads \ {t} : SameFor(u)
      BY <2>1, <2>3, Zenon DEF SameFor
    <2>8. new'[t] = new[t]
      BY <2>1, Zenon
    <2>9. Shape(t)'
      BY <2>3, <2>8, Zenon DEF Shape, Acquiring, InCond, Creating
    <2>10. pc'[t] # "boot"
      BY <2>3, Zenon
    <2> QED
      BY <2>6, <2>7, <2>9, <2>10, <1>DownCalls, <1>OneMoves, ThreadsAssumption, Zenon
  \* sema_up, as the scheduler sees it.
  <1>UpCalls.
    ASSUME CallInv, pc[current] # "boot", NEW s \in Sems, sema_up(s)
    PROVE  /\ [ThreadStep]_thread_vars /\ idle_thread' = idle_thread /\ current' = current
           /\ \A u \in Threads : status'[u] = "FREE" <=> status[u] = "FREE"
           /\ value' \in [Sems -> Nat] /\ waiters' \in [Sems -> Seq(Threads)]
    <2> USE <1>UpCalls
    <2>1. Types
      BY Zenon DEF CallInv
    <2>2. CASE waiters[s] # <<>>
      <3>1. Head(waiters[s]) \in Threads /\ thread_unblock(Head(waiters[s]))
        BY <2>1, <2>2 DEF sema_up, Types
      <3>2. ThreadStep
        BY <3>1, Booted, Zenon DEF ThreadStep, Unblock
      <3>3. Tail(waiters[s]) \in Seq(Threads)
        BY <2>1, <2>2 DEF Types
      <3>4. value' \in [Sems -> Nat] /\ waiters' \in [Sems -> Seq(Threads)]
        <4>1. value' = [value EXCEPT ![s] = @ + 1] /\ waiters' = [waiters EXCEPT ![s] = Tail(@)]
          BY <2>2, Zenon DEF sema_up
        <4>2. value \in [Sems -> Nat] /\ waiters \in [Sems -> Seq(Threads)]
          BY <2>1, Zenon DEF Types
        <4> QED
          BY <3>3, <4>1, <4>2
      <3>5. /\ idle_thread' = idle_thread /\ current' = current
            /\ \A u \in Threads : status'[u] = "FREE" <=> status[u] = "FREE"
        BY <3>1, UnblockDoes, Zenon DEF CallInv
      <3> QED
        BY <3>2, <3>4, <3>5, Zenon
    <2>3. CASE waiters[s] = <<>>
      <3>1. UNCHANGED thread_vars /\ value' \in [Sems -> Nat] /\ waiters' = waiters
        BY <2>1, <2>3 DEF sema_up, Types
      <3> QED
        BY <2>1, <3>1, Quiet, Zenon DEF Types
    <2> QED
      BY <2>2, <2>3, Zenon
  \* The callers of sema_down.
  <1>SemaDownStep.
    ASSUME CallInv, NEW t \in Threads, SemaDown(t) \/ (BootWait /\ t = initial_thread) PROVE Allowed
    <2> USE <1>SemaDownStep
    <2>1. /\ t = current /\ t # idle_page /\ pc[t] # "boot"
          /\ holder' = holder /\ cond_waiters' = cond_waiters /\ UNCHANGED tidVars /\ ret' = ret /\ cv' = cv
      BY ThreadsAssumption, Zenon DEF SemaDown, BootWait, Running
    <2>2. PICK s \in Semas : sema_down(t, s, "run")
      BY SemasAssumption, Zenon DEF SemaDown, BootWait
    <2>3. s \in Sems
      BY Zenon DEF Sems
    <2>4. Shape(t) /\ Types
      BY Zenon DEF CallInv
    <2>5. /\ ret' \in [Threads -> Labels] /\ cv' \in [Threads -> Conds \cup {NoThread}]
          /\ ret'[t] \in {"run", "cdown", "broadcast", "cunblock", "tid_read"}
      BY <2>1, <2>4, Zenon DEF Types, Shape
    <2> QED
      BY <2>1, <2>2, <2>3, <2>5, <1>DownStep, Zenon
  \* A thread comes out of thread_block in sema_down.
  <1>ResumeStep.
    ASSUME CallInv, NEW t \in Threads, Resume(t) PROVE Allowed
    <2> USE <1>ResumeStep
    <2>1. /\ t = current /\ pc[t] = "wait" /\ sema_down(t, at[t], after[t])
          /\ holder' = holder /\ cond_waiters' = cond_waiters /\ UNCHANGED tidVars /\ ret' = ret /\ cv' = cv
      BY Zenon DEF Resume
    <2>2. Shape(t) /\ Types
      BY Zenon DEF CallInv
    <2>3. /\ t # idle_page /\ at[t] \in Sems /\ after[t] \in {"run", "own", "cacquire"}
          /\ after[t] = "run" => at[t] \in Semas
          /\ after[t] = "own" => at[t] \in Locks
          /\ after[t] = "cacquire" => at[t] = t
      BY <2>1, <2>2, Zenon DEF Shape, Types
    <2>4. /\ ret' \in [Threads -> Labels] /\ cv' \in [Threads -> Conds \cup {NoThread}]
          /\ ret'[t] \in {"run", "cdown", "broadcast", "cunblock", "tid_read"}
      BY <2>1, <2>2, <2>3, Zenon DEF Types, Shape
    <2>5. after[t] = "own" => /\ ret'[t] \in {"run", "tid_read"}
                              /\ ret'[t] = "tid_read" => at[t] = tid_lock /\ new[t] \in Threads
      BY <2>1, <2>2, Zenon DEF Shape, Acquiring, Creating
    <2>6. after[t] = "cacquire" => cv'[t] \in Conds
      BY <2>1, <2>2, Zenon DEF Shape, InCond
    <2> QED
      BY <2>1, <2>3, <2>4, <2>5, <2>6, <1>DownStep
  \* lock_acquire, up to the assignment of the holder.
  <1>LockAcquireStep.
    ASSUME CallInv, NEW t \in Threads, LockAcquire(t) \/ TidLock(t) PROVE Allowed
    <2> USE <1>LockAcquireStep
    <2>1. Shape(t) /\ Types
      BY Zenon DEF CallInv
    <2>2. /\ t = current /\ t # idle_page /\ pc[t] # "boot"
          /\ holder' = holder /\ cond_waiters' = cond_waiters /\ UNCHANGED tidVars /\ cv' = cv
      BY <2>1, Zenon DEF LockAcquire, TidLock, Running, Shape
    <2>3. PICK l \in Locks, r \in {"run", "tid_read"} :
            /\ lock_acquire(t, l, r)
            /\ r = "tid_read" => l = tid_lock /\ pc[t] = "ctid"
      BY SemasAssumption, Zenon DEF LockAcquire, TidLock
    <2>4. l \in Sems /\ sema_down(t, l, "own") /\ ret' = [ret EXCEPT ![t] = r]
      BY <2>3, Zenon DEF Sems, lock_acquire
    <2>5. /\ ret' \in [Threads -> Labels] /\ ret'[t] = r /\ \A u \in Threads \ {t} : ret'[u] = ret[u]
          /\ cv' \in [Threads -> Conds \cup {NoThread}]
      BY <2>1, <2>2, <2>4, LabelNames, Zenon DEF Types
    <2>6. r = "tid_read" => l = tid_lock /\ new[t] \in Threads
      BY <2>1, <2>3, Zenon DEF Shape, Creating
    <2> QED
      BY <2>2, <2>4, <2>5, <2>6, <1>DownStep, Zenon
  \* cond_wait waits on the caller's own semaphore ...
  <1>CondDownStep.
    ASSUME CallInv, NEW t \in Threads, CondDown(t) PROVE Allowed
    <2> USE <1>CondDownStep
    <2>1. /\ t = current /\ pc[t] = "cdown" /\ sema_down(t, t, "cacquire") /\ t \in Sems
          /\ holder' = holder /\ cond_waiters' = cond_waiters /\ UNCHANGED tidVars /\ ret' = ret /\ cv' = cv
      BY Zenon DEF CondDown, Sems
    <2>2. Shape(t) /\ Types
      BY Zenon DEF CallInv
    <2>3. /\ t # idle_page /\ ret'[t] \in {"run", "cdown", "broadcast", "cunblock", "tid_read"}
          /\ cv'[t] \in Conds
      BY <2>1, <2>2, Zenon DEF Shape, InCond
    <2>4. ret' \in [Threads -> Labels] /\ cv' \in [Threads -> Conds \cup {NoThread}]
      BY <2>1, <2>2, Zenon DEF Types
    <2> QED
      BY <2>1, <2>3, <2>4, <1>DownStep, Zenon
  \* ... and takes the lock again.
  <1>CondAcquireStep.
    ASSUME CallInv, NEW t \in Threads, CondAcquire(t) PROVE Allowed
    <2> USE <1>CondAcquireStep
    <2>1. /\ t = current /\ pc[t] = "cacquire" /\ lock_acquire(t, LockOf[cv[t]], "run")
          /\ cv' = [cv EXCEPT ![t] = NoThread]
          /\ holder' = holder /\ cond_waiters' = cond_waiters /\ UNCHANGED tidVars
      BY Zenon DEF CondAcquire
    <2>2. Shape(t) /\ Types
      BY Zenon DEF CallInv
    <2>3. t # idle_page /\ cv[t] \in Conds
      BY <2>1, <2>2, Zenon DEF Shape, InCond
    <2>4. LockOf[cv[t]] \in Locks /\ LockOf[cv[t]] \in Sems
      BY <2>3, SemasAssumption, Zenon DEF Sems
    <2>5. sema_down(t, LockOf[cv[t]], "own") /\ ret' = [ret EXCEPT ![t] = "run"]
      BY <2>1, Zenon DEF lock_acquire
    <2>6. /\ ret' \in [Threads -> Labels] /\ ret'[t] = "run" /\ \A u \in Threads \ {t} : ret'[u] = ret[u]
      BY <2>2, <2>5, LabelNames, Zenon DEF Types
    <2>7. cv' \in [Threads -> Conds \cup {NoThread}] /\ \A u \in Threads \ {t} : cv'[u] = cv[u]
      BY <2>1, <2>2, Zenon DEF Types
    <2> QED
      BY <2>1, <2>3, <2>4, <2>5, <2>6, <2>7, <1>DownStep, Zenon
  \* A step of the running thread that leaves the scheduler alone.
  <1>QuietStep.
    ASSUME CallInv, UNCHANGED thread_vars, Types', NEW t \in Threads, t = current, t # idle_page,
           pc[t] # "boot", pc'[t] # "boot", Shape(t)', \A u \in Threads \ {t} : SameFor(u)
    PROVE  Allowed
    BY <1>QuietStep, Quiet, <1>OneMoves, Zenon
  \* The assignment of the holder in lock_acquire.
  <1>LockOwnStep.
    ASSUME CallInv, NEW t \in Threads, LockOwn(t) PROVE Allowed
    <2> USE <1>LockOwnStep
    <2>1. /\ t = current /\ pc[t] = "own" /\ holder' = [holder EXCEPT ![at[t]] = t]
          /\ pc' = [pc EXCEPT ![t] = ret[t]] /\ UNCHANGED thread_vars
          /\ UNCHANGED <<value, waiters, cond_waiters, at, after, ret, cv, new, tmp, tid, next_tid>>
      BY Zenon DEF LockOwn, tidVars
    <2>2. Shape(t) /\ Types
      BY Zenon DEF CallInv
    <2>3. /\ t # idle_page /\ ret[t] \in {"run", "tid_read"}
          /\ ret[t] = "tid_read" => new[t] \in Threads
      BY <2>1, <2>2, Zenon DEF Shape, Acquiring, Creating
    <2>4. pc' \in [Threads -> Labels] /\ holder' \in [Locks -> Threads \cup {NoThread}]
      <3>1. pc \in [Threads -> Labels] /\ ret[t] \in Labels /\ holder \in [Locks -> Threads \cup {NoThread}]
        BY <2>2, Zenon DEF Types
      <3> QED
        BY <2>1, <3>1, Zenon
    <2>5. Types'
      BY <2>1, <2>2, <2>4, Zenon DEF Types
    <2>6. pc'[t] = ret[t] /\ \A u \in Threads \ {t} : SameFor(u)
      BY <2>1, <2>2, Zenon DEF Types, SameFor
    <2>7. Shape(t)'
      BY <2>1, <2>2, <2>3, <2>6, Zenon DEF Shape, Acquiring, InCond, Creating
    <2> QED
      BY <2>1, <2>3, <2>5, <2>6, <2>7, <1>QuietStep, Zenon
  \* The callers of lock_release.
  <1>LockReleaseStep.
    ASSUME CallInv, NEW t \in Threads, LockRelease(t) \/ CondRelease(t) \/ TidUnlock(t) PROVE Allowed
    <2> USE <1>LockReleaseStep
    <2>1. Shape(t) /\ Types
      BY Zenon DEF CallInv
    <2>2. /\ t = current /\ t # idle_page /\ pc[t] # "boot" /\ UNCHANGED thread_vars
          /\ UNCHANGED <<value, waiters, cond_waiters, after, cv, new, tmp, tid, next_tid>>
      BY <2>1, Zenon DEF LockRelease, CondRelease, TidUnlock, Running, tidVars, Shape
    <2>3. PICK l \in Locks, r \in {"run", "cdown", "cunblock"} :
            /\ lock_release(t, l, r)
            /\ r = "cdown" => cv[t] \in Conds
            /\ r = "cunblock" => new[t] \in Threads
      <3>1. CASE LockRelease(t)
        BY <3>1, Zenon DEF LockRelease
      <3>2. CASE CondRelease(t)
        BY <2>1, <3>2, SemasAssumption, Zenon DEF CondRelease, Shape, InCond
      <3>3. CASE TidUnlock(t)
        BY <2>1, <3>3, SemasAssumption, Zenon DEF TidUnlock, Shape, Creating
      <3> QED
        BY <3>1, <3>2, <3>3, Zenon
    <2>4. /\ holder' = [holder EXCEPT ![l] = NoThread] /\ at' = [at EXCEPT ![t] = l]
          /\ ret' = [ret EXCEPT ![t] = r] /\ pc' = [pc EXCEPT ![t] = "up"]
      BY <2>3, Zenon DEF lock_release
    <2>5. /\ holder' \in [Locks -> Threads \cup {NoThread}] /\ at' \in [Threads -> Sems]
          /\ ret' \in [Threads -> Labels] /\ pc' \in [Threads -> Labels]
      BY <2>1, <2>4, LabelNames, Zenon DEF Types, Sems
    <2>6. Types'
      BY <2>1, <2>2, <2>5, Zenon DEF Types
    <2>7. /\ pc'[t] = "up" /\ at'[t] = l /\ ret'[t] = r /\ cv'[t] = cv[t] /\ new'[t] = new[t]
          /\ \A u \in Threads \ {t} : SameFor(u)
      BY <2>1, <2>2, <2>4, Zenon DEF Types, SameFor
    <2>8. Shape(t)'
      BY <2>2, <2>3, <2>7, Zenon DEF Shape, Acquiring, InCond, Creating
    <2> QED
      BY <2>2, <2>6, <2>7, <2>8, <1>QuietStep, Zenon
  \* The sema_up of lock_release, cond_signal and idle ().
  <1>UpStep.
    ASSUME CallInv, NEW t \in Threads, Up(t) PROVE Allowed
    <2> USE <1>UpStep
    <2>1. /\ t = current /\ pc[t] = "up" /\ sema_up(at[t]) /\ pc' = [pc EXCEPT ![t] = ret[t]]
          /\ UNCHANGED <<holder, cond_waiters, at, after, ret, cv, new, tmp, tid, next_tid>>
      BY Zenon DEF Up, tidVars
    <2>2. Shape(t) /\ Types /\ BootInv /\ at[t] \in Sems
      BY Zenon DEF CallInv, Types
    <2>3. /\ [ThreadStep]_thread_vars /\ idle_thread' = idle_thread
          /\ \A u \in Threads : status'[u] = "FREE" <=> status[u] = "FREE"
          /\ value' \in [Sems -> Nat] /\ waiters' \in [Sems -> Seq(Threads)]
      BY <2>1, <2>2, <1>UpCalls, Zenon
    <2>4. t = idle_page => idle_thread # NoThread
      BY <2>1, <2>2, Zenon DEF BootInv
    <2>5. pc' \in [Threads -> Labels]
      BY <2>1, <2>2, Zenon DEF Types
    <2>6. Types'
      BY <2>1, <2>2, <2>3, <2>5, Zenon DEF Types
    <2>7. pc'[t] = ret[t] /\ \A u \in Threads \ {t} : SameFor(u)
      BY <2>1, <2>2, Zenon DEF Types, SameFor
    <2>8. /\ ret[t] \in {"run", "cdown", "broadcast", "cunblock", "block"}
          /\ ret[t] = "block" <=> t = idle_page
          /\ ret[t] \in {"cdown", "broadcast"} => cv[t] \in Conds
          /\ ret[t] = "cunblock" => new[t] \in Threads
      BY <2>1, <2>2, Zenon DEF Shape, InCond, Creating
    <2>9. Shape(t)'
      BY <2>1, <2>7, <2>8, Zenon DEF Shape, Acquiring, InCond, Creating
    <2> QED
      BY <2>1, <2>3, <2>4, <2>6, <2>7, <2>8, <2>9, <1>OneMoves, ThreadsAssumption, Zenon
  \* cond_wait links its caller into the list of waiters.
  <1>CondWaitStep.
    ASSUME CallInv, NEW t \in Threads, CondWait(t) PROVE Allowed
    <2> USE <1>CondWaitStep
    <2>1. PICK c \in Conds :
            /\ value' = [value EXCEPT ![t] = 0] /\ waiters' = [waiters EXCEPT ![t] = <<>>]
            /\ cond_waiters' = [cond_waiters EXCEPT ![c] = Append(@, t)] /\ cv' = [cv EXCEPT ![t] = c]
      BY Zenon DEF CondWait
    <2>2. /\ t = current /\ t # idle_page /\ pc[t] = "run" /\ pc' = [pc EXCEPT ![t] = "crelease"]
          /\ UNCHANGED thread_vars /\ UNCHANGED <<holder, at, after, ret, new, tmp, tid, next_tid>>
      BY Zenon DEF CondWait, Running, tidVars
    <2>3. Shape(t) /\ Types
      BY Zenon DEF CallInv
    <2>4. value' \in [Sems -> Nat] /\ waiters' \in [Sems -> Seq(Threads)]
      <3>1. /\ value \in [Sems -> Nat] /\ waiters \in [Sems -> Seq(Threads)]
            /\ value' = [value EXCEPT ![t] = 0] /\ waiters' = [waiters EXCEPT ![t] = <<>>] /\ t \in Sems
        BY <2>1, <2>3, Zenon DEF Types, Sems
      <3>2. <<>> \in Seq(Threads)
        OBVIOUS
      <3> QED
        BY <3>1, <3>2, Zenon
    <2>5. Append(cond_waiters[c], t) \in Seq(Threads)
      BY <2>3 DEF Types
    <2>6. cond_waiters' \in [Conds -> Seq(Threads)] /\ cv' \in [Threads -> Conds \cup {NoThread}]
      BY <2>1, <2>3, <2>5, Zenon DEF Types
    <2>7. pc' \in [Threads -> Labels]
      BY <2>2, <2>3, LabelNames, Zenon DEF Types
    <2>8. Types'
      BY <2>2, <2>3, <2>4, <2>6, <2>7, Zenon DEF Types
    <2>9. pc'[t] = "crelease" /\ cv'[t] = c /\ \A u \in Threads \ {t} : SameFor(u)
      BY <2>1, <2>2, <2>3, Zenon DEF Types, SameFor
    <2>10. Shape(t)'
      BY <2>2, <2>3, <2>9, Zenon DEF Shape, Acquiring, InCond, Creating
    <2> QED
      BY <2>2, <2>8, <2>9, <2>10, <1>QuietStep, Zenon
  \* cond_signal, and a round of cond_broadcast that finds a waiter.
  <1>PopStep.
    ASSUME CallInv, NEW t \in Threads, t = current, t # idle_page, pc[t] # "boot",
           NEW c \in Conds, NEW r \in {"run", "broadcast"}, r = "broadcast" => cv[t] \in Conds,
           cond_waiters[c] # <<>>, PopWaiter(t, c, r), UNCHANGED thread_vars,
           UNCHANGED <<value, waiters, holder, after, cv, new, tmp, tid, next_tid>>
    PROVE  Allowed
    <2> USE <1>PopStep
    <2>1. /\ at' = [at EXCEPT ![t] = Head(cond_waiters[c])] /\ ret' = [ret EXCEPT ![t] = r]
          /\ cond_waiters' = [cond_waiters EXCEPT ![c] = Tail(@)] /\ pc' = [pc EXCEPT ![t] = "up"]
      BY Zenon DEF PopWaiter
    <2>2. Types
      BY Zenon DEF CallInv
    <2>3. Head(cond_waiters[c]) \in Threads /\ Tail(cond_waiters[c]) \in Seq(Threads)
      BY <2>2 DEF Types
    <2>4. cond_waiters' \in [Conds -> Seq(Threads)] /\ at' \in [Threads -> Sems]
      BY <2>1, <2>2, <2>3, Zenon DEF Types, Sems
    <2>5. ret' \in [Threads -> Labels] /\ pc' \in [Threads -> Labels]
      BY <2>1, <2>2, LabelNames, Zenon DEF Types
    <2>6. Types'
      BY <2>2, <2>4, <2>5, Zenon DEF Types
    <2>7. /\ pc'[t] = "up" /\ ret'[t] = r /\ cv'[t] = cv[t]
          /\ \A u \in Threads \ {t} : SameFor(u)
      BY <2>1, <2>2, Zenon DEF Types, SameFor
    <2>8. Shape(t)'
      BY <2>7, Zenon DEF Shape, Acquiring, InCond, Creating
    <2> QED
      BY <2>6, <2>7, <2>8, <1>QuietStep, Zenon
  \* cond_signal takes the first waiter.
  <1>CondSignalStep.
    ASSUME CallInv, NEW t \in Threads, CondSignal(t) PROVE Allowed
    <2> USE <1>CondSignalStep
    <2>1. /\ t = current /\ t # idle_page /\ pc[t] = "run" /\ UNCHANGED thread_vars
          /\ UNCHANGED <<value, waiters, holder, after, cv, new, tmp, tid, next_tid>>
          /\ \E c \in Conds : cond_waiters[c] # <<>> /\ PopWaiter(t, c, "run")
      BY Zenon DEF CondSignal, Running, tidVars
    <2> QED
      BY <2>1, <1>PopStep, Zenon
  \* The loop of cond_broadcast begins or ends.
  <1>BroadcastMove.
    ASSUME CallInv, NEW t \in Threads, t = current, t # idle_page, pc[t] # "boot", UNCHANGED thread_vars,
           NEW p \in {"run", "broadcast"}, NEW c \in Conds \cup {NoThread}, p = "broadcast" => c \in Conds,
           pc' = [pc EXCEPT ![t] = p], cv' = [cv EXCEPT ![t] = c],
           UNCHANGED <<value, waiters, holder, after, new, tmp, tid, next_tid, at, ret, cond_waiters>>
    PROVE  Allowed
    <2> USE <1>BroadcastMove
    <2>1. Shape(t) /\ Types
      BY Zenon DEF CallInv
    <2>2. pc \in [Threads -> Labels] /\ cv \in [Threads -> Conds \cup {NoThread}] /\ p \in Labels
      BY <2>1, LabelNames, Zenon DEF Types
    <2>3. pc' \in [Threads -> Labels] /\ pc'[t] = p /\ \A u \in Threads \ {t} : pc'[u] = pc[u]
      BY <2>2, Zenon
    <2>4. cv' \in [Threads -> Conds \cup {NoThread}] /\ cv'[t] = c /\ \A u \in Threads \ {t} : cv'[u] = cv[u]
      BY <2>2, Zenon
    <2>5. Types'
      BY <2>1, <2>3, <2>4, Zenon DEF Types
    <2>6. \A u \in Threads \ {t} : SameFor(u)
      BY <2>3, <2>4, Zenon DEF SameFor
    <2>7. Shape(t)'
      BY <2>1, <2>3, <2>4, Zenon DEF Shape, Acquiring, InCond, Creating
    <2> QED
      BY <2>3, <2>5, <2>6, <2>7, <1>QuietStep, Zenon
  \* cond_broadcast, which takes one waiter after the other.
  <1>BroadcastStep.
    ASSUME CallInv, NEW t \in Threads, CondBroadcast(t) \/ BroadcastLoop(t) PROVE Allowed
    <2> USE <1>BroadcastStep
    <2>1. Shape(t)
      BY Zenon DEF CallInv
    <2>2. /\ t = current /\ t # idle_page /\ pc[t] # "boot" /\ UNCHANGED thread_vars
          /\ UNCHANGED <<value, waiters, holder, after, new, tmp, tid, next_tid>>
      BY <2>1, Zenon DEF CondBroadcast, BroadcastLoop, Running, tidVars, Shape
    <2>3. CASE CondBroadcast(t)
      BY <2>2, <2>3, <1>BroadcastMove, Zenon DEF CondBroadcast
    <2>4. CASE BroadcastLoop(t)
      <3>1. cv[t] \in Conds
        BY <2>1, <2>4, Zenon DEF BroadcastLoop, Shape, InCond
      <3>2. CASE cond_waiters[cv[t]] # <<>>
        BY <2>2, <2>4, <3>1, <3>2, <1>PopStep, Zenon DEF BroadcastLoop
      <3>3. CASE cond_waiters[cv[t]] = <<>>
        BY <2>2, <2>4, <3>3, <1>BroadcastMove, Zenon DEF BroadcastLoop
      <3> QED
        BY <3>2, <3>3, Zenon
    <2> QED
      BY <2>3, <2>4, Zenon
  \* A step of thread_create or allocate_tid that keeps the thread's page.
  <1>TidMove.
    ASSUME CallInv, NEW t \in Threads, t = current, UNCHANGED thread_vars,
           pc[t] \in {"tid_read", "tid_write"}, NEW p \in {"tid_write", "tid_done"},
           pc' = [pc EXCEPT ![t] = p], tmp' \in [Threads -> Nat], next_tid' \in Nat,
           UNCHANGED <<value, waiters, holder, cond_waiters, at, after, ret, cv, new, tid>>
    PROVE  Allowed
    <2> USE <1>TidMove
    <2>1. Shape(t) /\ Types
      BY Zenon DEF CallInv
    <2>2. t # idle_page /\ new[t] \in Threads /\ pc \in [Threads -> Labels] /\ p \in Labels
      BY <2>1, LabelNames, Zenon DEF Shape, Creating, Types
    <2>3. pc' \in [Threads -> Labels] /\ pc'[t] = p /\ \A u \in Threads \ {t} : pc'[u] = pc[u]
      BY <2>2, Zenon
    <2>4. Types'
      BY <2>1, <2>3, Zenon DEF Types
    <2>5. \A u \in Threads \ {t} : SameFor(u)
      BY <2>3, Zenon DEF SameFor
    <2>6. Shape(t)'
      BY <2>1, <2>2, <2>3, Zenon DEF Shape, Acquiring, InCond, Creating
    <2> QED
      BY <2>2, <2>3, <2>4, <2>5, <2>6, <1>QuietStep, Zenon
  \* allocate_tid reads and writes next_tid.
  <1>TidStep.
    ASSUME CallInv, NEW t \in Threads, TidRead(t) \/ TidWrite(t) PROVE Allowed
    <2> USE <1>TidStep
    <2>1. tmp \in [Threads -> Nat] /\ next_tid \in Nat
      BY Zenon DEF CallInv, Types
    <2>2. CASE TidRead(t)
      <3>1. tmp' \in [Threads -> Nat] /\ next_tid' = next_tid
        BY <2>1, <2>2, Zenon DEF TidRead
      <3> QED
        BY <2>1, <2>2, <3>1, <1>TidMove, Zenon DEF TidRead, syncVars
    <2>3. CASE TidWrite(t)
      <3>1. tmp' = tmp /\ next_tid' \in Nat
        BY <2>1, <2>3 DEF TidWrite
      <3> QED
        BY <2>1, <2>3, <3>1, <1>TidMove, Zenon DEF TidWrite, syncVars
    <2> QED
      BY <2>2, <2>3, Zenon
  \* thread_create takes a free page for the new thread.
  <1>ThreadCreateStep.
    ASSUME CallInv, NEW t \in Threads, ThreadCreate(t) PROVE Allowed
    <2> USE <1>ThreadCreateStep
    <2>1. PICK n \in Threads : Create(n) /\ new' = [new EXCEPT ![t] = n]
      BY Zenon DEF ThreadCreate
    <2>2. /\ t = current /\ t # idle_page /\ pc[t] = "run" /\ pc' = [pc EXCEPT ![t] = "ctid"]
          /\ UNCHANGED <<value, waiters, holder, cond_waiters, at, after, ret, cv, tmp, tid, next_tid>>
      BY Zenon DEF ThreadCreate, Running, syncVars
    <2>3. Shape(t) /\ Types
      BY Zenon DEF CallInv
    <2>4. /\ ThreadStep /\ idle_thread' = idle_thread /\ idle_thread # NoThread /\ status[n] = "FREE"
          /\ status' = [status EXCEPT ![n] = "BLOCKED"]
      BY <2>1, Zenon DEF ThreadStep, Create, init_thread
    <2>5. idle_page \in Threads /\ status'[idle_page] = status[idle_page]
      BY <2>4, SchedSays, ThreadsAssumption, Zenon DEF CallInv
    <2>6. pc \in [Threads -> Labels] /\ new \in [Threads -> Threads \cup {NoThread}]
      BY <2>3, Zenon DEF Types
    <2>7. pc' \in [Threads -> Labels] /\ pc'[t] = "ctid" /\ \A u \in Threads \ {t} : pc'[u] = pc[u]
      BY <2>2, <2>6, LabelNames, Zenon
    <2>8. new' \in [Threads -> Threads \cup {NoThread}] /\ new'[t] = n /\ \A u \in Threads \ {t} : new'[u] = new[u]
      BY <2>1, <2>6, Zenon
    <2>9. Types'
      BY <2>2, <2>3, <2>7, <2>8, Zenon DEF Types
    <2>10. \A u \in Threads \ {t} : SameFor(u)
      BY <2>2, <2>7, <2>8, Zenon DEF SameFor
    <2>11. Shape(t)'
      BY <2>2, <2>3, <2>7, <2>8, Zenon DEF Shape, Acquiring, InCond, Creating
    <2> QED
      BY <2>2, <2>4, <2>5, <2>7, <2>9, <2>10, <2>11, <1>OneMoves, Zenon
  \* The end of thread_create.
  <1>CreateUnblockStep.
    ASSUME CallInv, NEW t \in Threads, CreateUnblock(t) PROVE Allowed
    <2> USE <1>CreateUnblockStep
    <2>1. /\ t = current /\ pc[t] = "cunblock" /\ thread_unblock(new[t])
          /\ pc' = [pc EXCEPT ![t] = "run"] /\ new' = [new EXCEPT ![t] = NoThread]
          /\ tmp' = [tmp EXCEPT ![t] = 0] /\ tid' = [tid EXCEPT ![new[t]] = tmp[t]]
          /\ UNCHANGED <<value, waiters, holder, cond_waiters, at, after, ret, cv, next_tid>>
      BY Zenon DEF CreateUnblock, syncVars
    <2>2. Shape(t) /\ Types
      BY Zenon DEF CallInv
    <2>3. t # idle_page /\ new[t] \in Threads
      BY <2>1, <2>2, Zenon DEF Shape, Creating
    <2>4. ThreadStep
      BY <2>1, <2>3, Booted, Zenon DEF ThreadStep, Unblock
    <2>5. idle_thread' = idle_thread /\ \A u \in Threads : status'[u] = "FREE" <=> status[u] = "FREE"
      BY <2>1, <2>3, UnblockDoes, Zenon DEF CallInv
    <2>6. /\ pc \in [Threads -> Labels] /\ new \in [Threads -> Threads \cup {NoThread}]
          /\ tmp \in [Threads -> Nat] /\ tid \in [Threads -> Nat]
      BY <2>2, Zenon DEF Types
    <2>7. pc' \in [Threads -> Labels] /\ pc'[t] = "run" /\ \A u \in Threads \ {t} : pc'[u] = pc[u]
      BY <2>1, <2>6, LabelNames, Zenon
    <2>8. new' \in [Threads -> Threads \cup {NoThread}] /\ \A u \in Threads \ {t} : new'[u] = new[u]
      BY <2>1, <2>6, Zenon
    <2>9. tmp' \in [Threads -> Nat] /\ tid' \in [Threads -> Nat]
      BY <2>1, <2>6, Zenon
    <2>10. Types'
      BY <2>1, <2>2, <2>7, <2>8, <2>9, Zenon DEF Types
    <2>11. \A u \in Threads \ {t} : SameFor(u)
      BY <2>1, <2>7, <2>8, Zenon DEF SameFor
    <2>12. Shape(t)'
      BY <2>1, <2>2, <2>3, <2>7, Zenon DEF Shape, Acquiring, InCond, Creating
    <2> QED
      BY <2>1, <2>3, <2>4, <2>5, <2>7, <2>10, <2>11, <2>12, <1>OneMoves, ThreadsAssumption, Zenon
  \* thread_exit, whose page the next thread frees.
  <1>ThreadExitStep.
    ASSUME CallInv, NEW t \in Threads, ThreadExit(t) PROVE Allowed
    <2> USE <1>ThreadExitStep
    <2>1. /\ t = current /\ pc[t] = "run" /\ Exit /\ t # idle_page
          /\ at' = [at EXCEPT ![t] = idle_started] /\ ret' = [ret EXCEPT ![t] = "run"]
          /\ tid' = [tid EXCEPT ![t] = 0]
          /\ UNCHANGED <<value, waiters, holder, cond_waiters, pc, after, cv, new, tmp, next_tid>>
      BY Zenon DEF ThreadExit, Running, syncVars
    <2>2. Shape(t) /\ Types
      BY Zenon DEF CallInv
    <2>3. ThreadStep
      BY <2>1, Zenon DEF ThreadStep
    <2>4. /\ idle_thread' = idle_thread /\ idle_thread # NoThread
          /\ status'[idle_page] = "FREE" <=> status[idle_page] = "FREE"
      BY <2>1, ExitDoes, ThreadsAssumption, Zenon DEF CallInv
    <2>5. /\ at \in [Threads -> Sems] /\ ret \in [Threads -> Labels] /\ tid \in [Threads -> Nat]
          /\ idle_started \in Sems
      BY <2>2, SemasAssumption, Zenon DEF Types, Sems
    <2>6. at' \in [Threads -> Sems] /\ \A u \in Threads \ {t} : at'[u] = at[u]
      BY <2>1, <2>5, Zenon
    <2>7. ret' \in [Threads -> Labels] /\ ret'[t] = "run" /\ \A u \in Threads \ {t} : ret'[u] = ret[u]
      BY <2>1, <2>5, LabelNames, Zenon
    <2>8. tid' \in [Threads -> Nat]
      BY <2>1, <2>5, Zenon
    <2>9. Types'
      BY <2>1, <2>2, <2>6, <2>7, <2>8, Zenon DEF Types
    <2>10. \A u \in Threads \ {t} : SameFor(u)
      BY <2>1, <2>6, <2>7, Zenon DEF SameFor
    <2>11. Shape(t)'
      BY <2>1, <2>7, Zenon DEF Shape, Acquiring, InCond, Creating
    <2> QED
      BY <2>1, <2>3, <2>4, <2>9, <2>10, <2>11, <1>OneMoves, Zenon
  \* thread_start creates the idle thread.
  <1>BootStep.
    ASSUME CallInv, Boot PROVE Allowed
    <2> USE <1>BootStep
    <2>1. /\ pc[initial_thread] = "boot" /\ thread_start /\ tid' = [tid EXCEPT ![idle_page] = next_tid]
          /\ next_tid' = next_tid + 1 /\ pc' = [pc EXCEPT ![initial_thread] = "started"]
          /\ UNCHANGED <<value, waiters, holder, cond_waiters, at, after, ret, cv, new, tmp>>
      BY Zenon DEF Boot, syncVars
    <2>2. Types /\ BootInv /\ (\A u \in Threads : Shape(u)) /\ SchedInv
      BY Zenon DEF CallInv
    <2>3. ThreadStep /\ idle_thread' = idle_thread /\ status' = [status EXCEPT ![idle_page] = "READY"]
      BY <2>1, Zenon DEF ThreadStep, thread_start
    <2>4. SchedInv'
      BY <2>2, <2>3, <1>SchedKept, Zenon
    <2>5. /\ idle_page \in Threads /\ initial_thread \in Threads /\ initial_thread # idle_page
          /\ \A u \in Threads : status'[u] = IF u = idle_page THEN "READY" ELSE status[u]
      BY <2>2, <2>3, SchedSays, ThreadsAssumption, Zenon
    <2>6. pc \in [Threads -> Labels] /\ tid \in [Threads -> Nat] /\ next_tid \in Nat
      BY <2>2, Zenon DEF Types
    <2>7. /\ pc' \in [Threads -> Labels] /\ pc'[initial_thread] = "started"
          /\ \A u \in Threads \ {initial_thread} : pc'[u] = pc[u]
      BY <2>1, <2>5, <2>6, LabelNames, Zenon
    <2>8. tid' \in [Threads -> Nat] /\ next_tid' \in Nat
      <3>1. next_tid + 1 \in Nat /\ tid' = [tid EXCEPT ![idle_page] = next_tid] /\ next_tid' = next_tid + 1
        BY <2>1, <2>6
      <3> QED
        BY <2>6, <3>1, Zenon
    <2>9. Types'
      BY <2>1, <2>2, <2>7, <2>8, Zenon DEF Types
    <2>10. \A u \in Threads : Shape(u)'
      <3>1. Shape(initial_thread)'
        BY <2>1, <2>2, <2>5, <2>7, Zenon DEF Shape, Acquiring, InCond, Creating
      <3>2. ASSUME NEW u \in Threads \ {initial_thread} PROVE Shape(u)'
        BY <2>1, <2>2, <2>7, Zenon DEF Shape, Acquiring, InCond, Creating
      <3> QED
        BY <3>1, <3>2, Zenon
    <2>11. BootInv'
      BY <2>2, <2>3, <2>5, <2>7 DEF BootInv
    <2>12. \A u \in Threads \ {current} : SameFor(u)
      BY <2>1, <2>7, Zenon DEF SameFor, thread_start
    <2> QED
      BY <2>3, <2>4, <2>9, <2>10, <2>11, <2>12, Zenon DEF CallInv, Allowed
  \* idle () on its first run.
  <1>IdleFirstStep.
    ASSUME CallInv, IdleFirst PROVE Allowed
    <2> USE <1>IdleFirstStep
    <2>1. /\ idle /\ at' = [at EXCEPT ![idle_page] = idle_started] /\ ret' = [ret EXCEPT ![idle_page] = "block"]
          /\ pc' = [pc EXCEPT ![idle_page] = "up"]
          /\ UNCHANGED <<value, waiters, holder, cond_waiters, after, cv, new, tmp, tid, next_tid>>
      BY Zenon DEF IdleFirst, syncVars, tidVars
    <2>2. Types /\ BootInv /\ (\A u \in Threads : Shape(u)) /\ SchedInv
      BY Zenon DEF CallInv
    <2>3. ThreadStep /\ idle_thread' = idle_page /\ status' = status
      BY <2>1, Zenon DEF ThreadStep, idle
    <2>4. SchedInv'
      BY <2>2, <2>3, <1>SchedKept, Zenon
    <2>5. /\ idle_page \in Threads /\ initial_thread \in Threads /\ initial_thread # idle_page
          /\ idle_page # NoThread /\ idle_started \in Sems
      BY ThreadsAssumption, SemasAssumption, Zenon DEF Sems
    <2>6. pc \in [Threads -> Labels] /\ at \in [Threads -> Sems] /\ ret \in [Threads -> Labels]
      BY <2>2, Zenon DEF Types
    <2>7. /\ pc' \in [Threads -> Labels] /\ pc'[idle_page] = "up"
          /\ \A u \in Threads \ {idle_page} : pc'[u] = pc[u]
      BY <2>1, <2>5, <2>6, LabelNames, Zenon
    <2>8. /\ at' \in [Threads -> Sems] /\ at'[idle_page] = idle_started
          /\ \A u \in Threads \ {idle_page} : at'[u] = at[u]
      BY <2>1, <2>5, <2>6, Zenon
    <2>9. /\ ret' \in [Threads -> Labels] /\ ret'[idle_page] = "block"
          /\ \A u \in Threads \ {idle_page} : ret'[u] = ret[u]
      BY <2>1, <2>5, <2>6, LabelNames, Zenon
    <2>10. Types'
      BY <2>1, <2>2, <2>7, <2>8, <2>9, Zenon DEF Types
    <2>11. \A u \in Threads : Shape(u)'
      <3>1. Shape(idle_page)'
        BY <2>7, <2>8, <2>9, Zenon DEF Shape, Acquiring, InCond, Creating
      <3>2. ASSUME NEW u \in Threads \ {idle_page} PROVE Shape(u)'
        BY <2>1, <2>2, <2>7, <2>8, <2>9 DEF Shape, Acquiring, InCond, Creating
      <3> QED
        BY <3>1, <3>2, Zenon
    <2>12. BootInv'
      <3>1. status[idle_page] # "FREE" /\ pc'[initial_thread] = pc[initial_thread]
        BY <2>1, <2>2, <2>5, <2>7, SchedSays, Zenon DEF idle
      <3> QED
        BY <2>2, <2>3, <2>5, <3>1, Zenon DEF BootInv
    <2>13. \A u \in Threads \ {current} : SameFor(u)
      BY <2>1, <2>7, <2>8, <2>9, Zenon DEF SameFor, idle
    <2> QED
      BY <2>3, <2>4, <2>10, <2>11, <2>12, <2>13, Zenon DEF CallInv, Allowed
  \* A step in which no thread moves: the idle loop, an interrupt.
  <1>NobodyMoves.
    ASSUME CallInv, [ThreadStep]_thread_vars, idle_thread' = idle_thread,
           \A u \in Threads : status'[u] = "FREE" <=> status[u] = "FREE",
           value' \in [Sems -> Nat], waiters' \in [Sems -> Seq(Threads)],
           UNCHANGED <<holder, cond_waiters, pc, at, after, ret, cv, new, tmp, tid, next_tid>>
    PROVE  Allowed
    <2> USE <1>NobodyMoves
    <2>1. Types /\ BootInv /\ (\A u \in Threads : Shape(u)) /\ SchedInv /\ idle_page \in Threads
      BY ThreadsAssumption, Zenon DEF CallInv
    <2>2. SchedInv'
      BY <2>1, <1>SchedKept, Zenon
    <2>3. Types'
      BY <2>1, Zenon DEF Types
    <2>4. ASSUME NEW u \in Threads PROVE Shape(u)'
      BY <2>1, Zenon DEF Shape, Acquiring, InCond, Creating
    <2>5. BootInv'
      BY <2>1, Zenon DEF BootInv
    <2> QED
      BY <2>2, <2>3, <2>4, <2>5, Zenon DEF CallInv, Allowed, SameFor
  \* The idle thread blocks, an interrupt handler ups a semaphore, the timer ticks.
  <1>InterruptStep.
    ASSUME CallInv, IdleBlock \/ SemaUp \/ TimerInterrupt PROVE Allowed
    <2> USE <1>InterruptStep
    <2>1. Types /\ BootInv /\ SchedInv
      BY Zenon DEF CallInv
    <2>2. value \in [Sems -> Nat] /\ waiters \in [Sems -> Seq(Threads)]
      BY <2>1, Zenon DEF Types
    <2>3. CASE IdleBlock
      <3>1. pc[current] # "boot" /\ thread_block /\ idle_thread # NoThread
        BY <2>1, <2>3, Zenon DEF IdleBlock, BootInv
      <3>2. Block /\ ThreadStep
        BY <3>1, Booted, Zenon DEF Block, ThreadStep, MayBlock, Started
      <3>3. UNCHANGED <<value, waiters, holder, cond_waiters, pc, at, after, ret, cv, new, tmp, tid, next_tid>>
        BY <2>3, Zenon DEF IdleBlock, syncVars, tidVars
      <3> QED
        BY <2>1, <2>2, <3>2, <3>3, BlockDoes, <1>NobodyMoves, Zenon
    <2>4. CASE TimerInterrupt
      <3>1. Tick /\ ThreadStep
        BY <2>4, Zenon DEF TimerInterrupt, ThreadStep
      <3>2. UNCHANGED <<value, waiters, holder, cond_waiters, pc, at, after, ret, cv, new, tmp, tid, next_tid>>
        BY <2>4, Zenon DEF TimerInterrupt, tidVars
      <3> QED
        BY <2>1, <2>2, <3>1, <3>2, TickDoes, <1>NobodyMoves, Zenon
    <2>5. CASE SemaUp
      <3>1. PICK s \in Sems : sema_up(s)
        BY <2>5, Zenon DEF SemaUp, Sems
      <3>2. pc[current] # "boot"
        BY <2>5, Zenon DEF SemaUp, IntrOff
      <3>3. UNCHANGED <<holder, cond_waiters, pc, at, after, ret, cv, new, tmp, tid, next_tid>>
        BY <2>5, Zenon DEF SemaUp, tidVars
      <3> QED
        BY <3>1, <3>2, <3>3, <1>UpCalls, <1>NobodyMoves, Zenon
    <2> QED
      BY <2>3, <2>4, <2>5, Zenon
  <1>1. CASE UNCHANGED vars
    <2>1. /\ UNCHANGED thread_vars /\ UNCHANGED <<value, waiters, holder, cond_waiters, pc, at, after, ret, cv>>
          /\ UNCHANGED <<new, tmp, tid, next_tid>>
      BY <1>1, Zenon DEF vars, tidVars
    <2>2. value \in [Sems -> Nat] /\ waiters \in [Sems -> Seq(Threads)]
      BY Zenon DEF CallInv, Types
    <2> QED
      BY <2>1, <2>2, Quiet, <1>NobodyMoves, Zenon
  <1>2. CASE Kernel \/ SemaUp \/ TimerInterrupt
    BY <1>2, <1>BootStep, <1>SemaDownStep, <1>IdleFirstStep, <1>InterruptStep, ThreadsAssumption, Zenon DEF Kernel
  <1>3. ASSUME NEW t \in Threads, Begin(t) PROVE Allowed
    BY <1>3, <1>SemaDownStep, <1>LockAcquireStep, <1>LockReleaseStep, <1>CondWaitStep, <1>CondSignalStep, <1>BroadcastStep,
       <1>ThreadCreateStep, <1>ThreadExitStep, Zenon DEF Begin
  <1>4. ASSUME NEW t \in Threads, Continue(t) PROVE Allowed
    BY <1>4, <1>ResumeStep, <1>LockOwnStep, <1>UpStep, <1>LockReleaseStep, <1>CondDownStep, <1>CondAcquireStep, <1>BroadcastStep,
       <1>LockAcquireStep, <1>TidStep, <1>CreateUnblockStep, Zenon DEF Continue
  <1> QED
    BY <1>1, <1>2, <1>3, <1>4, Zenon DEF Next

\* Semaphores, locks and condition variables drive the scheduler only as its
\* assertions allow, for any number of threads and in any interleaving: no
\* thread blocks before the idle thread can take over, none is woken that is not
\* blocked, and every step of the primitives is a step of thread.c or leaves it
\* alone.
THEOREM PrimitivesImplementThreads ==
  Spec => ImplementsThreads
  <1>1. Init => thread_init
    BY Zenon DEF Init
  <1>2. CallInv /\ [Next]_vars => CallInv' /\ [ThreadStep]_thread_vars
    BY CallStep, Zenon DEF Allowed
  <1> QED
    BY <1>1, <1>2, CallInit, PTL DEF Spec, ImplementsThreads, ThreadSpec

-----------------------------------------------------------------------------
(* For the proofs about locks, semaphores and condition variables.         *)

\* t calls sema_down on s and goes on at k: on a lock it owns it afterwards, in
\* cond_wait it waits on its own semaphore, and once asleep it comes back to the
\* semaphore it slept on.
DownBy(t, s, k) ==
  /\ sema_down(t, s, k)
  /\ k = "own" <=> s \in Locks
  /\ k = "cacquire" <=> s \in Threads
  /\ s \in Threads => s = t /\ Waiting(t) /\ cv' = cv
  /\ pc[t] = "wait" => at[t] = s
  /\ pc[t] \in {"crelease", "cdown"} => s = t

\* The callers of sema_down.
LEMMA Downers ==
  ASSUME CallInv, NEW t \in Threads,
         \/ SemaDown(t) \/ (BootWait /\ t = initial_thread) \/ Resume(t) \/ LockAcquire(t)
         \/ TidLock(t) \/ CondDown(t) \/ CondAcquire(t)
  PROVE  /\ t = current /\ t # idle_page /\ pc[t] \notin {"boot", "own", "up"} /\ holder' = holder
         /\ \E s \in Sems, k \in {"run", "own", "cacquire"} : DownBy(t, s, k)
  <1>1. Shape(t) /\ Types
    BY Zenon DEF CallInv
  <1>2. t = current /\ t # idle_page /\ pc[t] \notin {"boot", "own", "up"} /\ holder' = holder
    BY <1>1, ThreadsAssumption, Zenon
       DEF SemaDown, BootWait, Resume, LockAcquire, TidLock, CondDown, CondAcquire, Running, Shape
  <1>3. \E s \in Sems, k \in {"run", "own", "cacquire"} : DownBy(t, s, k)
    <2>1. CASE SemaDown(t) \/ (BootWait /\ t = initial_thread)
      <3>1. \E s \in Semas : sema_down(t, s, "run") /\ pc[t] \in {"run", "started"}
        BY <2>1, SemasAssumption, Zenon DEF SemaDown, BootWait, Running
      <3> QED
        BY <3>1, SemasAssumption, Zenon DEF DownBy, Sems
    <2>2. CASE Resume(t)
      <3>1. /\ at[t] \in Sems /\ after[t] \in {"run", "own", "cacquire"} /\ (after[t] = "own" <=> at[t] \in Locks)
            /\ (after[t] = "cacquire" <=> at[t] \in Threads) /\ (at[t] \in Threads => at[t] = t)
        BY <1>1, <2>2, SemasAssumption, Zenon DEF Resume, Shape, Types
      <3>2. DownBy(t, at[t], after[t])
        BY <2>2, <3>1, Zenon DEF DownBy, Resume, Waiting
      <3> QED
        BY <3>1, <3>2, Zenon
    <2>3. CASE LockAcquire(t) \/ TidLock(t)
      <3>1. \E l \in Locks : sema_down(t, l, "own") /\ pc[t] \in {"run", "ctid"}
        BY <2>3, SemasAssumption, Zenon DEF LockAcquire, TidLock, lock_acquire, Running
      <3> QED
        BY <3>1, SemasAssumption, Zenon DEF DownBy, Sems
    <2>4. CASE CondDown(t)
      BY <2>4, SemasAssumption, Zenon DEF CondDown, DownBy, Sems, Waiting
    <2>5. CASE CondAcquire(t)
      <3>1. LockOf[cv[t]] \in Locks /\ sema_down(t, LockOf[cv[t]], "own") /\ pc[t] = "cacquire"
        BY <1>1, <2>5, SemasAssumption, Zenon DEF CondAcquire, lock_acquire, Shape, InCond
      <3> QED
        BY <3>1, SemasAssumption, Zenon DEF DownBy, Sems
    <2> QED
      BY <2>1, <2>2, <2>3, <2>4, <2>5, Zenon
  <1> QED
    BY <1>2, <1>3, Zenon

=============================================================================
