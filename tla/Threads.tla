------------------------------- MODULE Threads -------------------------------
(***************************************************************************)
(* The thread table and scheduler of threads/thread.c on its one CPU.      *)
(*                                                                         *)
(* thread_block, thread_unblock, thread_yield, the end of thread_exit and  *)
(* the timer interrupt each run with interrupts off from their first to    *)
(* their last state change, so each is one step.  Who blocks and who is    *)
(* unblocked is left open here: the guards are what the code asserts of    *)
(* its callers, and module Synch shows that the semaphores obey them.      *)
(***************************************************************************)
EXTENDS Integers, Sequences

CONSTANTS
  Threads,         \* the pages a struct thread may live in
  initial_thread,  \* the page of the thread that boots the kernel
  idle_page,       \* the page thread_start gets for the idle thread
  NoThread,        \* NULL
  TIME_SLICE       \* timer ticks per thread (4 in the code)

ASSUME ThreadsAssumption ==
  /\ initial_thread \in Threads /\ idle_page \in Threads
  /\ initial_thread # idle_page /\ NoThread \notin Threads
ASSUME SliceAssumption == TIME_SLICE \in Nat \ {0}

Status == {"FREE", "RUNNING", "READY", "BLOCKED", "DYING"}

VARIABLES
  status,        \* t->status, FREE when the page holds no struct thread
  current,       \* running_thread ()
  ready_list,    \* the run queue
  all_list,      \* the threads linked through allelem
  idle_thread,   \* NULL until idle () has run
  thread_ticks   \* ticks since the running thread was scheduled

thread_vars == <<status, current, ready_list, all_list, idle_thread, thread_ticks>>

\* What a list links.
Linked(q) == {q[n] : n \in DOMAIN q}

\* A list that links nothing twice.
OneEach(q) == \A m, n \in DOMAIN q : q[m] = q[n] => m = n

Queued == Linked(ready_list)

-----------------------------------------------------------------------------
\* thread_init: only the booting thread exists.
thread_init ==
  /\ status = [t \in Threads |-> IF t = initial_thread THEN "RUNNING" ELSE "FREE"]
  /\ current = initial_thread
  /\ ready_list = <<>>
  /\ all_list = {initial_thread}
  /\ idle_thread = NoThread
  /\ thread_ticks = 0

\* next_thread_to_run on the run queue rl.
next_thread_to_run(rl) == IF rl = <<>> THEN idle_thread ELSE Head(rl)

\* schedule and thread_schedule_tail, entered with the status table st and
\* the run queue rl.  The page of a dying thread is freed by its successor;
\* the initial thread's never is.
schedule(st, rl) ==
  LET next == next_thread_to_run(rl)
      freed == st[current] = "DYING" /\ current # initial_thread
  IN  /\ current' = next
      /\ ready_list' = IF rl = <<>> THEN rl ELSE Tail(rl)
      /\ status' = [t \in Threads |->
                      IF t = next THEN "RUNNING"
                      ELSE IF t = current /\ freed THEN "FREE"
                      ELSE st[t]]
      /\ thread_ticks' = 0

thread_block ==
  /\ schedule([status EXCEPT ![current] = "BLOCKED"], ready_list)
  /\ UNCHANGED <<all_list, idle_thread>>

\* Wrong: the thread is made ready but not queued.
thread_unblock_unqueued(t) ==
  /\ status[t] = "BLOCKED" /\ t # idle_thread
  /\ status' = [status EXCEPT ![t] = "READY"]
  /\ UNCHANGED <<current, ready_list, all_list, idle_thread, thread_ticks>>

\* The caller found t on a wait list, where the idle thread never is.
thread_unblock(t) ==
  /\ status[t] = "BLOCKED" /\ t # idle_thread
  /\ ready_list' = Append(ready_list, t)
  /\ status' = [status EXCEPT ![t] = "READY"]
  /\ UNCHANGED <<current, all_list, idle_thread, thread_ticks>>

\* Wrong: the yielding thread goes to the head of the queue.
thread_yield_front ==
  /\ schedule([status EXCEPT ![current] = "READY"],
              IF current # idle_thread THEN <<current>> \o ready_list ELSE ready_list)
  /\ UNCHANGED <<all_list, idle_thread>>

thread_yield ==
  /\ schedule([status EXCEPT ![current] = "READY"],
              IF current # idle_thread THEN Append(ready_list, current) ELSE ready_list)
  /\ UNCHANGED <<all_list, idle_thread>>

\* The end of thread_exit.
thread_exit ==
  /\ current # idle_page
  /\ all_list' = all_list \ {current}
  /\ schedule([status EXCEPT ![current] = "DYING"], ready_list)
  /\ UNCHANGED idle_thread

\* timer_interrupt: thread_tick, and the yield on return from the interrupt.
timer_interrupt ==
  IF thread_ticks + 1 >= TIME_SLICE
    THEN thread_yield
    ELSE /\ thread_ticks' = thread_ticks + 1
         /\ UNCHANGED <<status, current, ready_list, all_list, idle_thread>>

-----------------------------------------------------------------------------
\* thread_create up to allocate_tid: a blocked thread on no queue.  The page
\* comes from palloc_get_page, which hands out a free one.
init_thread(t) ==
  /\ status[t] = "FREE"
  /\ status' = [status EXCEPT ![t] = "BLOCKED"]
  /\ all_list' = all_list \cup {t}
  /\ UNCHANGED <<current, ready_list, idle_thread, thread_ticks>>

\* thread_start creates the idle thread before it turns interrupts on.
thread_start ==
  /\ current = initial_thread /\ status[idle_page] = "FREE"
  /\ status' = [status EXCEPT ![idle_page] = "READY"]
  /\ all_list' = all_list \cup {idle_page}
  /\ ready_list' = Append(ready_list, idle_page)
  /\ UNCHANGED <<current, idle_thread, thread_ticks>>

\* idle () sets idle_thread the first time it runs.
idle ==
  /\ current = idle_page /\ idle_thread = NoThread
  /\ idle_thread' = current
  /\ UNCHANGED <<status, current, ready_list, all_list, thread_ticks>>

\* Interrupts are on from the end of thread_start.
Started == status[idle_page] # "FREE"

\* Before idle () has run only the initial thread waits for it.
MayBlock == Started /\ (idle_thread # NoThread \/ current = initial_thread)

Block == MayBlock /\ thread_block

Yield == Started /\ thread_yield

Exit == idle_thread # NoThread /\ thread_exit

Tick == Started /\ timer_interrupt

Create(t) == idle_thread # NoThread /\ current # idle_thread /\ init_thread(t)

Unblock(t) == Started /\ thread_unblock(t)

ThreadStep ==
  \/ thread_start \/ idle \/ Block \/ Yield \/ Exit \/ Tick
  \/ \E t \in Threads : Create(t) \/ Unblock(t)

ThreadSpec == thread_init /\ [][ThreadStep]_thread_vars

-----------------------------------------------------------------------------
(* Properties.                                                             *)

\* Every variable has its type; schedule always finds a thread to run, even
\* while idle_thread is still NULL.
ThreadTypes ==
  /\ status \in [Threads -> Status]
  /\ current \in Threads
  /\ Queued \subseteq Threads
  /\ all_list \subseteq Threads
  /\ idle_thread \in {NoThread, idle_page}
  /\ thread_ticks \in 0 .. TIME_SLICE - 1

\* The run queue holds exactly the ready threads, each once, except for the
\* idle thread: no ready thread is forgotten and none runs twice in a turn.
QueueIsReady ==
  /\ OneEach(ready_list)
  /\ \A t \in Queued : status[t] = "READY"
  /\ \A t \in Threads : status[t] = "READY" /\ t # idle_thread => t \in Queued

\* "After that, the idle thread never appears in the ready list."
IdleNotQueued == idle_thread \notin Queued

\* Exactly the thread on the CPU is marked running, so the assertion in
\* thread_current never fires.
OneRunning == \A t \in Threads : status[t] = "RUNNING" <=> t = current

\* all_list links the live threads and no freed page.
AllListLive == all_list = {t \in Threads : status[t] \notin {"FREE", "DYING"}}

\* The scheduler's data agree: statuses, the ready queue, the running thread
\* and all_list, whatever order the system calls and ticks come in.
SchedulerSafe ==
  /\ ThreadTypes
  /\ QueueIsReady
  /\ IdleNotQueued
  /\ OneRunning
  /\ AllListLive

\* Round robin: a ready thread gets the CPU.
ReadyRuns ==
  \A t \in Threads : status[t] = "READY" /\ t # idle_thread ~> status[t] = "RUNNING"

=============================================================================
