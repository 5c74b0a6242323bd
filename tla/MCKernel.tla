----------------------------- MODULE MCKernel ------------------------------
(***************************************************************************)
(* The scheduler, the synchronization primitives and the processes on      *)
(* small instances.  Each has its own state and a run checks them in turn: *)
(* part picks the one that moves, the others keep their initial state.     *)
(***************************************************************************)
EXTENDS Threads, Process, TLC

CONSTANTS
  boot, idle0, t1, t2, t3, dev, mon, cond,
  idle_started, tid_lock, MaxValue, MaxTid

FiveThreads == {boot, idle0, t1, t2, t3}
FourProcs == 1 .. 4

VARIABLES
  part,
  (* the state of Synch *)
  y_status, y_current, y_ready_list, y_all_list, y_idle_thread, y_thread_ticks,
  value, waiters, holder, cond_waiters, pc, at, after, ret, cv, new, tmp, tid, next_tid

(* The primitives with one worker and a time slice of one tick.             *)
Prims == INSTANCE Synch WITH
  Threads <- {boot, idle0, t1}, TIME_SLICE <- 1,
  Semas <- {idle_started, dev}, Locks <- {tid_lock, mon}, Conds <- {cond}, LockOf <- (cond :> mon),
  status <- y_status, current <- y_current, ready_list <- y_ready_list,
  all_list <- y_all_list, idle_thread <- y_idle_thread, thread_ticks <- y_thread_ticks
synch_vars ==
  <<y_status, y_current, y_ready_list, y_all_list, y_idle_thread, y_thread_ticks,
    value, waiters, holder, cond_waiters, pc, at, after, ret, cv, new, tmp, tid, next_tid>>

mc_vars == <<part, thread_vars, synch_vars, process_vars>>

MCInit ==
  part \in {"threads", "synch", "process"} /\ thread_init /\ Prims!Init /\ ProcessInit

SchedStep == part = "threads" /\ ThreadStep /\ UNCHANGED <<part, synch_vars, process_vars>>
SynchStep == part = "synch" /\ Prims!Next /\ UNCHANGED <<part, thread_vars, process_vars>>
ProcessStep == part = "process" /\ ProcessNext /\ UNCHANGED <<part, thread_vars, synch_vars>>
(* The processes may all have ended, or the kernel may have stopped.       *)
ProcessRests == part = "process" /\ UNCHANGED mc_vars

(* The timer keeps ticking and preempts whoever runs; the CPU executes the
   running thread's code; the scheduler runs every process and load () ends.
   Nobody has to begin an operation.                                        *)
SchedTick == part = "threads" /\ Tick
SynchRuns == part = "synch" /\ Prims!Runs
SynchTick == part = "synch" /\ Prims!TimerInterrupt
ProcessRuns(p) == part = "process" /\ InKernel(p)

LiveSpec ==
  /\ MCInit
  /\ [][SchedStep \/ SynchStep \/ ProcessStep \/ ProcessRests]_mc_vars
  /\ WF_thread_vars(SchedTick) /\ WF_synch_vars(SynchRuns) /\ WF_synch_vars(SynchTick)
  /\ \A p \in Procs : WF_process_vars(ProcessRuns(p))

-----------------------------------------------------------------------------
(* A raised semaphore does not stay raised while a thread sleeps on it
   (sema_up, sema_down).                                                    *)
WakeupServed == Prims!WakeupServed
=============================================================================
