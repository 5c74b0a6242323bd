-------------------------------- MODULE Synch --------------------------------
(***************************************************************************)
(* The semaphores, locks and condition variables of threads/synch.c, run   *)
(* by the threads of module Threads on one CPU, with the boot handshake of *)
(* thread_start and the tid allocation of thread_create as their users.    *)
(*                                                                         *)
(* A step of the running thread is a stretch of code with interrupts off,  *)
(* or one shared access with interrupts on; between two steps the timer    *)
(* may preempt it.  A thread that wakes up inside sema_down runs on with   *)
(* interrupts off until it has tested the value again.                     *)
(***************************************************************************)
EXTENDS Threads

CONSTANTS
  Semas,          \* semaphores used as such, from threads or interrupts
  idle_started,   \* the one thread_start waits on
  Locks,
  tid_lock,       \* the lock of allocate_tid
  Conds,          \* condition variables
  LockOf,         \* the lock each condition variable goes with
  MaxValue,       \* bound: value a plain semaphore is raised to
  MaxTid          \* bound: threads created

ASSUME SemasAssumption ==
  /\ idle_started \in Semas /\ tid_lock \in Locks /\ LockOf \in [Conds -> Locks]
  /\ Semas \cap Locks = {} /\ (Semas \cup Locks) \cap Threads = {}
ASSUME MaxAssumption == MaxValue \in Nat \ {0} /\ MaxTid \in Nat \ {0, 1}

VARIABLES
  \* semaphores: the plain ones, those inside the locks, and the one that
  \* cond_wait keeps on its caller's stack
  value, waiters,
  holder,                \* lock->holder
  cond_waiters,          \* cond->waiters
  \* the threads: where they are, the semaphore they are at, what follows
  \* sema_down, what follows the lock operation, the condition variable
  pc, at, after, ret, cv,
  \* thread_create and allocate_tid
  new, tmp, tid, next_tid

tidVars    == <<new, tmp, tid, next_tid>>
vars == <<thread_vars, value, waiters, holder, cond_waiters, pc, at, after, ret,
          cv, tidVars>>

\* Every struct semaphore; a thread names the one in its struct semaphore_elem.
Sems == Semas \cup Locks \cup Threads

Labels == {"boot", "started", "run", "wait", "own", "up", "crelease", "cdown",
           "cacquire", "broadcast", "ctid", "tid_read", "tid_write", "tid_done",
           "cunblock", "block"}

-----------------------------------------------------------------------------
\* thread_init, with every lock and semaphore initialized.
Init ==
  /\ thread_init
  /\ value = [s \in Sems |-> IF s \in Locks THEN 1 ELSE 0]
  /\ waiters = [s \in Sems |-> <<>>]
  /\ holder = [l \in Locks |-> NoThread]
  /\ cond_waiters = [c \in Conds |-> <<>>]
  /\ pc = [t \in Threads |-> IF t = initial_thread THEN "boot" ELSE "run"]
  /\ at = [t \in Threads |-> idle_started]
  /\ after = [t \in Threads |-> "run"]
  /\ ret = [t \in Threads |-> "run"]
  /\ cv = [t \in Threads |-> NoThread]
  /\ new = [t \in Threads |-> NoThread]
  /\ tmp = [t \in Threads |-> 0]
  /\ tid = [t \in Threads |-> IF t = initial_thread THEN 1 ELSE 0]
  /\ next_tid = 2

-----------------------------------------------------------------------------
(* Semaphores.                                                             *)

\* One round of the loop in sema_down, by t on s; k is where it goes on.
sema_down(t, s, k) ==
  /\ at' = [at EXCEPT ![t] = s]
  /\ IF value[s] = 0
       THEN /\ waiters' = [waiters EXCEPT ![s] = Append(@, t)]
            /\ thread_block
            /\ pc' = [pc EXCEPT ![t] = "wait"]
            /\ after' = [after EXCEPT ![t] = k]
            /\ UNCHANGED value
       ELSE /\ value' = [value EXCEPT ![s] = @ - 1]
            /\ pc' = [pc EXCEPT ![t] = k]
            /\ after' = [after EXCEPT ![t] = "run"]
            /\ UNCHANGED <<thread_vars, waiters>>

\* Wrong: the waiter is woken but stays on the list.
sema_up_linked(s) ==
  /\ IF waiters[s] # <<>>
       THEN thread_unblock(Head(waiters[s])) /\ UNCHANGED waiters
       ELSE UNCHANGED <<thread_vars, waiters>>
  /\ value' = [value EXCEPT ![s] = @ + 1]

\* Wrong: a waiter is woken only when the value leaves zero.
sema_up_edge(s) ==
  /\ IF waiters[s] # <<>> /\ value[s] = 0
       THEN /\ thread_unblock(Head(waiters[s]))
            /\ waiters' = [waiters EXCEPT ![s] = Tail(@)]
       ELSE UNCHANGED <<thread_vars, waiters>>
  /\ value' = [value EXCEPT ![s] = @ + 1]

sema_up(s) ==
  /\ IF waiters[s] # <<>>
       THEN /\ thread_unblock(Head(waiters[s]))
            /\ waiters' = [waiters EXCEPT ![s] = Tail(@)]
       ELSE UNCHANGED <<thread_vars, waiters>>
  /\ value' = [value EXCEPT ![s] = @ + 1]

\* The thread on the CPU, in ordinary code.
Running(t) == t = current /\ t # idle_page /\ pc[t] = "run"

\* sema_down, and sema_try_down when it succeeds.
SemaDown(t) ==
  /\ Running(t)
  /\ \E s \in Semas \ {idle_started} : sema_down(t, s, "run")
  /\ UNCHANGED <<holder, cond_waiters, ret, cv, tidVars>>

\* A thread comes out of thread_block in the loop of sema_down.
Resume(t) ==
  /\ t = current /\ pc[t] = "wait"
  /\ sema_down(t, at[t], after[t])
  /\ UNCHANGED <<holder, cond_waiters, ret, cv, tidVars>>

IntrOff == pc[current] \in {"wait", "boot"}

\* sema_up, by the running thread or by an interrupt handler on its stack.
SemaUp ==
  /\ ~IntrOff /\ idle_thread # NoThread
  /\ \E s \in Semas \ {idle_started} : value[s] < MaxValue /\ sema_up(s)
  /\ UNCHANGED <<holder, cond_waiters, pc, at, after, ret, cv, tidVars>>

TimerInterrupt ==
  /\ ~IntrOff
  /\ Tick
  /\ UNCHANGED <<value, waiters, holder, cond_waiters, pc, at, after, ret, cv,
                 tidVars>>

-----------------------------------------------------------------------------
(* Locks.                                                                  *)

\* Wrong: the holder is tested instead of the semaphore.
lock_acquire_holder(t, l, k) ==
  /\ holder[l] = NoThread
  /\ ret' = [ret EXCEPT ![t] = k]
  /\ at' = [at EXCEPT ![t] = l]
  /\ pc' = [pc EXCEPT ![t] = "own"]
  /\ UNCHANGED <<thread_vars, value, waiters, after>>

\* lock_acquire, and lock_try_acquire when it succeeds: up to the assignment
\* of the holder, which runs with interrupts on.
lock_acquire(t, l, k) ==
  /\ holder[l] # t
  /\ ret' = [ret EXCEPT ![t] = k]
  /\ sema_down(t, l, "own")

LockAcquire(t) ==
  /\ Running(t)
  /\ \E l \in Locks \ {tid_lock} : lock_acquire(t, l, "run")
  /\ UNCHANGED <<holder, cond_waiters, cv, tidVars>>

LockOwn(t) ==
  /\ t = current /\ pc[t] = "own"
  /\ holder' = [holder EXCEPT ![at[t]] = t]
  /\ pc' = [pc EXCEPT ![t] = ret[t]]
  /\ UNCHANGED <<thread_vars, value, waiters, cond_waiters, at, after, ret, cv,
                 tidVars>>

\* lock_release up to its sema_up.
lock_release(t, l, k) ==
  /\ holder[l] = t
  /\ holder' = [holder EXCEPT ![l] = NoThread]
  /\ at' = [at EXCEPT ![t] = l]
  /\ ret' = [ret EXCEPT ![t] = k]
  /\ pc' = [pc EXCEPT ![t] = "up"]

LockRelease(t) ==
  /\ Running(t)
  /\ \E l \in Locks : lock_release(t, l, "run")
  /\ UNCHANGED <<thread_vars, value, waiters, cond_waiters, after, cv, tidVars>>

\* The sema_up of lock_release, cond_signal and idle ().
Up(t) ==
  /\ t = current /\ pc[t] = "up"
  /\ sema_up(at[t])
  /\ pc' = [pc EXCEPT ![t] = ret[t]]
  /\ UNCHANGED <<holder, cond_waiters, at, after, ret, cv, tidVars>>

-----------------------------------------------------------------------------
(* Condition variables.                                                    *)

CondWait(t) ==
  /\ Running(t)
  /\ \E c \in Conds :
       /\ holder[LockOf[c]] = t
       /\ value' = [value EXCEPT ![t] = 0]
       /\ waiters' = [waiters EXCEPT ![t] = <<>>]
       /\ cond_waiters' = [cond_waiters EXCEPT ![c] = Append(@, t)]
       /\ cv' = [cv EXCEPT ![t] = c]
  /\ pc' = [pc EXCEPT ![t] = "crelease"]
  /\ UNCHANGED <<thread_vars, holder, at, after, ret, tidVars>>

CondRelease(t) ==
  /\ t = current /\ pc[t] = "crelease"
  /\ lock_release(t, LockOf[cv[t]], "cdown")
  /\ UNCHANGED <<thread_vars, value, waiters, cond_waiters, after, cv, tidVars>>

\* Wrong: the semaphore is initialized only after the lock is released.
CondDownInit(t) ==
  /\ t = current /\ pc[t] = "cdown"
  /\ at' = [at EXCEPT ![t] = t]
  /\ value' = [value EXCEPT ![t] = 0]
  /\ waiters' = [waiters EXCEPT ![t] = <<t>>]
  /\ thread_block
  /\ pc' = [pc EXCEPT ![t] = "wait"]
  /\ after' = [after EXCEPT ![t] = "cacquire"]
  /\ UNCHANGED <<holder, cond_waiters, ret, cv, tidVars>>

CondDown(t) ==
  /\ t = current /\ pc[t] = "cdown"
  /\ sema_down(t, t, "cacquire")
  /\ UNCHANGED <<holder, cond_waiters, ret, cv, tidVars>>

CondAcquire(t) ==
  /\ t = current /\ pc[t] = "cacquire"
  /\ lock_acquire(t, LockOf[cv[t]], "run")
  /\ cv' = [cv EXCEPT ![t] = NoThread]
  /\ UNCHANGED <<holder, cond_waiters, tidVars>>

\* list_pop_front (&cond->waiters); the sema_up of its semaphore comes next.
PopWaiter(t, c, k) ==
  /\ at' = [at EXCEPT ![t] = Head(cond_waiters[c])]
  /\ cond_waiters' = [cond_waiters EXCEPT ![c] = Tail(@)]
  /\ ret' = [ret EXCEPT ![t] = k]
  /\ pc' = [pc EXCEPT ![t] = "up"]

\* With no waiter cond_signal does nothing.
CondSignal(t) ==
  /\ Running(t)
  /\ \E c \in Conds :
       /\ holder[LockOf[c]] = t /\ cond_waiters[c] # <<>>
       /\ PopWaiter(t, c, "run")
  /\ UNCHANGED <<thread_vars, value, waiters, holder, after, cv, tidVars>>

CondBroadcast(t) ==
  /\ Running(t)
  /\ \E c \in Conds :
       /\ holder[LockOf[c]] = t
       /\ cv' = [cv EXCEPT ![t] = c]
  /\ pc' = [pc EXCEPT ![t] = "broadcast"]
  /\ UNCHANGED <<thread_vars, value, waiters, holder, cond_waiters, at, after,
                 ret, tidVars>>

\* One round of the loop of cond_broadcast.
BroadcastLoop(t) ==
  /\ t = current /\ pc[t] = "broadcast"
  /\ IF cond_waiters[cv[t]] # <<>>
       THEN PopWaiter(t, cv[t], "broadcast") /\ UNCHANGED cv
       ELSE /\ pc' = [pc EXCEPT ![t] = "run"]
            /\ cv' = [cv EXCEPT ![t] = NoThread]
            /\ UNCHANGED <<at, ret, cond_waiters>>
  /\ UNCHANGED <<thread_vars, value, waiters, holder, after, tidVars>>

-----------------------------------------------------------------------------
(* Threads that come and go.                                               *)

syncVars == <<value, waiters, holder, cond_waiters>>

\* thread_create: palloc_get_page and init_thread.
ThreadCreate(t) ==
  /\ Running(t) /\ next_tid <= MaxTid
  /\ \E n \in Threads :
       /\ Create(n)
       /\ new' = [new EXCEPT ![t] = n]
  /\ pc' = [pc EXCEPT ![t] = "ctid"]
  /\ UNCHANGED <<syncVars, at, after, ret, cv, tmp, tid, next_tid>>

\* allocate_tid: lock, tid = next_tid++, unlock.
TidLock(t) ==
  /\ t = current /\ pc[t] = "ctid"
  /\ lock_acquire(t, tid_lock, "tid_read")
  /\ UNCHANGED <<holder, cond_waiters, cv, tidVars>>

TidRead(t) ==
  /\ t = current /\ pc[t] = "tid_read"
  /\ tmp' = [tmp EXCEPT ![t] = next_tid]
  /\ pc' = [pc EXCEPT ![t] = "tid_write"]
  /\ UNCHANGED <<thread_vars, syncVars, at, after, ret, cv, new, tid, next_tid>>

TidWrite(t) ==
  /\ t = current /\ pc[t] = "tid_write"
  /\ next_tid' = tmp[t] + 1
  /\ pc' = [pc EXCEPT ![t] = "tid_done"]
  /\ UNCHANGED <<thread_vars, syncVars, at, after, ret, cv, new, tmp, tid>>

TidUnlock(t) ==
  /\ t = current /\ pc[t] = "tid_done"
  /\ lock_release(t, tid_lock, "cunblock")
  /\ UNCHANGED <<thread_vars, value, waiters, cond_waiters, after, cv, tidVars>>

\* Wrong: the thread is queued but its status is left blocked.
CreateUnblockQuiet(t) ==
  /\ t = current /\ pc[t] = "cunblock"
  /\ ready_list' = Append(ready_list, new[t])
  /\ tid' = [tid EXCEPT ![new[t]] = tmp[t]]
  /\ pc' = [pc EXCEPT ![t] = "run"]
  /\ new' = [new EXCEPT ![t] = NoThread]
  /\ tmp' = [tmp EXCEPT ![t] = 0]
  /\ UNCHANGED <<status, current, all_list, idle_thread, thread_ticks, syncVars,
                 at, after, ret, cv, next_tid>>

\* t->tid is set, the frames are laid out and the new thread is made ready.
\* When it first runs, kernel_thread turns interrupts on.
CreateUnblock(t) ==
  /\ t = current /\ pc[t] = "cunblock"
  /\ thread_unblock(new[t])
  /\ tid' = [tid EXCEPT ![new[t]] = tmp[t]]
  /\ pc' = [pc EXCEPT ![t] = "run"]
  /\ new' = [new EXCEPT ![t] = NoThread]
  /\ tmp' = [tmp EXCEPT ![t] = 0]
  /\ UNCHANGED <<syncVars, at, after, ret, cv, next_tid>>

\* A thread exits; it has released the locks it held.
ThreadExit(t) ==
  /\ Running(t)
  /\ \A l \in Locks : holder[l] # t
  /\ Exit
  /\ at' = [at EXCEPT ![t] = idle_started]
  /\ ret' = [ret EXCEPT ![t] = "run"]
  /\ tid' = [tid EXCEPT ![t] = 0]
  /\ UNCHANGED <<syncVars, pc, after, cv, new, tmp, next_tid>>

\* thread_start creates the idle thread with interrupts still off ...
Boot ==
  /\ pc[initial_thread] = "boot"
  /\ thread_start
  /\ tid' = [tid EXCEPT ![idle_page] = next_tid]
  /\ next_tid' = next_tid + 1
  /\ pc' = [pc EXCEPT ![initial_thread] = "started"]
  /\ UNCHANGED <<syncVars, at, after, ret, cv, new, tmp>>

\* ... and waits for it.
BootWait ==
  /\ current = initial_thread /\ pc[initial_thread] = "started"
  /\ sema_down(initial_thread, idle_started, "run")
  /\ UNCHANGED <<holder, cond_waiters, ret, cv, tidVars>>

\* idle () on its first run.
IdleFirst ==
  /\ idle
  /\ at' = [at EXCEPT ![idle_page] = idle_started]
  /\ ret' = [ret EXCEPT ![idle_page] = "block"]
  /\ pc' = [pc EXCEPT ![idle_page] = "up"]
  /\ UNCHANGED <<syncVars, after, cv, tidVars>>

\* The loop of idle (): block, and when scheduled wait for an interrupt.
IdleBlock ==
  /\ current = idle_page /\ pc[idle_page] = "block"
  /\ thread_block
  /\ UNCHANGED <<syncVars, pc, at, after, ret, cv, tidVars>>

-----------------------------------------------------------------------------
\* What the running thread does once it has begun an operation.
Continue(t) ==
  \/ Resume(t) \/ LockOwn(t) \/ Up(t)
  \/ CondRelease(t) \/ CondDown(t) \/ CondAcquire(t) \/ BroadcastLoop(t)
  \/ TidLock(t) \/ TidRead(t) \/ TidWrite(t) \/ TidUnlock(t) \/ CreateUnblock(t)

Begin(t) ==
  \/ SemaDown(t) \/ LockAcquire(t) \/ LockRelease(t)
  \/ CondWait(t) \/ CondSignal(t) \/ CondBroadcast(t)
  \/ ThreadCreate(t) \/ ThreadExit(t)

Kernel == Boot \/ BootWait \/ IdleFirst \/ IdleBlock

Next ==
  \/ Kernel
  \/ SemaUp
  \/ TimerInterrupt
  \/ \E t \in Threads : Begin(t) \/ Continue(t)

Spec == Init /\ [][Next]_vars

\* What the CPU does when no thread begins an operation of its own accord.
Runs == Kernel \/ \E t \in Threads : Continue(t)

-----------------------------------------------------------------------------
(* Properties.                                                             *)

\* Every variable has its type; a lock's semaphore is never above one.
TypeOK ==
  /\ ThreadTypes
  /\ value \in [Sems -> Nat] /\ \A l \in Locks : value[l] <= 1
  /\ \A s \in Sems : Linked(waiters[s]) \subseteq Threads
  /\ holder \in [Locks -> Threads \cup {NoThread}]
  /\ \A c \in Conds : Linked(cond_waiters[c]) \subseteq Threads
  /\ pc \in [Threads -> Labels] /\ at \in [Threads -> Sems]
  /\ after \in [Threads -> Labels] /\ ret \in [Threads -> Labels]
  /\ cv \in [Threads -> Conds \cup {NoThread}]
  /\ new \in [Threads -> Threads \cup {NoThread}]
  /\ tmp \in [Threads -> Nat] /\ tid \in [Threads -> Nat] /\ next_tid \in Nat

\* "they are mutually exclusive: only a thread in the ready state is on the
\* run queue, whereas only a thread in the blocked state is on a semaphore
\* wait list": elem is never linked into two places at once.
ElemExclusive ==
  /\ OneEach(ready_list) /\ \A t \in Linked(ready_list) : status[t] = "READY"
  /\ \A s \in Sems : OneEach(waiters[s]) /\ \A t \in Linked(waiters[s]) : status[t] = "BLOCKED"
  /\ \A r, s \in Sems : r # s => Linked(waiters[r]) \cap Linked(waiters[s]) = {}

\* The threads between the sema_down and the sema_up of lock l.
Inside(l) ==
  {t \in Threads : holder[l] = t \/ (pc[t] \in {"own", "up"} /\ at[t] = l)}

\* A lock is held at most once, and is free when nobody is inside.
LockAccounting ==
  \A l \in Locks : \/ value[l] = 1 /\ Inside(l) = {}
                   \/ value[l] = 0 /\ \E t \in Threads : Inside(l) = {t}

\* Threads that sema_up has taken off the list and that have not tested the
\* value yet.
Woken(s) ==
  {t \in Threads : pc[t] = "wait" /\ at[t] = s /\ status[t] # "BLOCKED"}

\* S has n members or more.
AtLeast(n, S) == \E f \in [1 .. n -> S] : OneEach(f)

\* No wake-up is lost: while someone still waits, every unit of the value has
\* a woken thread of its own on the way to it.
NoLostWakeup == \A s \in Sems : waiters[s] # <<>> => AtLeast(value[s], Woken(s))

\* Between the push in cond_wait and the end of its sema_down.
Waiting(t) ==
  \/ pc[t] \in {"crelease", "cdown"}
  \/ pc[t] = "up" /\ ret[t] = "cdown"
  \/ pc[t] = "wait" /\ at[t] = t

\* A signal is never lost between cond_wait's lock_release and its sema_down:
\* a waiter is on the list, or about to be upped, or its semaphore is up.
\* The list never points into the stack of a thread that has left cond_wait.
SignalKept ==
  /\ \A c \in Conds : /\ OneEach(cond_waiters[c])
                     /\ \A t \in Linked(cond_waiters[c]) : Waiting(t) /\ cv[t] = c
  /\ \A t \in Threads : Waiting(t) =>
       LET listed == t \in Linked(cond_waiters[cv[t]])
           uppers == {u \in Threads : pc[u] = "up" /\ at[u] = t}
       IN  \/ value[t] = 0 /\ listed /\ uppers = {}
           \/ value[t] = 0 /\ ~listed /\ \E u \in Threads : uppers = {u}
           \/ value[t] = 1 /\ ~listed /\ uppers = {}

\* allocate_tid gives every live thread a tid of its own.
TidsUnique ==
  \A t, u \in Threads : tid[t] = tid[u] /\ tid[t] # 0 => t = u

\* A lock has one owner at a time, counted by its semaphore, so the counter
\* behind tid_lock never hands out a tid twice.
LocksExclude == TypeOK /\ LockAccounting /\ TidsUnique

\* The primitives call into thread.c only as its assertions allow.
ImplementsThreads == ThreadSpec

\* A raised semaphore does not stay raised while a thread sleeps on it.
WakeupServed ==
  \A s \in Sems :
    value[s] > 0 /\ waiters[s] # <<>> ~> value[s] = 0 \/ waiters[s] = <<>>

=============================================================================
