----------------------------- MODULE SynchLocks ------------------------------
(***************************************************************************)
(* Proofs about the locks of synch.c: a lock has one owner at a time, and  *)
(* so allocate_tid gives every thread a tid of its own.  And about its     *)
(* condition variables: a signal that has taken a waiter off the list      *)
(* reaches its private semaphore.                                          *)
(***************************************************************************)
EXTENDS SynchProofs

\* t is between sema_down and the assignment of the holder, or between the
\* reset of the holder and sema_up.
Doing(t, l) == pc[t] \in {"own", "up"} /\ at[t] = l

\* t is between the sema_down and the sema_up of lock l.
In(t, l) == holder[l] = t \/ Doing(t, l)

\* The semaphore of l is up and nobody is inside, or down and one thread is.
Excl(l) ==
  \/ value[l] = 1 /\ \A t \in Threads : ~ In(t, l)
  \/ value[l] = 0 /\ \E t \in Threads : \A u \in Threads : In(u, l) <=> u = t

Sound(l) == Excl(l) /\ \A t \in Threads : Doing(t, l) => holder[l] = NoThread

LockInv == \A l \in Locks : Sound(l)

\* A step that is no business of lock l.
LEMMA LockRests ==
  ASSUME NEW l \in Locks, LockInv, holder'[l] = holder[l], value'[l] = value[l],
         \A u \in Threads : Doing(u, l)' <=> Doing(u, l)
  PROVE  Sound(l)'
  BY DEF LockInv, Sound, Excl, In

\* sema_down succeeds on a lock.
LEMMA LockTaken ==
  ASSUME NEW l \in Locks, NEW t \in Threads, LockInv, NoThread \notin Threads,
         holder[l] \in Threads \cup {NoThread}, holder'[l] = holder[l], value[l] # 0, value'[l] = value[l] - 1, Doing(t, l)',
         \A u \in Threads \ {t} : Doing(u, l)' <=> Doing(u, l)
  PROVE  Sound(l)'
  <1>1. value'[l] = 0 /\ \A u \in Threads : ~ In(u, l)
    BY DEF LockInv, Sound, Excl
  <1>2. holder'[l] = NoThread /\ \A u \in Threads : Doing(u, l)' <=> u = t
    BY <1>1, Zenon DEF In
  <1> QED
    BY <1>1, <1>2, Zenon DEF Sound, Excl, In

\* The holder is set.
LEMMA LockOwned ==
  ASSUME NEW l \in Locks, NEW t \in Threads, LockInv, NoThread \notin Threads,
         holder'[l] = t, value'[l] = value[l], Doing(t, l), ~ Doing(t, l)',
         \A u \in Threads \ {t} : Doing(u, l)' <=> Doing(u, l)
  PROVE  Sound(l)'
  <1>1. value[l] = 0 /\ \A u \in Threads : In(u, l) <=> u = t
    BY Zenon DEF LockInv, Sound, Excl, In
  <1> QED
    BY <1>1, Zenon DEF Sound, Excl, In

\* lock_release resets the holder.
LEMMA LockDropped ==
  ASSUME NEW l \in Locks, NEW t \in Threads, LockInv, NoThread \notin Threads,
         holder[l] = t, holder'[l] = NoThread, value'[l] = value[l], Doing(t, l)',
         \A u \in Threads \ {t} : Doing(u, l)' <=> Doing(u, l)
  PROVE  Sound(l)'
  <1>1. value[l] = 0 /\ \A u \in Threads : In(u, l) <=> u = t
    BY Zenon DEF LockInv, Sound, Excl, In
  <1> QED
    BY <1>1, Zenon DEF Sound, Excl, In

\* The sema_up of lock_release.
LEMMA LockFreed ==
  ASSUME NEW l \in Locks, NEW t \in Threads, LockInv, NoThread \notin Threads,
         holder'[l] = holder[l], value'[l] = value[l] + 1, Doing(t, l), ~ Doing(t, l)',
         \A u \in Threads \ {t} : Doing(u, l)' <=> Doing(u, l)
  PROVE  Sound(l)'
  <1>1. value[l] = 0 /\ \A u \in Threads : In(u, l) <=> u = t
    BY Zenon DEF LockInv, Sound, Excl, In
  <1>2. holder[l] = NoThread
    BY Zenon DEF LockInv, Sound
  <1> QED
    BY <1>1, <1>2 DEF Sound, Excl, In

-----------------------------------------------------------------------------
\* The threads that are not running keep their part in every lock.
LEMMA OthersDo ==
  ASSUME Allowed, NEW l \in Locks PROVE \A u \in Threads \ {current} : Doing(u, l)' <=> Doing(u, l)
  BY Zenon DEF Allowed, SameFor, Doing

\* A round of sema_down, on a lock or on another semaphore.
LEMMA DownLocks ==
  ASSUME CallInv, LockInv, Allowed, NEW t \in Threads, t = current, pc[t] \notin {"own", "up"},
         NEW s \in Sems, NEW k \in {"run", "own", "cacquire"}, k = "own" <=> s \in Locks,
         sema_down(t, s, k), holder' = holder
  PROVE  LockInv'
  <1>1. k \in Labels /\ Types /\ NoThread \notin Threads
    BY LabelNames, ThreadsAssumption, Zenon DEF CallInv
  <1>2. at'[t] = s /\ ((pc'[t] = "wait" /\ after'[t] = k) \/ pc'[t] = k)
    BY <1>1, DownTypes
  <1>3. /\ value[s] = 0 => value' = value /\ pc'[t] = "wait"
        /\ value[s] # 0 => value' = [value EXCEPT ![s] = @ - 1] /\ pc'[t] = k
    BY <1>1, Zenon DEF sema_down, Types
  <1> SUFFICES ASSUME NEW l \in Locks PROVE Sound(l)'
    BY Zenon DEF LockInv
  <1>4. ~ Doing(t, l) /\ \A u \in Threads \ {t} : Doing(u, l)' <=> Doing(u, l)
    BY OthersDo, Zenon DEF Doing
  <1>5. CASE value[s] = 0 \/ l # s
    <2>1. value'[l] = value[l] /\ ~ Doing(t, l)'
      BY <1>1, <1>2, <1>3, <1>5, Zenon DEF Doing, Types, Sems
    <2> QED
      BY <1>4, <2>1, LockRests, Zenon
  <1>6. CASE value[s] # 0 /\ l = s
    <2>1. value'[l] = value[l] - 1 /\ Doing(t, l)' /\ holder[l] \in Threads \cup {NoThread}
      BY <1>1, <1>2, <1>3, <1>6, Zenon DEF Doing, Types
    <2> QED
      BY <1>1, <1>4, <1>6, <2>1, LockTaken, Zenon
  <1> QED
    BY <1>5, <1>6, Zenon

\* They keep the locks in order.
LEMMA DownersKeepLocks ==
  ASSUME CallInv, LockInv, Allowed, NEW t \in Threads,
         \/ SemaDown(t) \/ (BootWait /\ t = initial_thread) \/ Resume(t) \/ LockAcquire(t)
         \/ TidLock(t) \/ CondDown(t) \/ CondAcquire(t)
  PROVE  LockInv'
  BY Downers, DownLocks, Zenon DEF DownBy

\* The assignment of the holder.
LEMMA LockOwnKeepsLocks ==
  ASSUME CallInv, LockInv, Allowed, NEW t \in Threads, LockOwn(t) PROVE LockInv'
  <1> SUFFICES ASSUME NEW l \in Locks PROVE Sound(l)'
    BY Zenon DEF LockInv
  <1>1. Shape(t) /\ Types /\ NoThread \notin Threads
    BY ThreadsAssumption, Zenon DEF CallInv
  <1>2. /\ t = current /\ pc[t] = "own" /\ holder' = [holder EXCEPT ![at[t]] = t]
        /\ pc' = [pc EXCEPT ![t] = ret[t]] /\ value' = value
    BY Zenon DEF LockOwn
  <1>3. pc'[t] \notin {"own", "up"} /\ at[t] \in Locks
    BY <1>1, <1>2, Zenon DEF Shape, Acquiring, Types
  <1>4. ~ Doing(t, l)' /\ \A u \in Threads \ {t} : Doing(u, l)' <=> Doing(u, l)
    BY <1>2, <1>3, OthersDo, Zenon DEF Doing
  <1>5. CASE l = at[t]
    <2>1. holder'[l] = t /\ Doing(t, l)
      BY <1>1, <1>2, <1>5, Zenon DEF Types, Doing
    <2> QED
      BY <1>1, <1>2, <1>4, <2>1, LockOwned, Zenon
  <1>6. CASE l # at[t]
    <2>1. holder'[l] = holder[l] /\ ~ Doing(t, l)
      BY <1>1, <1>2, <1>6, Zenon DEF Types, Doing
    <2> QED
      BY <1>2, <1>4, <2>1, LockRests, Zenon
  <1> QED
    BY <1>5, <1>6, Zenon

\* The callers of lock_release.
LEMMA ReleasersKeepLocks ==
  ASSUME CallInv, LockInv, Allowed, NEW t \in Threads, LockRelease(t) \/ CondRelease(t) \/ TidUnlock(t)
  PROVE  LockInv'
  <1> SUFFICES ASSUME NEW l \in Locks PROVE Sound(l)'
    BY Zenon DEF LockInv
  <1>1. Types /\ NoThread \notin Threads
    BY ThreadsAssumption, Zenon DEF CallInv
  <1>2. t = current /\ pc[t] \notin {"own", "up"} /\ value' = value
    BY Zenon DEF LockRelease, CondRelease, TidUnlock, Running
  <1>3. \E k, r : lock_release(t, k, r)
    BY Zenon DEF LockRelease, CondRelease, TidUnlock
  <1>4. PICK k : /\ holder[k] = t /\ holder' = [holder EXCEPT ![k] = NoThread] /\ at' = [at EXCEPT ![t] = k]
                 /\ pc' = [pc EXCEPT ![t] = "up"]
    BY <1>3, Zenon DEF lock_release
  <1>5. at'[t] = k /\ pc'[t] = "up"
    BY <1>1, <1>4, Zenon DEF Types
  <1>6. ~ Doing(t, l) /\ \A u \in Threads \ {t} : Doing(u, l)' <=> Doing(u, l)
    BY <1>2, OthersDo, Zenon DEF Doing
  <1>7. CASE l = k
    <2>1. holder'[l] = NoThread /\ Doing(t, l)'
      BY <1>1, <1>4, <1>5, <1>7, Zenon DEF Types, Doing
    <2> QED
      BY <1>1, <1>2, <1>4, <1>6, <1>7, <2>1, LockDropped, Zenon
  <1>8. CASE l # k
    <2>1. holder'[l] = holder[l] /\ ~ Doing(t, l)'
      BY <1>1, <1>4, <1>5, <1>8, Zenon DEF Types, Doing
    <2> QED
      BY <1>2, <1>6, <2>1, LockRests, Zenon
  <1> QED
    BY <1>7, <1>8, Zenon

\* The sema_up that ends an operation, on a lock or on another semaphore.
LEMMA UpKeepsLocks ==
  ASSUME CallInv, LockInv, Allowed, NEW t \in Threads, Up(t) PROVE LockInv'
  <1> SUFFICES ASSUME NEW l \in Locks PROVE Sound(l)'
    BY Zenon DEF LockInv
  <1>1. Shape(t) /\ Types /\ NoThread \notin Threads
    BY ThreadsAssumption, Zenon DEF CallInv
  <1>2. /\ t = current /\ pc[t] = "up" /\ holder' = holder /\ pc' = [pc EXCEPT ![t] = ret[t]]
        /\ value' = [value EXCEPT ![at[t]] = @ + 1]
    BY Zenon DEF Up, sema_up
  <1>3. pc'[t] \notin {"own", "up"} /\ at[t] \in Sems /\ l \in Sems
    BY <1>1, <1>2, Zenon DEF Shape, Types, Sems
  <1>4. ~ Doing(t, l)' /\ \A u \in Threads \ {t} : Doing(u, l)' <=> Doing(u, l)
    BY <1>2, <1>3, OthersDo, Zenon DEF Doing
  <1>5. CASE l = at[t]
    <2>1. value'[l] = value[l] + 1 /\ Doing(t, l)
      BY <1>1, <1>2, <1>3, <1>5, Zenon DEF Types, Doing
    <2> QED
      BY <1>1, <1>2, <1>4, <2>1, LockFreed, Zenon
  <1>6. CASE l # at[t]
    <2>1. value'[l] = value[l] /\ ~ Doing(t, l)
      BY <1>1, <1>2, <1>3, <1>6, Zenon DEF Types, Doing
    <2> QED
      BY <1>2, <1>4, <2>1, LockRests, Zenon
  <1> QED
    BY <1>5, <1>6, Zenon

\* A step in which the running thread has no lock operation under way.
LEMMA AsideKeepsLocks ==
  ASSUME CallInv, LockInv, Allowed, holder' = holder, \A l \in Locks : value'[l] = value[l],
         \/ UNCHANGED <<pc, at>>
         \/ /\ pc[current] \notin {"own", "up"}
            /\ pc'[current] \notin {"own", "up"} \/ at'[current] \notin Locks
  PROVE  LockInv'
  <1> SUFFICES ASSUME NEW l \in Locks PROVE Sound(l)'
    BY Zenon DEF LockInv
  <1>1. \A u \in Threads : Doing(u, l)' <=> Doing(u, l)
    BY OthersDo DEF Doing
  <1> QED
    BY <1>1, LockRests, Zenon

\* The steps of condition variables that leave the locks alone.
LEMMA CondsKeepLocks ==
  ASSUME CallInv, LockInv, Allowed, NEW t \in Threads,
         CondWait(t) \/ CondSignal(t) \/ CondBroadcast(t) \/ BroadcastLoop(t)
  PROVE  LockInv'
  <1>1. Types /\ Shape(t) /\ t \notin Locks
    BY SemasAssumption, Zenon DEF CallInv
  <1>2. t = current /\ holder' = holder /\ pc[t] \in {"run", "broadcast"}
    BY Zenon DEF CondWait, CondSignal, CondBroadcast, BroadcastLoop, Running
  <1>3. \A l \in Locks : value'[l] = value[l]
    BY <1>1, Zenon DEF CondWait, CondSignal, CondBroadcast, BroadcastLoop, Types, Sems
  <1>4. pc'[t] \notin {"own", "up"} \/ at'[t] \notin Locks
    <2>1. ASSUME NEW c \in Conds, NEW k, cond_waiters[c] # <<>>, PopWaiter(t, c, k) PROVE at'[t] \notin Locks
      <3>1. Head(cond_waiters[c]) \in Threads /\ at'[t] = Head(cond_waiters[c])
        BY <1>1, <2>1 DEF PopWaiter, Types
      <3> QED
        BY <3>1, SemasAssumption, Zenon
    <2>2. CASE CondWait(t) \/ CondBroadcast(t)
      BY <1>1, <2>2, Zenon DEF CondWait, CondBroadcast, Types
    <2>3. CASE CondSignal(t)
      BY <2>1, <2>3, Zenon DEF CondSignal
    <2>4. CASE BroadcastLoop(t)
      BY <1>1, <2>1, <2>4 DEF BroadcastLoop, Types, Shape, InCond
    <2> QED
      BY <2>2, <2>3, <2>4, Zenon
  <1> QED
    BY <1>2, <1>3, <1>4, AsideKeepsLocks, Zenon

\* The steps of thread_create and thread_exit that leave the locks alone.
LEMMA ThreadsKeepLocks ==
  ASSUME CallInv, LockInv, Allowed, NEW t \in Threads,
         ThreadCreate(t) \/ TidRead(t) \/ TidWrite(t) \/ CreateUnblock(t) \/ ThreadExit(t)
  PROVE  LockInv'
  <1>1. pc \in [Threads -> Labels]
    BY Zenon DEF CallInv, Types
  <1>2. t = current /\ pc[t] \notin {"own", "up"} /\ holder' = holder /\ value' = value
    BY Zenon DEF ThreadCreate, TidRead, TidWrite, CreateUnblock, ThreadExit, Running, syncVars
  <1>3. pc'[t] \notin {"own", "up"}
    BY <1>1, <1>2, Zenon DEF ThreadCreate, TidRead, TidWrite, CreateUnblock, ThreadExit
  <1> QED
    BY <1>2, <1>3, AsideKeepsLocks, Zenon

\* The boot, the idle thread and the interrupts leave the locks alone.
LEMMA KernelKeepsLocks ==
  ASSUME CallInv, LockInv, Allowed, Boot \/ IdleFirst \/ IdleBlock \/ SemaUp \/ TimerInterrupt
  PROVE  LockInv'
  <1>1. Types /\ SchedInv
    BY Zenon DEF CallInv
  <1>2. holder' = holder
    BY Zenon DEF Boot, IdleFirst, IdleBlock, SemaUp, TimerInterrupt, syncVars
  <1>3. \A l \in Locks : value'[l] = value[l]
    BY <1>1, SemasAssumption DEF Boot, IdleFirst, IdleBlock, SemaUp, TimerInterrupt, syncVars, sema_up, Types, Sems
  <1>4. CASE IdleBlock \/ SemaUp \/ TimerInterrupt
    BY <1>2, <1>3, <1>4, AsideKeepsLocks, Zenon DEF IdleBlock, SemaUp, TimerInterrupt
  <1>5. CASE Boot
    <2>1. current = initial_thread /\ initial_thread \in Threads
      BY <1>5, ThreadsAssumption, Zenon DEF Boot, thread_start
    <2>2. pc[current] = "boot" /\ pc'[current] = "started"
      BY <1>1, <1>5, <2>1, Zenon DEF Boot, Types
    <2> QED
      BY <1>2, <1>3, <2>2, AsideKeepsLocks, Zenon
  <1>6. CASE IdleFirst
    <2>1. current = idle_page /\ idle_page \in Threads /\ idle_thread = NoThread
      BY <1>6, ThreadsAssumption, Zenon DEF IdleFirst, idle
    <2>2. pc[current] = "run" /\ at'[current] = idle_started
      BY <1>1, <1>6, <2>1, Zenon DEF IdleFirst, Types, CallInv, BootInv
    <2> QED
      BY <1>2, <1>3, <2>2, SemasAssumption, AsideKeepsLocks, Zenon
  <1> QED
    BY <1>4, <1>5, <1>6, Zenon

\* Every step keeps the locks in order.
LEMMA LockStep ==
  CallInv /\ LockInv /\ [Next]_vars => LockInv'
  <1> SUFFICES ASSUME CallInv, LockInv, [Next]_vars PROVE LockInv'
    BY Zenon
  <1>1. Allowed
    BY CallStep, Zenon
  <1>2. CASE UNCHANGED vars
    BY <1>1, <1>2, AsideKeepsLocks, Zenon DEF vars
  <1>3. CASE Kernel \/ SemaUp \/ TimerInterrupt
    BY <1>1, <1>3, KernelKeepsLocks, DownersKeepLocks, ThreadsAssumption, Zenon DEF Kernel
  <1>4. ASSUME NEW t \in Threads, Begin(t) PROVE LockInv'
    BY <1>1, <1>4, DownersKeepLocks, ReleasersKeepLocks, CondsKeepLocks, ThreadsKeepLocks, Zenon DEF Begin
  <1>5. ASSUME NEW t \in Threads, Continue(t) PROVE LockInv'
    BY <1>1, <1>5, DownersKeepLocks, LockOwnKeepsLocks, ReleasersKeepLocks, UpKeepsLocks, CondsKeepLocks,
       ThreadsKeepLocks, Zenon DEF Continue
  <1> QED
    BY <1>2, <1>3, <1>4, <1>5, Zenon DEF Next

\* At boot every lock is free.
LEMMA LockInit ==
  Init => LockInv
  <1> SUFFICES ASSUME Init, NEW l \in Locks PROVE Sound(l)
    BY Zenon DEF LockInv
  <1>1. value[l] = 1 /\ holder[l] = NoThread /\ \A t \in Threads : pc[t] \notin {"own", "up"}
    BY Zenon DEF Init, Sems
  <1> QED
    BY <1>1, ThreadsAssumption, Zenon DEF Sound, Excl, In, Doing

-----------------------------------------------------------------------------
(* The tids.                                                               *)

AtCounter(t) == pc[t] \in {"tid_read", "tid_write", "tid_done"}

\* t has drawn a tid and not yet given it to the new thread.
Drawn(t) == pc[t] \in {"tid_done", "cunblock"} \/ (pc[t] = "up" /\ ret[t] = "cunblock")

\* The counter is behind tid_lock, and what was drawn from it nobody else has.
TidInv ==
  /\ \A t \in Threads : AtCounter(t) => holder[tid_lock] = t
  /\ \A t \in Threads : pc[t] = "tid_write" => tmp[t] = next_tid
  /\ next_tid > 0 /\ \A t \in Threads : tid[t] < next_tid
  /\ \A t \in Threads : Drawn(t) => tmp[t] > 0 /\ tmp[t] < next_tid /\ \A u \in Threads : tid[u] # tmp[t]
  /\ \A t, u \in Threads : Drawn(t) /\ Drawn(u) /\ tmp[t] = tmp[u] => t = u
  /\ TidsUnique

\* A thread that is not running is at the same place of allocate_tid.
LEMMA OthersDraw ==
  ASSUME Allowed
  PROVE  \A u \in Threads \ {current} :
           (AtCounter(u)' <=> AtCounter(u)) /\ (Drawn(u)' <=> Drawn(u)) /\ pc'[u] = pc[u]
  BY Zenon DEF Allowed, SameFor, AtCounter, Drawn

\* A step that neither draws a tid nor gives one away.
LEMMA TidRests ==
  ASSUME TidInv, Allowed, UNCHANGED <<tmp, tid, next_tid>>, NEW t \in Threads, t = current,
         \A u \in Threads \ {t} : holder[tid_lock] = u => holder'[tid_lock] = u,
         AtCounter(t)' => holder'[tid_lock] = t,
         pc'[t] = "tid_write" => pc[t] = "tid_write", Drawn(t)' => Drawn(t)
  PROVE  TidInv'
  <1>1. \A u \in Threads : (Drawn(u)' => Drawn(u)) /\ (pc'[u] = "tid_write" => pc[u] = "tid_write")
    BY OthersDraw, Zenon
  <1>2. \A u \in Threads : AtCounter(u)' => holder'[tid_lock] = u
    BY OthersDraw DEF TidInv
  <1> QED
    BY <1>1, <1>2, Zenon DEF TidInv, TidsUnique

\* The steps of locks and semaphores.
LEMMA PrimitivesKeepTids ==
  ASSUME CallInv, LockInv, TidInv, Allowed, NEW t \in Threads,
         \/ SemaDown(t) \/ (BootWait /\ t = initial_thread) \/ Resume(t) \/ LockAcquire(t)
         \/ TidLock(t) \/ CondDown(t) \/ CondAcquire(t) \/ LockOwn(t) \/ Up(t)
         \/ LockRelease(t) \/ CondRelease(t) \/ TidUnlock(t)
  PROVE  TidInv'
  <1>1. Shape(t) /\ Types /\ NoThread \notin Threads
    BY ThreadsAssumption, Zenon DEF CallInv
  <1>2. UNCHANGED <<tmp, tid, next_tid>> /\ t = current
    BY Zenon DEF SemaDown, BootWait, Resume, LockAcquire, TidLock, CondDown, CondAcquire, LockOwn, Up, LockRelease,
           CondRelease, TidUnlock, tidVars, Running
  <1>3. CASE \/ SemaDown(t) \/ (BootWait /\ t = initial_thread) \/ Resume(t) \/ LockAcquire(t)
             \/ TidLock(t) \/ CondDown(t) \/ CondAcquire(t)
    <2>1. holder' = holder /\ \E s \in Sems, k \in {"run", "own", "cacquire"} : sema_down(t, s, k)
      BY <1>3, Downers DEF DownBy
    <2>2. pc'[t] \in {"wait", "run", "own", "cacquire"}
      BY <1>1, <2>1 DEF sema_down, Types
    <2> QED
      BY <1>2, <2>1, <2>2, TidRests, Zenon DEF AtCounter, Drawn
  <1>4. CASE LockOwn(t)
    <2>1. /\ pc'[t] \in {"run", "tid_read"} /\ (pc'[t] = "tid_read" => at[t] = tid_lock)
          /\ holder' = [holder EXCEPT ![at[t]] = t] /\ Doing(t, at[t]) /\ at[t] \in Locks
      BY <1>1, <1>4, Zenon DEF LockOwn, Shape, Acquiring, Types, Doing
    <2>2. holder[at[t]] = NoThread
      BY <2>1, Zenon DEF LockInv, Sound
    <2>3. \A u \in Threads \ {t} : holder[tid_lock] = u => holder'[tid_lock] = u
      BY <1>1, <2>1, <2>2 DEF Types
    <2>4. pc'[t] = "tid_read" => holder'[tid_lock] = t
      BY <1>1, <2>1 DEF Types
    <2> QED
      BY <1>2, <2>1, <2>3, <2>4, TidRests, Zenon DEF AtCounter, Drawn
  <1>5. CASE Up(t)
    <2>1. holder' = holder /\ pc[t] = "up" /\ pc'[t] = ret[t] /\ ret' = ret
      BY <1>1, <1>5, Zenon DEF Up, Types
    <2> QED
      BY <1>1, <1>2, <2>1, TidRests, Zenon DEF AtCounter, Drawn, Shape
  <1>6. CASE LockRelease(t) \/ CondRelease(t) \/ TidUnlock(t)
    <2>1. \E l \in Locks, r \in {"run", "cdown", "cunblock"} : lock_release(t, l, r) /\ (r = "cunblock" => pc[t] = "tid_done")
      BY <1>1, <1>6, SemasAssumption, Zenon DEF LockRelease, CondRelease, TidUnlock, Shape, InCond
    <2>2. PICK l \in Locks, r \in {"run", "cdown", "cunblock"} :
            /\ holder[l] = t /\ holder' = [holder EXCEPT ![l] = NoThread]
            /\ pc' = [pc EXCEPT ![t] = "up"] /\ ret' = [ret EXCEPT ![t] = r] /\ (r = "cunblock" => pc[t] = "tid_done")
      BY <2>1, Zenon DEF lock_release
    <2>3. pc'[t] = "up" /\ ret'[t] = r /\ \A u \in Threads \ {t} : holder[tid_lock] = u => holder'[tid_lock] = u
      BY <1>1, <2>2 DEF Types
    <2> QED
      BY <1>2, <2>2, <2>3, TidRests, Zenon DEF AtCounter, Drawn
  <1> QED
    BY <1>3, <1>4, <1>5, <1>6, Zenon

\* The steps of condition variables, of the scheduler and of interrupts.
LEMMA OthersKeepTids ==
  ASSUME CallInv, TidInv, Allowed,
         \/ \E t \in Threads : CondWait(t) \/ CondSignal(t) \/ CondBroadcast(t) \/ BroadcastLoop(t) \/ ThreadCreate(t)
         \/ IdleFirst \/ IdleBlock \/ SemaUp \/ TimerInterrupt \/ UNCHANGED vars
  PROVE  TidInv'
  <1>1. Types /\ idle_page \in Threads
    BY ThreadsAssumption, Zenon DEF CallInv
  <1>2. UNCHANGED <<tmp, tid, next_tid>> /\ holder' = holder
    BY Zenon DEF CondWait, CondSignal, CondBroadcast, BroadcastLoop, ThreadCreate, IdleFirst, IdleBlock, SemaUp, TimerInterrupt,
           tidVars, syncVars, vars
  <1>3. CASE IdleBlock \/ SemaUp \/ TimerInterrupt \/ UNCHANGED vars
    <2>1. pc' = pc /\ ret' = ret
      BY <1>3, Zenon DEF IdleBlock, SemaUp, TimerInterrupt, vars
    <2>2. \E t \in Threads : t = current
      BY SchedSays, Zenon DEF CallInv
    <2> QED
      BY <1>2, <2>1, <2>2, TidRests, Zenon DEF AtCounter, Drawn, TidInv
  <1>4. ASSUME NEW t \in Threads, \/ CondWait(t) \/ CondSignal(t) \/ CondBroadcast(t) \/ BroadcastLoop(t) \/ ThreadCreate(t)
        PROVE  TidInv'
    <2>1. t = current
      BY <1>4, Zenon DEF CondWait, CondSignal, CondBroadcast, BroadcastLoop, ThreadCreate, Running
    <2>2. \/ pc'[t] \in {"crelease", "broadcast", "run", "ctid"}
          \/ pc'[t] = "up" /\ ret'[t] \in {"run", "broadcast"}
      <3>1. pc \in [Threads -> Labels] /\ ret \in [Threads -> Labels]
        BY <1>1, Zenon DEF Types
      <3>2. CASE CondWait(t) \/ CondBroadcast(t) \/ ThreadCreate(t)
        BY <3>1, <3>2, Zenon DEF CondWait, CondBroadcast, ThreadCreate
      <3>3. CASE CondSignal(t) \/ BroadcastLoop(t)
        BY <3>1, <3>3, Zenon DEF CondSignal, BroadcastLoop, PopWaiter
      <3> QED
        BY <1>4, <3>2, <3>3, Zenon
    <2> QED
      BY <1>2, <2>1, <2>2, TidRests, Zenon DEF AtCounter, Drawn
  <1>5. CASE IdleFirst
    <2>1. idle_page = current /\ pc'[idle_page] = "up" /\ ret'[idle_page] = "block"
      BY <1>1, <1>5, Zenon DEF IdleFirst, idle, Types
    <2> QED
      BY <1>1, <1>2, <2>1, TidRests, Zenon DEF AtCounter, Drawn
  <1> QED
    BY <1>3, <1>4, <1>5, Zenon

\* The counter is read and written under the lock.
LEMMA CounterKeepsTids ==
  ASSUME CallInv, TidInv, Allowed, NEW t \in Threads, TidRead(t) \/ TidWrite(t)
  PROVE  TidInv'
  <1>1. Types
    BY Zenon DEF CallInv
  <1>2. t = current /\ holder' = holder /\ tid' = tid /\ ret' = ret
    BY Zenon DEF TidRead, TidWrite, syncVars
  <1>3. \A u \in Threads \ {t} :
           (AtCounter(u)' <=> AtCounter(u)) /\ (Drawn(u)' <=> Drawn(u)) /\ pc'[u] = pc[u]
    BY <1>2, OthersDraw, Zenon
  <1>4. AtCounter(t) /\ AtCounter(t)'
    BY <1>1, Zenon DEF AtCounter, TidRead, TidWrite, Types
  <1>5. (\A u \in Threads : AtCounter(u)' => holder'[tid_lock] = u) /\ \A u \in Threads \ {t} : ~ AtCounter(u)
    BY <1>2, <1>3, <1>4, Zenon DEF TidInv
  <1>6. \A u \in Threads \ {t} : pc'[u] # "tid_write"
    BY <1>3, <1>5, Zenon DEF AtCounter
  <1>7. CASE TidRead(t)
    <2>1. /\ pc'[t] = "tid_write" /\ tmp'[t] = next_tid /\ next_tid' = next_tid
          /\ \A u \in Threads \ {t} : tmp'[u] = tmp[u]
      BY <1>1, <1>7, Zenon DEF TidRead, Types
    <2>2. \A u \in Threads : Drawn(u)' => Drawn(u) /\ u # t
      BY <1>3, <2>1, Zenon DEF Drawn
    <2> QED
      BY <1>2, <1>5, <1>6, <2>1, <2>2 DEF TidInv, TidsUnique
  <1>8. CASE TidWrite(t)
    <2>1. pc'[t] = "tid_done" /\ tmp' = tmp /\ next_tid' = next_tid + 1 /\ tmp[t] = next_tid /\ next_tid \in Nat
      BY <1>1, <1>8, Zenon DEF TidWrite, Types, TidInv
    <2>2. \A u \in Threads : Drawn(u)' => Drawn(u) \/ u = t
      BY <1>3, Zenon
    <2>3. tid \in [Threads -> Nat] /\ tmp \in [Threads -> Nat]
      BY <1>1, Zenon DEF Types
    <2>4. next_tid' > 0 /\ \A u \in Threads : tid[u] < next_tid /\ tid[u] < next_tid'
      BY <2>1, <2>3 DEF TidInv
    <2>5. \A u \in Threads : Drawn(u)' =>
             tmp[u] > 0 /\ tmp[u] < next_tid' /\ (u # t => tmp[u] < next_tid) /\ \A v \in Threads : tid[v] # tmp[u]
      BY <2>1, <2>2, <2>3, <2>4 DEF TidInv
    <2>6. \A u, v \in Threads : Drawn(u)' /\ Drawn(v)' /\ tmp[u] = tmp[v] => u = v
      BY <2>1, <2>2, <2>3, <2>5 DEF TidInv
    <2> QED
      BY <1>2, <1>5, <1>6, <2>1, <2>4, <2>5, <2>6, Zenon DEF TidInv, TidsUnique
  <1> QED
    BY <1>7, <1>8, Zenon

\* The new thread gets the tid that was drawn for it.
LEMMA UnblockKeepsTids ==
  ASSUME CallInv, TidInv, Allowed, NEW t \in Threads, CreateUnblock(t)
  PROVE  TidInv'
  <1>1. Types /\ Shape(t)
    BY Zenon DEF CallInv
  <1>2. /\ t = current /\ pc[t] = "cunblock" /\ pc' = [pc EXCEPT ![t] = "run"] /\ tmp' = [tmp EXCEPT ![t] = 0]
        /\ tid' = [tid EXCEPT ![new[t]] = tmp[t]] /\ holder' = holder /\ next_tid' = next_tid
    BY Zenon DEF CreateUnblock, syncVars
  <1>3. /\ new[t] \in Threads /\ Drawn(t) /\ pc'[t] = "run" /\ tid'[new[t]] = tmp[t]
        /\ \A u \in Threads \ {t} : tmp'[u] = tmp[u]
        /\ \A u \in Threads \ {new[t]} : tid'[u] = tid[u]
    BY <1>1, <1>2, Zenon DEF Shape, Creating, Drawn, Types
  <1>4. \A u \in Threads : (AtCounter(u)' => AtCounter(u) /\ u # t) /\ (Drawn(u)' => Drawn(u) /\ u # t)
                           /\ (pc'[u] = "tid_write" => pc[u] = "tid_write" /\ u # t)
    BY <1>2, <1>3, OthersDraw DEF AtCounter, Drawn
  <1>5. tmp[t] > 0 /\ tmp[t] < next_tid /\ \A u \in Threads : tid[u] # tmp[t]
    BY <1>3, Zenon DEF TidInv
  <1>6. /\ \A u \in Threads : AtCounter(u)' => holder'[tid_lock] = u
        /\ \A u \in Threads : pc'[u] = "tid_write" => tmp'[u] = next_tid'
        /\ next_tid' > 0 /\ \A u \in Threads : tid'[u] < next_tid'
    BY <1>2, <1>3, <1>4, <1>5 DEF TidInv
  <1>7. \A u \in Threads : Drawn(u)' => tmp'[u] > 0 /\ tmp'[u] < next_tid' /\ tmp[u] # tmp[t] /\ \A v \in Threads : tid[v] # tmp[u]
    BY <1>2, <1>3, <1>4 DEF TidInv
  <1>8. \A u \in Threads : Drawn(u)' => \A v \in Threads : tid'[v] # tmp'[u]
    BY <1>3, <1>4, <1>7
  <1>9. \A u, v \in Threads : Drawn(u)' /\ Drawn(v)' /\ tmp'[u] = tmp'[v] => u = v
    BY <1>3, <1>4 DEF TidInv
  <1>10. TidsUnique'
    BY <1>3, <1>5 DEF TidInv, TidsUnique
  <1> QED
    BY <1>6, <1>7, <1>8, <1>9, <1>10, Zenon DEF TidInv

\* A thread that exits gives its tid up; the idle thread gets the next one.
LEMMA ExitBootKeepTids ==
  ASSUME CallInv, TidInv, Allowed, (\E t \in Threads : ThreadExit(t)) \/ Boot
  PROVE  TidInv'
  <1>1. Types /\ initial_thread \in Threads /\ idle_page \in Threads
    BY ThreadsAssumption, Zenon DEF CallInv
  <1>2. holder' = holder /\ tmp' = tmp
    BY Zenon DEF ThreadExit, Boot, syncVars
  <1>3. ASSUME NEW t \in Threads, ThreadExit(t) PROVE TidInv'
    <2>1. t = current /\ pc[t] = "run" /\ pc' = pc /\ tid' = [tid EXCEPT ![t] = 0] /\ next_tid' = next_tid
      BY <1>3, Zenon DEF ThreadExit, Running
    <2>2. tid'[t] = 0 /\ \A u \in Threads \ {t} : tid'[u] = tid[u]
      BY <1>1, <2>1, Zenon DEF Types
    <2>3. \A u \in Threads : (AtCounter(u)' <=> AtCounter(u)) /\ (Drawn(u)' => Drawn(u))
      BY <2>1, OthersDraw, Zenon DEF AtCounter, Drawn
    <2>4. \A u \in Threads : Drawn(u) => tmp[u] # 0
      BY DEF TidInv
    <2>5. (\A u \in Threads : tid'[u] < next_tid) /\ TidsUnique'
      BY <2>2, Zenon DEF TidInv, TidsUnique
    <2>6. \A u \in Threads : Drawn(u) => \A v \in Threads : tid'[v] # tmp[u]
      BY <2>2, <2>4, Zenon DEF TidInv
    <2> QED
      BY <1>2, <2>1, <2>3, <2>5, <2>6 DEF TidInv
  <1>4. CASE Boot
    <2>1. /\ pc[initial_thread] = "boot" /\ pc'[initial_thread] = "started" /\ current = initial_thread
          /\ tid' = [tid EXCEPT ![idle_page] = next_tid] /\ next_tid' = next_tid + 1 /\ next_tid \in Nat
      BY <1>1, <1>4, Zenon DEF Boot, thread_start, Types
    <2>2. \A u \in Threads : pc'[u] \in {"started", "run"}
      BY <2>1, OthersDraw, Zenon DEF CallInv, BootInv
    <2>3. tid'[idle_page] = next_tid /\ (\A u \in Threads \ {idle_page} : tid'[u] = tid[u]) /\ tid \in [Threads -> Nat]
      BY <1>1, <2>1, Zenon DEF Types
    <2>4. \A u \in Threads : tid[u] < next_tid
      BY Zenon DEF TidInv
    <2>5. next_tid' > 0 /\ (\A u \in Threads : tid'[u] < next_tid') /\ TidsUnique'
      BY <2>1, <2>3, <2>4 DEF TidInv, TidsUnique
    <2> QED
      BY <2>2, <2>5, Zenon DEF TidInv, AtCounter, Drawn
  <1> QED
    BY <1>3, <1>4, Zenon

\* Every step keeps the tids apart.
LEMMA TidsStep ==
  CallInv /\ LockInv /\ TidInv /\ [Next]_vars => TidInv'
  <1> SUFFICES ASSUME CallInv, LockInv, TidInv, [Next]_vars PROVE TidInv'
    BY Zenon
  <1>1. Allowed
    BY CallStep, Zenon
  <1>2. CASE Kernel \/ SemaUp \/ TimerInterrupt \/ UNCHANGED vars
    BY <1>1, <1>2, OthersKeepTids, ExitBootKeepTids, PrimitivesKeepTids, ThreadsAssumption, Zenon DEF Kernel
  <1>3. ASSUME NEW t \in Threads, Begin(t) PROVE TidInv'
    BY <1>1, <1>3, PrimitivesKeepTids, OthersKeepTids, ExitBootKeepTids, Zenon DEF Begin
  <1>4. ASSUME NEW t \in Threads, Continue(t) PROVE TidInv'
    BY <1>1, <1>4, PrimitivesKeepTids, OthersKeepTids, CounterKeepsTids, UnblockKeepsTids, Zenon DEF Continue
  <1> QED
    BY <1>2, <1>3, <1>4, Zenon DEF Next

\* At boot only the initial thread has a tid.
LEMMA TidsInit ==
  Init => TidInv
  <1> SUFFICES ASSUME Init PROVE TidInv
    BY Zenon
  <1>1. /\ \A t \in Threads : pc[t] \in {"boot", "run"} /\ tid[t] = IF t = initial_thread THEN 1 ELSE 0
        /\ next_tid = 2
    BY Zenon DEF Init
  <1> QED
    BY <1>1 DEF TidInv, TidsUnique, AtCounter, Drawn

\* The invariant gives every variable its type.
LEMMA CallTypes ==
  ASSUME CallInv, LockInv PROVE TypeOK
  <1>1. Types /\ ThreadTypes
    BY Zenon DEF CallInv, SchedInv, SchedulerSafe
  <1>2. \A l \in Locks : value[l] <= 1
    BY DEF LockInv, Sound, Excl
  <1>3. \A s \in Sems : Linked(waiters[s]) \subseteq Threads
    BY <1>1 DEF Types, Linked
  <1>4. \A c \in Conds : Linked(cond_waiters[c]) \subseteq Threads
    BY <1>1 DEF Types, Linked
  <1> QED
    BY <1>1, <1>2, <1>3, <1>4, Zenon DEF TypeOK, Types

-----------------------------------------------------------------------------
(* What the locks promise.                                                 *)

\* The semaphore of a lock counts the threads inside it.
LEMMA LocksCount ==
  ASSUME LockInv
  PROVE  LockAccounting
  <1> SUFFICES ASSUME NEW l \in Locks
               PROVE  \/ value[l] = 1 /\ Inside(l) = {}
                      \/ value[l] = 0 /\ \E t \in Threads : Inside(l) = {t}
    BY Zenon DEF LockAccounting
  <1>1. Excl(l) /\ \A t : t \in Inside(l) <=> t \in Threads /\ In(t, l)
    BY Zenon DEF LockInv, Sound, Inside, In, Doing
  <1> QED
    BY <1>1, Zenon DEF Excl

\* A lock of synch.c has one owner at a time, counted by its semaphore, whatever
\* the preemptions between lock_acquire's sema_down and its assignment of the
\* holder or between lock_release's reset of it and its sema_up; and allocate_tid,
\* which relies on that, never gives two live threads the same tid.
THEOREM LocksAlwaysExclude ==
  Spec => []LocksExclude
  <1>1. Init => CallInv /\ LockInv /\ TidInv
    BY CallInit, LockInit, TidsInit, Zenon
  <1>2. CallInv /\ LockInv /\ TidInv /\ [Next]_vars => (CallInv /\ LockInv /\ TidInv)'
    BY CallStep, LockStep, TidsStep, Zenon DEF Allowed
  <1>3. CallInv /\ LockInv /\ TidInv => LocksExclude
    BY CallTypes, LocksCount, Zenon DEF LocksExclude, TidInv
  <1> QED
    BY <1>1, <1>2, <1>3, PTL DEF Spec

-----------------------------------------------------------------------------
(* The condition variables.                                                *)

\* u is about to up the semaphore that t waits on in cond_wait.
Upping(u, t) == pc[u] = "up" /\ at[u] = t

\* A thread in cond_wait is on the list of its condition variable, or some
\* thread has taken it off and is about to up its semaphore, or has upped it.
CondInv ==
  /\ \A c \in Conds : /\ OneEach(cond_waiters[c])
                      /\ \A t \in Linked(cond_waiters[c]) : Waiting(t) /\ cv[t] = c /\ value[t] = 0
  /\ \A u \in Threads : pc[u] = "up" /\ ret[u] = "cdown" => at[u] \in Locks
  /\ \A t, u \in Threads : Upping(u, t) =>
       Waiting(t) /\ value[t] = 0 /\ \A c \in Conds : t \notin Linked(cond_waiters[c])
  /\ \A t, u, v \in Threads : Upping(u, t) /\ Upping(v, t) => u = v
  /\ \A t \in Threads : Waiting(t) =>
       \/ value[t] = 1
       \/ value[t] = 0 /\ (t \in Linked(cond_waiters[cv[t]]) \/ \E u \in Threads : Upping(u, t))

\* t neither waits for a signal nor is about to pass one on.
Out(t) == ~ Waiting(t) /\ \A u \in Threads : ~ Upping(t, u)

\* The threads that are not running keep their part in every condition variable.
LEMMA OthersWait ==
  ASSUME Allowed
  PROVE  \A u \in Threads \ {current} :
           /\ Waiting(u)' <=> Waiting(u)
           /\ \A v \in Threads : Upping(u, v)' <=> Upping(u, v)
           /\ pc'[u] = pc[u] /\ ret'[u] = ret[u] /\ at'[u] = at[u] /\ cv'[u] = cv[u]
  BY Zenon DEF Allowed, SameFor, Waiting, Upping

\* A thread on a condition variable's list is a thread in cond_wait on it.
LEMMA CondLists ==
  ASSUME CallInv, NEW c \in Conds
  PROVE  cond_waiters[c] \in Seq(Threads) /\ Linked(cond_waiters[c]) \subseteq Threads
  BY DEF CallInv, Types, Linked

\* A thread in cond_wait knows its condition variable.
LEMMA WaitsOn ==
  ASSUME CallInv, NEW t \in Threads, Waiting(t) PROVE cv[t] \in Conds
  <1>1. Shape(t)
    BY Zenon DEF CallInv
  <1> QED
    BY <1>1, SemasAssumption, Zenon DEF Waiting, Shape, InCond

\* A step that is no business of the condition variables.
LEMMA CondRests ==
  ASSUME CallInv, CondInv, Allowed, NEW t \in Threads, t = current,
         cond_waiters' = cond_waiters, \A u \in Threads : value'[u] = value[u],
         Waiting(t)' <=> Waiting(t), Waiting(t) => cv'[t] = cv[t],
         \A u \in Threads : Upping(t, u)' <=> Upping(t, u),
         pc'[t] = "up" /\ ret'[t] = "cdown" => at'[t] \in Locks
  PROVE  CondInv'
  <1>1. \A u \in Threads : (Waiting(u)' <=> Waiting(u)) /\ (Waiting(u) => cv'[u] = cv[u])
    BY OthersWait, Zenon
  <1>2. \A u, v \in Threads : Upping(u, v)' <=> Upping(u, v)
    BY OthersWait, Zenon
  <1>3. \A u \in Threads : pc'[u] = "up" /\ ret'[u] = "cdown" => at'[u] \in Locks
    BY OthersWait, Zenon DEF CondInv
  <1>4. \A c \in Conds : /\ OneEach(cond_waiters'[c])
                         /\ \A u \in Linked(cond_waiters'[c]) : Waiting(u)' /\ cv'[u] = c /\ value'[u] = 0
    <2> SUFFICES ASSUME NEW c \in Conds
                 PROVE  /\ OneEach(cond_waiters[c])
                        /\ \A u \in Linked(cond_waiters[c]) : Waiting(u)' /\ cv'[u] = c /\ value'[u] = 0
      BY Zenon
    <2> QED
      BY <1>1, CondLists DEF CondInv
  <1>5. \A u, v \in Threads : Upping(v, u)' =>
          Waiting(u)' /\ value'[u] = 0 /\ \A c \in Conds : u \notin Linked(cond_waiters'[c])
    BY <1>1, <1>2, Zenon DEF CondInv
  <1>6. \A u \in Threads : Waiting(u)' =>
          \/ value'[u] = 1
          \/ value'[u] = 0 /\ (u \in Linked(cond_waiters'[cv'[u]]) \/ \E v \in Threads : Upping(v, u)')
    BY <1>1, <1>2 DEF CondInv
  <1>7. \A u, v, w \in Threads : Upping(v, u)' /\ Upping(w, u)' => v = w
    BY <1>2, Zenon DEF CondInv
  <1> QED
    BY <1>3, <1>4, <1>5, <1>6, <1>7, Zenon DEF CondInv

\* A step of a thread that is outside before and after.
LEMMA OutRests ==
  ASSUME CallInv, CondInv, Allowed, NEW t \in Threads, t = current, Out(t), Out(t)',
         cond_waiters' = cond_waiters, \A u \in Threads : value'[u] = value[u]
  PROVE  CondInv'
  <1>1. pc'[t] = "up" => ret'[t] # "cdown"
    BY Zenon DEF Out, Waiting
  <1> QED
    BY <1>1, CondRests, Zenon DEF Out

\* A thread that has got its signal leaves.
LEMMA CondLeft ==
  ASSUME CallInv, CondInv, Allowed, NEW t \in Threads, t = current, cond_waiters' = cond_waiters,
         \A u \in Threads \ {t} : value'[u] = value[u], ~ Waiting(t)', pc'[t] # "up",
         \A u \in Threads : ~ Upping(u, t) /\ ~ Upping(t, u), \A c \in Conds : t \notin Linked(cond_waiters[c])
  PROVE  CondInv'
  <1>1. \A u \in Threads : Waiting(u)' => Waiting(u) /\ u # t /\ cv'[u] = cv[u] /\ value'[u] = value[u]
    BY OthersWait, Zenon
  <1>2. \A u, v \in Threads : Upping(u, v)' => Upping(u, v) /\ u # t
    BY OthersWait, Zenon DEF Upping
  <1>3. \A u, v \in Threads : Upping(u, v) => Upping(u, v)' /\ v # t
    BY OthersWait, Zenon
  <1>4. \A u \in Threads : pc'[u] = "up" /\ ret'[u] = "cdown" => at'[u] \in Locks
    BY OthersWait, Zenon DEF CondInv
  <1>5. \A c \in Conds : /\ OneEach(cond_waiters'[c])
                         /\ \A u \in Linked(cond_waiters'[c]) : Waiting(u)' /\ cv'[u] = c /\ value'[u] = 0
    <2> SUFFICES ASSUME NEW c \in Conds
                 PROVE  /\ OneEach(cond_waiters[c])
                        /\ \A u \in Linked(cond_waiters[c]) : Waiting(u)' /\ cv'[u] = c /\ value'[u] = 0
      BY Zenon
    <2>1. \A u \in Linked(cond_waiters[c]) : u \in Threads \ {t} /\ Waiting(u) /\ cv[u] = c /\ value[u] = 0
      BY CondLists DEF CondInv
    <2> QED
      BY <2>1, OthersWait DEF CondInv
  <1>6. \A u, v \in Threads : Upping(v, u)' =>
          Waiting(u)' /\ value'[u] = 0 /\ \A c \in Conds : u \notin Linked(cond_waiters'[c])
    BY <1>2, <1>3, OthersWait DEF CondInv
  <1>7. \A u \in Threads : Waiting(u)' =>
          \/ value'[u] = 1
          \/ value'[u] = 0 /\ (u \in Linked(cond_waiters'[cv'[u]]) \/ \E v \in Threads : Upping(v, u)')
    BY <1>1, <1>3, Zenon DEF CondInv
  <1>8. \A u, v, w \in Threads : Upping(v, u)' /\ Upping(w, u)' => v = w
    BY <1>2, Zenon DEF CondInv
  <1> QED
    BY <1>4, <1>5, <1>6, <1>7, <1>8, Zenon DEF CondInv

\* The callers of sema_down: on its own semaphore a thread takes the signal, and
\* leaves cond_wait's loop, only when the value is up.
LEMMA DownersCond ==
  ASSUME CallInv, CondInv, Allowed, NEW t \in Threads,
         \/ SemaDown(t) \/ (BootWait /\ t = initial_thread) \/ Resume(t) \/ LockAcquire(t)
         \/ TidLock(t) \/ CondDown(t) \/ CondAcquire(t)
  PROVE  CondInv'
  <1>1. PICK s \in Sems, k \in {"run", "own", "cacquire"} : DownBy(t, s, k)
    BY Downers, Zenon
  <1>2. t = current /\ pc[t] \notin {"own", "up"} /\ sema_down(t, s, k) /\ Types
    BY <1>1, Downers, Zenon DEF DownBy, CallInv
  <1>3. cond_waiters' = cond_waiters
    BY Zenon DEF SemaDown, BootWait, Resume, LockAcquire, TidLock, CondDown, CondAcquire
  <1>4. at'[t] = s /\ pc'[t] \in {"wait", k} /\ pc'[t] # "up"
    BY <1>2, Zenon DEF sema_down, Types
  <1>5. CASE s \notin Threads
    <2>1. Out(t) /\ Out(t)'
      BY <1>1, <1>2, <1>4, <1>5, Zenon DEF Out, Waiting, Upping, DownBy
    <2>2. \A u \in Threads : value'[u] = value[u]
      BY <1>2, <1>5, Zenon DEF sema_down, Types, Sems
    <2> QED
      BY <1>2, <1>3, <2>1, <2>2, OutRests, Zenon
  <1>6. CASE s \in Threads
    <2>1. s = t /\ k = "cacquire" /\ Waiting(t) /\ cv' = cv /\ (\A u \in Threads : ~ Upping(t, u) /\ ~ Upping(t, u)')
      BY <1>1, <1>2, <1>4, <1>6, Zenon DEF DownBy, Upping
    <2>2. CASE value[t] = 0
      <3>1. value' = value /\ Waiting(t)'
        BY <1>2, <1>4, <2>1, <2>2, Zenon DEF sema_down, Types, Waiting
      <3> QED
        BY <1>2, <1>3, <1>4, <2>1, <3>1, CondRests, Zenon
    <2>3. CASE value[t] # 0
      <3>1. /\ value[t] = 1 /\ value'[t] = 0 /\ pc'[t] = "cacquire" /\ \A u \in Threads \ {t} : value'[u] = value[u]
        BY <1>2, <2>1, <2>3 DEF sema_down, Types, Sems, CondInv
      <3>2. ~ Waiting(t)' /\ (\A u \in Threads : ~ Upping(u, t)) /\ \A c \in Conds : t \notin Linked(cond_waiters[c])
        BY <3>1 DEF Waiting, CondInv
      <3> QED
        BY <1>2, <1>3, <2>1, <3>1, <3>2, CondLeft, Zenon
    <2> QED
      BY <2>2, <2>3, Zenon
  <1> QED
    BY <1>5, <1>6, Zenon

\* The rest of the locks' steps, allocate_tid's, thread_create's and thread_exit.
LEMMA LocksCond ==
  ASSUME CallInv, CondInv, Allowed, NEW t \in Threads,
         \/ LockOwn(t) \/ LockRelease(t) \/ CondRelease(t) \/ TidUnlock(t) \/ TidRead(t) \/ TidWrite(t)
         \/ ThreadCreate(t) \/ CreateUnblock(t) \/ ThreadExit(t) \/ CondBroadcast(t)
  PROVE  CondInv'
  <1>1. Types /\ Shape(t)
    BY Zenon DEF CallInv
  <1>2. t = current /\ cond_waiters' = cond_waiters /\ value' = value /\ pc[t] \notin {"wait", "up"}
    BY Zenon DEF LockOwn, LockRelease, CondRelease, TidUnlock, TidRead, TidWrite, ThreadCreate, CreateUnblock, ThreadExit,
           CondBroadcast, Running, syncVars
  <1>3. CASE LockOwn(t) \/ TidRead(t) \/ TidWrite(t) \/ ThreadCreate(t) \/ CreateUnblock(t) \/ ThreadExit(t) \/ CondBroadcast(t)
    <2>1. pc[t] \notin {"crelease", "cdown"} /\ pc'[t] \in {"run", "tid_read", "tid_write", "tid_done", "ctid", "broadcast"}
      <3>1. pc \in [Threads -> Labels]
        BY <1>1, Zenon DEF Types
      <3>2. CASE LockOwn(t)
        BY <1>1, <3>1, <3>2 DEF LockOwn, Shape, Acquiring
      <3>3. CASE TidRead(t) \/ TidWrite(t)
        BY <3>1, <3>3, Zenon DEF TidRead, TidWrite
      <3>4. CASE ThreadCreate(t) \/ CreateUnblock(t)
        BY <3>1, <3>4, Zenon DEF ThreadCreate, CreateUnblock, Running
      <3>5. CASE ThreadExit(t) \/ CondBroadcast(t)
        BY <3>1, <3>5, Zenon DEF ThreadExit, CondBroadcast, Running
      <3> QED
        BY <1>3, <3>2, <3>3, <3>4, <3>5, Zenon
    <2>2. Out(t) /\ Out(t)'
      BY <1>2, <2>1, Zenon DEF Out, Waiting, Upping
    <2> QED
      BY <1>2, <2>2, OutRests, Zenon
  <1>4. CASE LockRelease(t) \/ CondRelease(t) \/ TidUnlock(t)
    <2>1. \E l \in Locks, r \in {"run", "cdown", "cunblock"} :
            lock_release(t, l, r) /\ (r = "cdown" <=> pc[t] = "crelease") /\ pc[t] # "cdown" /\ cv' = cv
      BY <1>1, <1>4, SemasAssumption, Zenon DEF LockRelease, CondRelease, TidUnlock, Shape, InCond, Running
    <2>2. /\ pc'[t] = "up" /\ at'[t] \in Locks /\ (ret'[t] = "cdown" <=> pc[t] = "crelease") /\ pc[t] # "cdown"
          /\ cv' = cv
      BY <1>1, <2>1 DEF lock_release, Types
    <2>3. (Waiting(t)' <=> Waiting(t)) /\ \A u \in Threads : ~ Upping(t, u) /\ ~ Upping(t, u)'
      BY <1>2, <2>2, SemasAssumption, Zenon DEF Waiting, Upping
    <2> QED
      BY <1>2, <2>2, <2>3, CondRests, Zenon
  <1> QED
    BY <1>3, <1>4, Zenon

\* The boot, the idle thread and the interrupts.
LEMMA SchedCond ==
  ASSUME CallInv, CondInv, Allowed, Boot \/ IdleFirst \/ IdleBlock \/ SemaUp \/ TimerInterrupt \/ UNCHANGED vars
  PROVE  CondInv'
  <1>1. Types /\ initial_thread \in Threads /\ idle_page \in Threads /\ Shape(idle_page) /\ BootInv
    BY ThreadsAssumption, Zenon DEF CallInv
  <1>2. cond_waiters' = cond_waiters
    BY Zenon DEF Boot, IdleFirst, IdleBlock, SemaUp, TimerInterrupt, vars, syncVars
  <1>3. \A u \in Threads : value'[u] = value[u]
    <2>1. SemaUp => \A u \in Threads : value'[u] = value[u]
      BY <1>1, SemasAssumption DEF SemaUp, sema_up, Types, Sems
    <2> QED
      BY <2>1, Zenon DEF Boot, IdleFirst, IdleBlock, TimerInterrupt, vars, syncVars
  <1>4. CASE IdleBlock \/ SemaUp \/ TimerInterrupt \/ UNCHANGED vars
    <2>1. UNCHANGED <<pc, at, ret, cv>>
      BY <1>4, Zenon DEF IdleBlock, SemaUp, TimerInterrupt, vars
    <2>2. PICK t \in Threads : t = current
      BY SchedSays, Zenon DEF CallInv
    <2>3. /\ Waiting(t)' <=> Waiting(t)
          /\ \A u \in Threads : Upping(t, u)' <=> Upping(t, u)
          /\ pc'[t] = "up" /\ ret'[t] = "cdown" => at'[t] \in Locks
      BY <2>1, Zenon DEF Waiting, Upping, CondInv
    <2> QED
      BY <1>2, <1>3, <2>1, <2>2, <2>3, CondRests, Zenon
  <1>5. CASE Boot
    <2>1. initial_thread = current /\ pc[initial_thread] = "boot" /\ pc'[initial_thread] = "started"
      BY <1>1, <1>5, Zenon DEF Boot, thread_start, Types
    <2>2. Out(initial_thread) /\ Out(initial_thread)'
      BY <2>1, Zenon DEF Out, Waiting, Upping
    <2> QED
      BY <1>1, <1>2, <1>3, <2>1, <2>2, OutRests, Zenon
  <1>6. CASE IdleFirst
    <2>1. /\ idle_page = current /\ pc[idle_page] = "run"
          /\ pc'[idle_page] = "up" /\ ret'[idle_page] = "block" /\ at'[idle_page] = idle_started
      BY <1>1, <1>6, Zenon DEF IdleFirst, idle, Types, BootInv
    <2>2. Out(idle_page) /\ Out(idle_page)'
      BY <2>1, SemasAssumption, Zenon DEF Out, Waiting, Upping
    <2> QED
      BY <1>1, <1>2, <1>3, <2>1, <2>2, OutRests, Zenon
  <1> QED
    BY <1>4, <1>5, <1>6, Zenon

\* sema_up at the end of an operation: on a thread's semaphore it is the signal.
LEMMA UpCond ==
  ASSUME CallInv, CondInv, Allowed, NEW t \in Threads, Up(t)
  PROVE  CondInv'
  <1>1. Types /\ Shape(t) /\ at[t] \in Sems
    BY Zenon DEF CallInv, Types
  <1>2. /\ t = current /\ pc[t] = "up" /\ pc'[t] = ret[t] /\ ret[t] \in {"run", "cdown", "broadcast", "cunblock", "block"}
        /\ UNCHANGED <<cond_waiters, at, ret, cv>> /\ value' = [value EXCEPT ![at[t]] = @ + 1]
    BY <1>1, Zenon DEF Up, sema_up, Types, Shape
  <1>3. CASE at[t] \notin Threads
    <2>1. \A u \in Threads : value'[u] = value[u]
      BY <1>1, <1>2, <1>3, Zenon DEF Types, Sems
    <2>2. (Waiting(t)' <=> Waiting(t)) /\ \A u \in Threads : ~ Upping(t, u) /\ ~ Upping(t, u)'
      BY <1>2, <1>3, Zenon DEF Waiting, Upping
    <2> QED
      BY <1>2, <2>1, <2>2, CondRests, Zenon
  <1>4. CASE at[t] \in Threads
    <2> DEFINE w == at[t]
    <2>1. Upping(t, w) /\ ret[t] # "cdown"
      BY <1>2, <1>4, SemasAssumption, Zenon DEF Upping, CondInv
    <2>2. ~ Waiting(t) /\ ~ Waiting(t)' /\ \A u \in Threads : ~ Upping(t, u)'
      BY <1>2, <2>1, Zenon DEF Waiting, Upping
    <2>3. Waiting(w) /\ value[w] = 0 /\ (\A c \in Conds : w \notin Linked(cond_waiters[c])) /\ w # t
      BY <1>4, <2>1, <2>2 DEF CondInv
    <2>4. value'[w] = 1 /\ \A u \in Threads \ {w} : value'[u] = value[u]
      BY <1>1, <1>2, <1>4, <2>3 DEF Types, Sems
    <2>5. \A u \in Threads : (Waiting(u)' <=> Waiting(u)) /\ cv'[u] = cv[u]
      BY <1>2, <2>2, OthersWait, Zenon
    <2>6. \A u, v \in Threads : Upping(u, v)' <=> Upping(u, v) /\ u # t
      BY <1>2, <2>2, OthersWait, Zenon
    <2>7. \A u \in Threads : Upping(u, w) => u = t
      BY <1>4, <2>1, Zenon DEF CondInv
    <2>8. \A u \in Threads : pc'[u] = "up" /\ ret'[u] = "cdown" => at'[u] \in Locks
      BY <1>2, <2>1, OthersWait DEF CondInv
    <2>9. \A c \in Conds : /\ OneEach(cond_waiters'[c])
                           /\ \A u \in Linked(cond_waiters'[c]) : Waiting(u)' /\ cv'[u] = c /\ value'[u] = 0
      <3> SUFFICES ASSUME NEW c \in Conds
                   PROVE  /\ OneEach(cond_waiters[c])
                          /\ \A u \in Linked(cond_waiters[c]) : Waiting(u)' /\ cv'[u] = c /\ value'[u] = 0
        BY <1>2, Zenon
      <3>1. Linked(cond_waiters[c]) \subseteq Threads /\ w \notin Linked(cond_waiters[c])
        BY <2>3, CondLists, Zenon
      <3>2. /\ OneEach(cond_waiters[c])
            /\ \A u \in Linked(cond_waiters[c]) : Waiting(u) /\ cv[u] = c /\ value[u] = 0
        BY Zenon DEF CondInv
      <3> QED
        BY <2>4, <2>5, <3>1, <3>2, Zenon
    <2>10. \A u, v \in Threads : Upping(v, u)' =>
             Waiting(u)' /\ value'[u] = 0 /\ \A c \in Conds : u \notin Linked(cond_waiters'[c])
      BY <1>2, <2>4, <2>5, <2>6, <2>7 DEF CondInv
    <2>11. \A u \in Threads : Waiting(u)' =>
             \/ value'[u] = 1
             \/ value'[u] = 0 /\ (u \in Linked(cond_waiters'[cv'[u]]) \/ \E v \in Threads : Upping(v, u)')
      <3> SUFFICES ASSUME NEW u \in Threads, u # w, Waiting(u)
                   PROVE  \/ value'[u] = 1
                          \/ value'[u] = 0 /\ (u \in Linked(cond_waiters[cv[u]]) \/ \E v \in Threads : Upping(v, u)')
        BY <1>2, <2>4, <2>5, Zenon
      <3>1. \A v \in Threads : Upping(v, u) => Upping(v, u)'
        BY <2>1, <2>6, Zenon DEF Upping
      <3> QED
        BY <2>4, <3>1, Zenon DEF CondInv
    <2>12. \A u, v, x \in Threads : Upping(v, u)' /\ Upping(x, u)' => v = x
      BY <2>6, Zenon DEF CondInv
    <2> QED
      BY <2>8, <2>9, <2>10, <2>11, <2>12, Zenon DEF CondInv
  <1> QED
    BY <1>3, <1>4, Zenon

\* cond_wait puts its caller on the list with its semaphore at zero.
LEMMA CondWaitCond ==
  ASSUME CallInv, CondInv, Allowed, NEW t \in Threads, CondWait(t)
  PROVE  CondInv'
  <1>1. Types /\ t \in Sems /\ t = current /\ pc[t] = "run" /\ pc'[t] = "crelease" /\ ret' = ret /\ at' = at
    BY Zenon DEF CallInv, CondWait, Running, Sems, Types
  <1>2. PICK c \in Conds : value' = [value EXCEPT ![t] = 0]
                           /\ cond_waiters' = [cond_waiters EXCEPT ![c] = Append(@, t)] /\ cv' = [cv EXCEPT ![t] = c]
    BY Zenon DEF CondWait
  <1>3. value'[t] = 0 /\ (\A u \in Threads \ {t} : value'[u] = value[u]) /\ cv'[t] = c
    BY <1>1, <1>2, Zenon DEF Types, Sems
  <1>4. ~ Waiting(t) /\ Waiting(t)' /\ \A u \in Threads : ~ Upping(t, u) /\ ~ Upping(t, u)'
    BY <1>1, Zenon DEF Waiting, Upping
  <1>5. (\A u \in Threads : ~ Upping(u, t)) /\ \A d \in Conds : t \notin Linked(cond_waiters[d])
    BY <1>4, Zenon DEF CondInv
  <1>6. \A d \in Conds : /\ OneEach(cond_waiters'[d])
                         /\ Linked(cond_waiters'[d]) = IF d = c THEN Linked(cond_waiters[d]) \cup {t} ELSE Linked(cond_waiters[d])
    <2>1. \A d \in Conds : cond_waiters'[d] = IF d = c THEN Append(cond_waiters[c], t) ELSE cond_waiters[d]
      BY <1>1, <1>2, Zenon DEF Types
    <2>2. OneEach(Append(cond_waiters[c], t)) /\ Linked(Append(cond_waiters[c], t)) = Linked(cond_waiters[c]) \cup {t}
      BY <1>5, CondLists, LinkedAppend DEF CondInv
    <2> QED
      BY <2>1, <2>2, Zenon DEF CondInv
  <1>7. \A u, v \in Threads : Upping(u, v)' <=> Upping(u, v)
    BY <1>1, <1>4, OthersWait, Zenon
  <1>8. \A u \in Threads : pc'[u] = "up" /\ ret'[u] = "cdown" => at'[u] \in Locks
    BY <1>1, OthersWait, Zenon DEF CondInv
  <1>9. \A d \in Conds : \A u \in Linked(cond_waiters'[d]) : Waiting(u)' /\ cv'[u] = d /\ value'[u] = 0
    <2> SUFFICES ASSUME NEW d \in Conds, NEW u \in Linked(cond_waiters'[d])
                 PROVE  Waiting(u)' /\ cv'[u] = d /\ value'[u] = 0
      BY Zenon
    <2>1. u \in Linked(cond_waiters[d]) \/ (u = t /\ d = c)
      BY <1>6, Zenon
    <2>3. CASE u = t /\ d = c
      BY <1>3, <1>4, <2>3, Zenon
    <2> SUFFICES ASSUME u \in Linked(cond_waiters[d])
                 PROVE  Waiting(u)' /\ cv'[u] = d /\ value'[u] = 0
      BY <2>1, <2>3, Zenon
    <2>2. u \in Threads \ {t} /\ Waiting(u) /\ cv[u] = d /\ value[u] = 0
      BY <1>5, <2>1, CondLists DEF CondInv
    <2> QED
      BY <1>1, <1>3, <2>2, OthersWait, Zenon
  <1>10. \A u, v \in Threads : Upping(v, u)' =>
           Waiting(u)' /\ value'[u] = 0 /\ \A d \in Conds : u \notin Linked(cond_waiters'[d])
    <2> SUFFICES ASSUME NEW u \in Threads, NEW v \in Threads, Upping(v, u)
                 PROVE  Waiting(u)' /\ value'[u] = 0 /\ \A d \in Conds : u \notin Linked(cond_waiters'[d])
      BY <1>7, Zenon
    <2>1. u # t /\ Waiting(u) /\ value[u] = 0 /\ \A d \in Conds : u \notin Linked(cond_waiters[d])
      BY <1>5 DEF CondInv
    <2>2. Waiting(u)' /\ value'[u] = 0
      BY <1>1, <1>3, <2>1, OthersWait, Zenon
    <2>3. \A d \in Conds : u \notin Linked(cond_waiters'[d])
      BY <1>6, <2>1, Zenon
    <2> QED
      BY <2>2, <2>3, Zenon
  <1>11. \A u \in Threads : Waiting(u)' =>
           \/ value'[u] = 1
           \/ value'[u] = 0 /\ (u \in Linked(cond_waiters'[cv'[u]]) \/ \E v \in Threads : Upping(v, u)')
    <2>0. value'[t] = 0 /\ t \in Linked(cond_waiters'[cv'[t]])
      BY <1>3, <1>6, Zenon
    <2> SUFFICES ASSUME NEW u \in Threads \ {t}, Waiting(u)
                 PROVE  \/ value'[u] = 1
                        \/ value'[u] = 0 /\ (u \in Linked(cond_waiters'[cv'[u]]) \/ \E v \in Threads : Upping(v, u)')
      BY <1>1, <2>0, OthersWait, Zenon
    <2>1. cv'[u] = cv[u] /\ cv[u] \in Conds /\ value'[u] = value[u]
      BY <1>1, <1>3, WaitsOn, OthersWait, Zenon
    <2>2. Linked(cond_waiters[cv[u]]) \subseteq Linked(cond_waiters'[cv[u]])
      BY <1>6, <2>1, Zenon
    <2> QED
      BY <1>7, <2>1, <2>2, Zenon DEF CondInv
  <1>12. \A u, v, w \in Threads : Upping(v, u)' /\ Upping(w, u)' => v = w
    BY <1>7 DEF CondInv
  <1> QED
    BY <1>6, <1>8, <1>9, <1>10, <1>11, <1>12, Zenon DEF CondInv

\* cond_signal and cond_broadcast take the first waiter off the list, and are
\* then bound to up its semaphore.
LEMMA PopCond ==
  ASSUME CallInv, CondInv, Allowed, NEW t \in Threads, t = current, NEW c \in Conds, NEW k \in {"run", "broadcast"},
         pc[t] \in {"run", "broadcast"}, cond_waiters[c] # <<>>, PopWaiter(t, c, k), value' = value, cv' = cv
  PROVE  CondInv'
  <1> DEFINE h == Head(cond_waiters[c])
  <1>1. Types
    BY Zenon DEF CallInv
  <1>2. pc'[t] = "up" /\ at'[t] = h /\ ret'[t] = k
    BY <1>1, Zenon DEF PopWaiter, Types
  <1>3. /\ h \in Threads /\ h \in Linked(cond_waiters[c]) /\ OneEach(Tail(cond_waiters[c]))
        /\ Linked(Tail(cond_waiters[c])) = Linked(cond_waiters[c]) \ {h}
    BY CondLists, LinkedTail, Zenon DEF CondInv
  <1>4. Waiting(h) /\ cv[h] = c /\ value[h] = 0
    BY <1>3, Zenon DEF CondInv
  <1>5. \A u \in Threads : ~ Upping(u, h)
    BY <1>3, Zenon DEF CondInv
  <1>6. ~ Waiting(t) /\ ~ Waiting(t)' /\ t # h
    BY <1>2, <1>4, Zenon DEF Waiting
  <1>7. \A u \in Threads : (Waiting(u)' <=> Waiting(u))
    BY <1>6, OthersWait, Zenon
  <1>8. \A u, v \in Threads : Upping(u, v)' <=> (u = t /\ v = h) \/ Upping(u, v)
    <2>1. \A v \in Threads : ~ Upping(t, v) /\ (Upping(t, v)' <=> v = h)
      BY <1>2, Zenon DEF Upping
    <2> QED
      BY <2>1, OthersWait, Zenon
  <1>9. \A d \in Conds : /\ OneEach(cond_waiters'[d])
                         /\ Linked(cond_waiters'[d]) = IF d = c THEN Linked(cond_waiters[d]) \ {h} ELSE Linked(cond_waiters[d])
    <2>1. \A d \in Conds : cond_waiters'[d] = IF d = c THEN Tail(cond_waiters[c]) ELSE cond_waiters[d]
      BY <1>1, Zenon DEF PopWaiter, Types
    <2> QED
      BY <1>3, <2>1, Zenon DEF CondInv
  <1> HIDE DEF h
  <1>10. \A d \in Conds : h \notin Linked(cond_waiters'[d])
    <2>1. \A d \in Conds : h \in Linked(cond_waiters[d]) => d = c
      BY <1>4, Zenon DEF CondInv
    <2> QED
      BY <1>9, <2>1, Zenon
  <1>11. \A u \in Threads : pc'[u] = "up" /\ ret'[u] = "cdown" => at'[u] \in Locks
    BY <1>2, OthersWait DEF CondInv
  <1>12. \A d \in Conds : \A u \in Linked(cond_waiters'[d]) : Waiting(u)' /\ cv'[u] = d /\ value'[u] = 0
    <2> SUFFICES ASSUME NEW d \in Conds, NEW u \in Linked(cond_waiters[d]) PROVE Waiting(u)' /\ cv'[u] = d /\ value'[u] = 0
      BY <1>9, Zenon
    <2> QED
      BY <1>7, CondLists, Zenon DEF CondInv
  <1>13. \A u, v \in Threads : Upping(v, u)' =>
           Waiting(u)' /\ value'[u] = 0 /\ \A d \in Conds : u \notin Linked(cond_waiters'[d])
    <2> SUFFICES ASSUME NEW u \in Threads, NEW v \in Threads, Upping(v, u), u # h
                 PROVE  Waiting(u)' /\ value'[u] = 0 /\ \A d \in Conds : u \notin Linked(cond_waiters'[d])
      BY <1>4, <1>7, <1>8, <1>10
    <2>1. Waiting(u) /\ value[u] = 0 /\ \A d \in Conds : u \notin Linked(cond_waiters[d])
      BY Zenon DEF CondInv
    <2> QED
      BY <1>7, <1>9, <2>1, Zenon
  <1>14. \A u \in Threads : Waiting(u)' =>
           \/ value'[u] = 1
           \/ value'[u] = 0 /\ (u \in Linked(cond_waiters'[cv'[u]]) \/ \E v \in Threads : Upping(v, u)')
    <2> SUFFICES ASSUME NEW u \in Threads, Waiting(u), u # h
                 PROVE  \/ value[u] = 1
                        \/ value[u] = 0 /\ (u \in Linked(cond_waiters'[cv[u]]) \/ \E v \in Threads : Upping(v, u)')
      BY <1>4, <1>7, <1>8, Zenon
    <2>1. u \in Linked(cond_waiters[cv[u]]) => u \in Linked(cond_waiters'[cv[u]])
      BY <1>9, WaitsOn, Zenon
    <2> QED
      BY <1>8, <2>1, Zenon DEF CondInv
  <1>15. \A u, v, w \in Threads : Upping(v, u)' /\ Upping(w, u)' => v = w
    BY <1>5, <1>8 DEF CondInv
  <1> QED
    BY <1>9, <1>11, <1>12, <1>13, <1>14, <1>15, Zenon DEF CondInv

\* cond_signal, and a round of cond_broadcast.
LEMMA SignalsCond ==
  ASSUME CallInv, CondInv, Allowed, NEW t \in Threads, CondSignal(t) \/ BroadcastLoop(t)
  PROVE  CondInv'
  <1>1. Types /\ Shape(t) /\ t = current /\ value' = value
    BY Zenon DEF CallInv, CondSignal, BroadcastLoop, Running
  <1>2. CASE CondSignal(t)
    <2>1. PICK c \in Conds : cond_waiters[c] # <<>> /\ PopWaiter(t, c, "run")
      BY <1>2, Zenon DEF CondSignal
    <2>2. pc[t] = "run" /\ cv' = cv
      BY <1>2, Zenon DEF CondSignal, Running
    <2> QED
      BY <1>1, <2>1, <2>2, PopCond, Zenon
  <1>3. CASE BroadcastLoop(t) /\ cond_waiters[cv[t]] # <<>>
    <2>1. pc[t] = "broadcast" /\ cv[t] \in Conds /\ PopWaiter(t, cv[t], "broadcast") /\ cv' = cv
      BY <1>1, <1>3, Zenon DEF BroadcastLoop, Shape, InCond
    <2> QED
      BY <1>1, <1>3, <2>1, PopCond, Zenon
  <1>4. CASE BroadcastLoop(t) /\ cond_waiters[cv[t]] = <<>>
    <2>1. pc[t] = "broadcast" /\ pc'[t] = "run" /\ cond_waiters' = cond_waiters
      BY <1>1, <1>4 DEF BroadcastLoop, Types
    <2>2. Out(t) /\ Out(t)'
      BY <2>1, Zenon DEF Out, Waiting, Upping
    <2> QED
      BY <1>1, <2>1, <2>2, OutRests, Zenon
  <1> QED
    BY <1>2, <1>3, <1>4, Zenon

\* Every step keeps the condition variables' invariant.
LEMMA CondStep ==
  CallInv /\ CondInv /\ [Next]_vars => CondInv'
  <1> SUFFICES ASSUME CallInv, CondInv, [Next]_vars PROVE CondInv'
    BY Zenon
  <1>1. Allowed
    BY CallStep, Zenon
  <1>2. CASE UNCHANGED vars
    BY <1>1, <1>2, SchedCond, Zenon
  <1>3. CASE Kernel \/ SemaUp \/ TimerInterrupt
    BY <1>1, <1>3, SchedCond, DownersCond, ThreadsAssumption, Zenon DEF Kernel
  <1>4. CASE \E t \in Threads : Begin(t) \/ Continue(t)
    <2>1. PICK t \in Threads : Begin(t) \/ Continue(t)
      BY <1>4, Zenon
    <2>2. CASE Begin(t)
      BY <1>1, <2>2, DownersCond, LocksCond, CondWaitCond, SignalsCond, Zenon DEF Begin
    <2>3. CASE Continue(t)
      BY <1>1, <2>3, DownersCond, LocksCond, UpCond, SignalsCond, Zenon DEF Continue
    <2> QED
      BY <2>1, <2>2, <2>3, Zenon
  <1> QED
    BY <1>2, <1>3, <1>4, Zenon DEF Next

\* At boot nobody waits.
LEMMA CondInit ==
  Init => CondInv
  <1> SUFFICES ASSUME Init PROVE CondInv
    BY Zenon
  <1>1. \A t \in Threads : pc[t] \in {"boot", "run"}
    BY Zenon DEF Init
  <1>2. \A c \in Conds : cond_waiters[c] = <<>>
    BY Zenon DEF Init
  <1>3. \A c \in Conds : OneEach(cond_waiters[c]) /\ Linked(cond_waiters[c]) = {}
    BY <1>2 DEF OneEach, Linked
  <1>4. \A t \in Threads : ~ Waiting(t) /\ \A u \in Threads : ~ Upping(t, u)
    BY <1>1, Zenon DEF Waiting, Upping
  <1> QED
    BY <1>1, <1>3, <1>4, Zenon DEF CondInv

-----------------------------------------------------------------------------
(* What the condition variables promise.                                   *)

\* A signal is in one of its three places.
LEMMA SignalCounted ==
  ASSUME CallInv, CondInv
  PROVE  SignalKept
  <1>1. ASSUME NEW t \in Threads, Waiting(t), NEW U, U = {u \in Threads : pc[u] = "up" /\ at[u] = t}
        PROVE  \/ value[t] = 0 /\ t \in Linked(cond_waiters[cv[t]]) /\ U = {}
               \/ value[t] = 0 /\ t \notin Linked(cond_waiters[cv[t]]) /\ \E u \in Threads : U = {u}
               \/ value[t] = 1 /\ t \notin Linked(cond_waiters[cv[t]]) /\ U = {}
    <2>1. cv[t] \in Conds
      BY <1>1, WaitsOn, Zenon
    <2>2. ASSUME NEW u \in Threads, Upping(u, t) PROVE U = {u}
      BY <1>1, <2>2, Zenon DEF CondInv, Upping
    <2>3. (\A u \in Threads : ~ Upping(u, t)) => U = {}
      BY <1>1, Zenon DEF Upping
    <2>4. \/ value[t] = 1 /\ t \notin Linked(cond_waiters[cv[t]]) /\ \A u \in Threads : ~ Upping(u, t)
          \/ value[t] = 0 /\ t \in Linked(cond_waiters[cv[t]]) /\ \A u \in Threads : ~ Upping(u, t)
          \/ value[t] = 0 /\ t \notin Linked(cond_waiters[cv[t]]) /\ \E u \in Threads : Upping(u, t)
      BY <1>1, <2>1, Zenon DEF CondInv
    <2> QED
      BY <2>2, <2>3, <2>4, Zenon
  <1>2. \A c \in Conds : OneEach(cond_waiters[c]) /\ \A t \in Linked(cond_waiters[c]) : Waiting(t) /\ cv[t] = c
    BY Zenon DEF CondInv
  <1> QED
    BY <1>1, <1>2, Zenon DEF SignalKept

\* cond_signal is never lost on a thread that has begun cond_wait: it is on the
\* list, or about to be upped, or upped; and it stays on no list after it left.
THEOREM SignalsNeverLost ==
  Spec => []SignalKept
  <1>1. Init => CallInv /\ CondInv
    BY CallInit, CondInit, Zenon
  <1>2. CallInv /\ CondInv /\ [Next]_vars => (CallInv /\ CondInv)'
    BY CallStep, CondStep, Zenon DEF Allowed
  <1>3. CallInv /\ CondInv => SignalKept
    BY SignalCounted, Zenon
  <1> QED
    BY <1>1, <1>2, <1>3, PTL DEF Spec

=============================================================================
