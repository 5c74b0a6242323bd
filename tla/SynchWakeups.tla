---------------------------- MODULE SynchWakeups -----------------------------
(***************************************************************************)
(* Proofs about the lists of waiters of synch.c: a thread is on one list   *)
(* at a time, and the wake-up of a semaphore is not lost.                  *)
(***************************************************************************)
EXTENDS SynchProofs

\* A thread on a semaphore's list is asleep there, and on no list twice.
QueueInv ==
  \A s \in Sems :
    /\ OneEach(waiters[s])
    /\ \A u \in Linked(waiters[s]) : status[u] = "BLOCKED" /\ pc[u] = "wait" /\ at[u] = s

\* A thread that is being created sleeps on no list and is one thread's to
\* wake, and a free page holds no thread that is in an operation.
NewInv ==
  /\ \A t \in Threads : Creating(t) => /\ status[new[t]] = "BLOCKED" /\ pc[new[t]] = "run"
                                       /\ new[t] # idle_page
  /\ \A t, u \in Threads : Creating(t) /\ Creating(u) /\ new[t] = new[u] => t = u
  /\ \A t \in Threads : status[t] = "FREE" => pc[t] = "run"

-----------------------------------------------------------------------------
(* How many members a set has at least.                                    *)

\* Every set has no member or more.
LEMMA AtLeastNone ==
  ASSUME NEW S PROVE AtLeast(0, S)
  <1>1. ASSUME NEW f, f = [i \in 1 .. 0 |-> 0] PROVE f \in [1 .. 0 -> S] /\ OneEach(f)
    BY <1>1 DEF OneEach
  <1> QED
    BY <1>1, Zenon DEF AtLeast

\* A new member makes one more.
LEMMA AtLeastAdd ==
  ASSUME NEW S, NEW n \in Nat, AtLeast(n, S), NEW x, x \notin S,
         NEW m, m = n + 1, NEW T, T = S \cup {x}
  PROVE  AtLeast(m, T)
  <1>1. PICK f \in [1 .. n -> S] : OneEach(f)
    BY Zenon DEF AtLeast
  <1>2. ASSUME NEW g, g = [i \in 1 .. n + 1 |-> IF i = n + 1 THEN x ELSE f[i]]
        PROVE  g \in [1 .. n + 1 -> S \cup {x}] /\ OneEach(g)
    <2>1. \A i \in 1 .. n + 1 : i = n + 1 \/ i \in 1 .. n
      OBVIOUS
    <2>2. \A i \in 1 .. n : f[i] \in S
      BY <1>1, Zenon
    <2>3. g \in [1 .. n + 1 -> S \cup {x}]
      BY <1>2, <2>1, <2>2, Zenon
    <2>4. \A i, j \in 1 .. n : f[i] = f[j] => i = j
      BY <1>1, Zenon DEF OneEach
    <2> QED
      BY <1>2, <2>1, <2>2, <2>3, <2>4 DEF OneEach
  <1>3. AtLeast(n + 1, S \cup {x})
    BY <1>2, Zenon DEF AtLeast
  <1> QED
    BY <1>3, Zenon

\* Without one of its members a set has one fewer, no less.
LEMMA AtLeastDrop ==
  ASSUME NEW S, NEW n \in Nat, NEW m, m = n + 1, AtLeast(m, S), NEW x, NEW T, T = S \ {x}
  PROVE  AtLeast(n, T)
  <1>1. PICK f \in [1 .. n + 1 -> S] : OneEach(f)
    BY Zenon DEF AtLeast
  <1>2. /\ \A i, j \in 1 .. n + 1 : f[i] = f[j] => i = j
        /\ \A i \in 1 .. n + 1 : f[i] \in S
    BY <1>1, Zenon DEF OneEach
  <1>3. 1 .. n \subseteq 1 .. n + 1 /\ n + 1 \in 1 .. n + 1 /\ n + 1 \notin 1 .. n
    OBVIOUS
  <1>4. ASSUME NEW g, g = [i \in 1 .. n |-> IF f[i] = x THEN f[n + 1] ELSE f[i]]
        PROVE  g \in [1 .. n -> T] /\ OneEach(g)
    <2>1. \A i \in 1 .. n : g[i] = IF f[i] = x THEN f[n + 1] ELSE f[i]
      BY <1>4, Zenon
    <2>2. g \in [1 .. n -> T]
      BY <1>2, <1>3, <1>4, Zenon
    <2> QED
      BY <1>2, <1>3, <1>4, <2>1, <2>2 DEF OneEach
  <1> QED
    BY <1>4, Zenon DEF AtLeast

-----------------------------------------------------------------------------
(* What a step leaves alone.                                               *)

\* No thread but t falls asleep or is woken in sema_down.
StillAsleep(t) ==
  \A u \in Threads \ {t, idle_page} : pc[u] = "wait" => (status'[u] = "BLOCKED" <=> status[u] = "BLOCKED")

\* Threads that are being created stay blocked, and only t can leave the system.
StillNew(t) ==
  /\ \A u \in Threads \ {t, idle_page} : pc[u] = "run" /\ status[u] = "BLOCKED" => status'[u] = "BLOCKED"
  /\ \A u \in Threads : status'[u] = "FREE" => status[u] = "FREE" \/ (u = t /\ pc'[u] = "run")

\* The semaphores rest, or lose an empty list's value.
SemasRest ==
  \A s \in Sems : waiters'[s] = <<>> \/ (waiters'[s] = waiters[s] /\ value'[s] = value[s])

\* A thread on a list is neither the running nor the idle one.
LEMMA Sleepers ==
  ASSUME CallInv, QueueInv, NEW s \in Sems
  PROVE  \A u \in Linked(waiters[s]) : u \in Threads \ {current, idle_page}
  <1> SUFFICES ASSUME NEW u \in Linked(waiters[s]) PROVE u \in Threads \ {current, idle_page}
    BY Zenon
  <1>1. u \in Threads /\ status[u] = "BLOCKED" /\ pc[u] = "wait"
    <2>1. waiters[s] \in Seq(Threads)
      BY Zenon DEF CallInv, Types
    <2>2. u \in Threads
      BY <2>1 DEF Linked
    <2> QED
      BY <2>2, Zenon DEF QueueInv
  <1>2. Shape(u) /\ status[current] = "RUNNING"
    BY <1>1, SchedSays, Zenon DEF CallInv
  <1> QED
    BY <1>1, <1>2, Zenon DEF Shape

\* A thread that is being created is neither the running nor the idle one.
LEMMA Newborn ==
  ASSUME CallInv, NewInv, NEW t \in Threads, Creating(t)
  PROVE  new[t] \in Threads \ {current, idle_page}
  <1>1. Shape(t) /\ status[current] = "RUNNING"
    BY SchedSays, Zenon DEF CallInv
  <1> QED
    BY <1>1, Zenon DEF Shape, NewInv

\* Who is on a list stays asleep.
LEMMA StillQueued ==
  ASSUME CallInv, QueueInv, Allowed, StillAsleep(current), NEW s \in Sems
  PROVE  \A u \in Linked(waiters[s]) : status'[u] = "BLOCKED" /\ pc'[u] = "wait" /\ at'[u] = s
  <1>1. \A u \in Linked(waiters[s]) : status'[u] = "BLOCKED" /\ SameFor(u)
    BY Sleepers DEF QueueInv, StillAsleep, Allowed
  <1> QED
    BY <1>1 DEF QueueInv, SameFor

\* The lists rest.
LEMMA QueuesKept ==
  ASSUME CallInv, QueueInv, Allowed, StillAsleep(current), \A s \in Sems : waiters'[s] \in {<<>>, waiters[s]}
  PROVE  QueueInv'
  <1> SUFFICES ASSUME NEW s \in Sems
               PROVE  /\ OneEach(waiters'[s])
                      /\ \A u \in Linked(waiters'[s]) : status'[u] = "BLOCKED" /\ pc'[u] = "wait" /\ at'[u] = s
    BY Zenon DEF QueueInv
  <1>1. CASE waiters'[s] = <<>>
    BY <1>1 DEF OneEach, Linked
  <1>2. CASE waiters'[s] = waiters[s]
    BY <1>2, StillQueued, Zenon DEF QueueInv
  <1> QED
    BY <1>1, <1>2, Zenon

\* The threads that are being created wait on.
LEMMA NewKept ==
  ASSUME CallInv, NewInv, Allowed, NEW t \in Threads, t = current, StillNew(t),
         Creating(t)' => Creating(t) /\ new'[t] = new[t]
  PROVE  NewInv'
  <1>1. \A u \in Threads : Creating(u)' => Creating(u) /\ new'[u] = new[u]
    BY DEF Allowed, SameFor, Creating, Acquiring
  <1>2. \A u \in Threads : Creating(u)' => /\ status'[new'[u]] = "BLOCKED" /\ pc'[new'[u]] = "run"
                                           /\ new'[u] # idle_page
    <2> SUFFICES ASSUME NEW u \in Threads, Creating(u)'
                 PROVE  status'[new'[u]] = "BLOCKED" /\ pc'[new'[u]] = "run" /\ new'[u] # idle_page
      BY Zenon
    <2>1. Creating(u) /\ new'[u] = new[u] /\ new[u] \in Threads \ {t, idle_page}
      BY <1>1, Newborn, Zenon
    <2> QED
      BY <2>1 DEF NewInv, StillNew, Allowed, SameFor
  <1>3. \A u \in Threads : status'[u] = "FREE" => pc'[u] = "run"
    BY SchedSays DEF NewInv, StillNew, Allowed, SameFor, CallInv
  <1> QED
    BY <1>1, <1>2, <1>3 DEF NewInv

\* The threads on their way to a semaphore's value, apart from the running one.
LEMMA OthersWoken ==
  ASSUME CallInv, Allowed, StillAsleep(current), NEW s \in Sems
  PROVE  \A u \in Threads \ {current} : u \in Woken(s)' <=> u \in Woken(s)
  <1> SUFFICES ASSUME NEW u \in Threads, u # current PROVE u \in Woken(s)' <=> u \in Woken(s)
    BY Zenon
  <1>1. SameFor(u) /\ Shape(u)
    BY Zenon DEF Allowed, CallInv
  <1>2. CASE u = idle_page
    BY <1>1, <1>2, Zenon DEF Woken, SameFor, Shape
  <1>3. CASE u # idle_page
    BY <1>1, <1>3, Zenon DEF Woken, SameFor, StillAsleep
  <1> QED
    BY <1>2, <1>3, Zenon

\* A semaphore that rests keeps its wake-ups.
LEMMA WakesKept ==
  ASSUME CallInv, NoLostWakeup, Allowed, NEW t \in Threads, t = current, StillAsleep(t), SemasRest,
         pc[t] # "wait", pc'[t] # "wait"
  PROVE  NoLostWakeup'
  <1> SUFFICES ASSUME NEW s \in Sems, waiters'[s] # <<>> PROVE AtLeast(value'[s], Woken(s)')
    BY Zenon DEF NoLostWakeup
  <1>1. waiters[s] # <<>> /\ value'[s] = value[s]
    BY Zenon DEF SemasRest
  <1>2. t \notin Woken(s) /\ t \notin Woken(s)'
    BY Zenon DEF Woken
  <1>3. Woken(s) \subseteq Threads /\ Woken(s)' \subseteq Threads
    BY Zenon DEF Woken
  <1>4. Woken(s)' = Woken(s)
    <2>1. \A u \in Threads \ {t} : u \in Woken(s)' <=> u \in Woken(s)
      BY OthersWoken, Zenon
    <2>2. \A u : u \in Woken(s)' <=> u \in Woken(s)
      BY <1>2, <1>3, <2>1, Zenon
    <2> QED
      BY <2>2, Zenon
  <1> QED
    BY <1>1, <1>4, Zenon DEF NoLostWakeup

-----------------------------------------------------------------------------
(* sema_down.                                                              *)

\* What a round of sema_down does to the threads.
LEMMA DownDoes ==
  ASSUME CallInv, NEW t \in Threads, t = current, t # idle_page, pc[t] # "boot",
         NEW s, NEW k, sema_down(t, s, k)
  PROVE  /\ StillAsleep(t) /\ StillNew(t)
         /\ value[s] = 0 => status'[t] = "BLOCKED"
         /\ value[s] # 0 => status' = status
  <1>1. CASE value[s] = 0
    <2>1. Block
      BY <1>1, Booted, Zenon DEF sema_down, Block
    <2> QED
      BY <1>1, <2>1, BlockDoes, Zenon DEF CallInv, StillAsleep, StillNew
  <1>2. CASE value[s] # 0
    BY <1>2, Quiet, Zenon DEF sema_down, StillAsleep, StillNew
  <1> QED
    BY <1>1, <1>2, Zenon

\* A round of sema_down keeps the lists in order.
LEMMA DownQueues ==
  ASSUME CallInv, QueueInv, Allowed, NEW t \in Threads, t = current, t # idle_page, pc[t] # "boot",
         NEW s \in Sems, NEW k \in Labels, sema_down(t, s, k)
  PROVE  QueueInv'
  <1>1. StillAsleep(t) /\ (value[s] = 0 => status'[t] = "BLOCKED")
    BY DownDoes, Zenon
  <1>2. CASE value[s] # 0
    <2>1. \A r \in Sems : waiters'[r] = waiters[r]
      BY <1>2, Zenon DEF sema_down
    <2> QED
      BY <1>1, <2>1, QueuesKept, Zenon
  <1>3. CASE value[s] = 0
    <2>1. waiters[s] \in Seq(Threads) /\ t \notin Linked(waiters[s]) /\ OneEach(waiters[s])
      BY Sleepers, Zenon DEF CallInv, Types, QueueInv
    <2>2. OneEach(Append(waiters[s], t)) /\ Linked(Append(waiters[s], t)) = Linked(waiters[s]) \cup {t}
      BY <2>1, LinkedAppend
    <2>3. /\ waiters'[s] = Append(waiters[s], t) /\ \A r \in Sems \ {s} : waiters'[r] = waiters[r]
          /\ pc'[t] = "wait" /\ at'[t] = s
      BY <1>3 DEF sema_down, CallInv, Types
    <2>4. \A r \in Sems : \A u \in Linked(waiters[r]) : status'[u] = "BLOCKED" /\ pc'[u] = "wait" /\ at'[u] = r
      BY <1>1, StillQueued, Zenon
    <2>5. \A u \in Linked(waiters'[s]) : status'[u] = "BLOCKED" /\ pc'[u] = "wait" /\ at'[u] = s
      BY <1>1, <1>3, <2>2, <2>3, <2>4
    <2> SUFFICES ASSUME NEW r \in Sems
                 PROVE  /\ OneEach(waiters'[r])
                        /\ \A u \in Linked(waiters'[r]) : status'[u] = "BLOCKED" /\ pc'[u] = "wait" /\ at'[u] = r
      BY Zenon DEF QueueInv
    <2>6. CASE r = s
      BY <2>2, <2>3, <2>5, <2>6, Zenon
    <2>7. CASE r # s
      BY <2>3, <2>4, <2>7 DEF QueueInv
    <2> QED
      BY <2>6, <2>7, Zenon
  <1> QED
    BY <1>2, <1>3, Zenon

\* A round of sema_down takes a unit of the value only together with the
\* thread that was woken for it, and falls asleep only when there is none.
LEMMA DownWakes ==
  ASSUME CallInv, NoLostWakeup, Allowed, NEW t \in Threads, t = current, t # idle_page, pc[t] # "boot",
         NEW s \in Sems, NEW k \in Labels, k # "wait", sema_down(t, s, k), pc[t] = "wait" => at[t] = s
  PROVE  NoLostWakeup'
  <1>1. /\ Types /\ StillAsleep(t)
        /\ status[t] = "RUNNING"
    BY DownDoes, SchedSays, Zenon DEF CallInv
  <1>2. at'[t] = s /\ (pc'[t] = "wait" => status'[t] = "BLOCKED")
    BY <1>1, DownDoes, Zenon DEF sema_down, Types
  <1>3. \A r \in Sems : t \notin Woken(r)' /\ (r # s => t \notin Woken(r)) /\ Woken(r) \subseteq Threads /\ Woken(r)' \subseteq Threads
    BY <1>2, Zenon DEF Woken
  <1>4. \A r \in Sems : Woken(r)' = Woken(r) \ {t}
    BY <1>1, <1>3, OthersWoken, Zenon
  <1> SUFFICES ASSUME NEW r \in Sems, waiters'[r] # <<>> PROVE AtLeast(value'[r], Woken(r)')
    BY Zenon DEF NoLostWakeup
  <1>5. CASE r # s
    <2>1. waiters'[r] = waiters[r] /\ value'[r] = value[r]
      BY <1>1, <1>5 DEF sema_down, Types
    <2>2. t \notin Woken(r) /\ Woken(r)' = Woken(r) \ {t}
      BY <1>3, <1>4, <1>5, Zenon
    <2>3. Woken(r)' = Woken(r)
      BY <2>2
    <2> QED
      BY <2>1, <2>3, Zenon DEF NoLostWakeup
  <1>6. CASE r = s /\ value[s] = 0
    <2>1. value'[r] = 0
      BY <1>6, Zenon DEF sema_down
    <2> QED
      BY <2>1, AtLeastNone, Zenon
  <1>7. CASE r = s /\ value[s] # 0
    <2> value \in [Sems -> Nat] /\ waiters' = waiters /\ value' = [value EXCEPT ![s] = @ - 1]
      BY <1>1, <1>7, Zenon DEF sema_down, Types
    <2>1. waiters[r] # <<>> /\ value'[r] \in Nat /\ value[r] = value'[r] + 1
      BY <1>7
    <2>2. AtLeast(value[r], Woken(r)) /\ Woken(r)' = Woken(r) \ {t}
      BY <1>4, <2>1, Zenon DEF NoLostWakeup
    <2> QED
      BY <2>1, <2>2, AtLeastDrop, Zenon
  <1> QED
    BY <1>5, <1>6, <1>7, Zenon

-----------------------------------------------------------------------------
(* sema_up.                                                                *)

\* What sema_up does to the threads and to the lists.
LEMMA UpDoes ==
  ASSUME CallInv, QueueInv, NEW s \in Sems, sema_up(s)
  PROVE  /\ StillNew(current)
         /\ \A r \in Sems \ {s} : waiters'[r] = waiters[r] /\ value'[r] = value[r]
         /\ value'[s] = value[s] + 1
         /\ \/ waiters[s] = <<>> /\ waiters'[s] = <<>> /\ status' = status
            \/ \E h \in Threads \ {current, idle_page} :
                 /\ waiters[s] # <<>> /\ h \in Linked(waiters[s]) /\ status[h] = "BLOCKED" /\ pc[h] = "wait" /\ at[h] = s
                 /\ waiters'[s] \in Seq(Threads) /\ OneEach(waiters'[s])
                 /\ Linked(waiters'[s]) = Linked(waiters[s]) \ {h}
                 /\ \A u \in Threads : status'[u] = IF u = h THEN "READY" ELSE status[u]
  <1>1. Types /\ SchedInv
    BY Zenon DEF CallInv
  <1>2. /\ \A r \in Sems \ {s} : waiters'[r] = waiters[r] /\ value'[r] = value[r]
        /\ value'[s] = value[s] + 1
    BY <1>1, Zenon DEF sema_up, Types
  <1>3. CASE waiters[s] = <<>>
    BY <1>2, <1>3, Quiet, Zenon DEF sema_up, StillNew
  <1>4. CASE waiters[s] # <<>>
    <2> DEFINE h == Head(waiters[s])
    <2>1. thread_unblock(h) /\ waiters'[s] = Tail(waiters[s])
      BY <1>1, <1>4, Zenon DEF sema_up, Types
    <2>2. waiters[s] \in Seq(Threads) /\ OneEach(waiters[s])
      BY <1>1, Zenon DEF Types, QueueInv
    <2>3. /\ h \in Threads /\ h \in Linked(waiters[s])
          /\ waiters'[s] \in Seq(Threads) /\ OneEach(waiters'[s])
          /\ Linked(waiters'[s]) = Linked(waiters[s]) \ {h}
      BY <1>4, <2>1, <2>2, LinkedTail
    <2>4. h \in Threads \ {current, idle_page} /\ status[h] = "BLOCKED" /\ pc[h] = "wait" /\ at[h] = s
      BY <2>3, Sleepers DEF QueueInv
    <2>5. \A u \in Threads : status'[u] = IF u = h THEN "READY" ELSE status[u]
      BY <1>1, <2>1, <2>3, UnblockDoes, Zenon
    <2>6. StillNew(current)
      BY <2>4, <2>5, Zenon DEF StillNew
    <2> HIDE DEF h
    <2>7. \E g \in Threads \ {current, idle_page} :
             /\ waiters[s] # <<>> /\ g \in Linked(waiters[s]) /\ status[g] = "BLOCKED" /\ pc[g] = "wait" /\ at[g] = s
             /\ waiters'[s] \in Seq(Threads) /\ OneEach(waiters'[s])
             /\ Linked(waiters'[s]) = Linked(waiters[s]) \ {g}
             /\ \A u \in Threads : status'[u] = IF u = g THEN "READY" ELSE status[u]
      BY <1>4, <2>3, <2>4, <2>5, Zenon
    <2> QED
      BY <1>2, <2>6, <2>7, Zenon
  <1> QED
    BY <1>3, <1>4, Zenon

\* sema_up keeps the lists in order.
LEMMA UpQueues ==
  ASSUME CallInv, QueueInv, Allowed, NEW s \in Sems, sema_up(s)
  PROVE  QueueInv'
  <1>1. CASE waiters'[s] = <<>> /\ waiters[s] = <<>> /\ status' = status
    <2>1. StillAsleep(current) /\ \A r \in Sems : waiters'[r] = waiters[r]
      BY <1>1, UpDoes, Zenon DEF StillAsleep
    <2> QED
      BY <2>1, QueuesKept, Zenon
  <1>2. ASSUME NEW h \in Threads \ {current, idle_page}, at[h] = s,
               OneEach(waiters'[s]), Linked(waiters'[s]) = Linked(waiters[s]) \ {h},
               \A u \in Threads : status'[u] = IF u = h THEN "READY" ELSE status[u]
        PROVE  QueueInv'
    <2> SUFFICES ASSUME NEW r \in Sems
                 PROVE  /\ OneEach(waiters'[r])
                        /\ \A u \in Linked(waiters'[r]) : status'[u] = "BLOCKED" /\ pc'[u] = "wait" /\ at'[u] = r
      BY Zenon DEF QueueInv
    <2>1. \A u \in Linked(waiters[r]) : u \in Threads /\ SameFor(u) /\ status[u] = "BLOCKED" /\ pc[u] = "wait" /\ at[u] = r
      BY Sleepers, Zenon DEF QueueInv, Allowed
    <2>2. OneEach(waiters'[r]) /\ \A u \in Linked(waiters'[r]) : u \in Linked(waiters[r]) /\ u # h
      BY <1>2, <2>1, UpDoes DEF QueueInv
    <2> QED
      BY <1>2, <2>1, <2>2 DEF SameFor
  <1> QED
    BY <1>1, <1>2, UpDoes

\* sema_up raises the value and, while there is a list, wakes a thread for it.
LEMMA UpWakes ==
  ASSUME CallInv, QueueInv, NoLostWakeup, Allowed,
         NEW t \in Threads, t = current, pc[t] # "wait", pc'[t] # "wait", NEW s \in Sems, sema_up(s)
  PROVE  NoLostWakeup'
  <1>1. CASE waiters'[s] = <<>> /\ waiters[s] = <<>> /\ status' = status
    <2>1. StillAsleep(t) /\ SemasRest
      BY <1>1, UpDoes, Zenon DEF StillAsleep, SemasRest
    <2> QED
      BY <2>1, WakesKept, Zenon
  <1>2. ASSUME NEW h \in Threads \ {t, idle_page}, waiters[s] # <<>>,
               at[h] = s, pc[h] = "wait", status[h] = "BLOCKED",
               \A u \in Threads : status'[u] = IF u = h THEN "READY" ELSE status[u]
        PROVE  NoLostWakeup'
    <2>1. \A u \in Threads \ {t} : SameFor(u)
      BY Zenon DEF Allowed
    <2>2. \A r \in Sems : Woken(r)' = IF r = s THEN Woken(r) \cup {h} ELSE Woken(r)
      BY <1>2, <2>1 DEF Woken, SameFor
    <2>3. h \notin Woken(s) /\ \A r \in Sems : Woken(r) \subseteq Threads
      BY <1>2, Zenon DEF Woken
    <2>4. value[s] \in Nat /\ AtLeast(value[s], Woken(s))
      BY <1>2, Zenon DEF CallInv, Types, NoLostWakeup
    <2>5. value'[s] = value[s] + 1 /\ Woken(s)' = Woken(s) \cup {h}
      BY <2>2, UpDoes, Zenon
    <2>6. AtLeast(value'[s], Woken(s)')
      BY <2>3, <2>4, <2>5, AtLeastAdd, Zenon
    <2>7. \A r \in Sems \ {s} : waiters'[r] # <<>> => AtLeast(value'[r], Woken(r)')
      BY <2>2, UpDoes DEF NoLostWakeup
    <2> QED
      BY <2>6, <2>7, Zenon DEF NoLostWakeup
  <1> QED
    BY <1>1, <1>2, UpDoes

-----------------------------------------------------------------------------
(* The steps.                                                              *)

\* What the lists, the wake-ups and the creation of threads need.
ElemInv == QueueInv /\ NewInv /\ NoLostWakeup

\* The callers of sema_down.
LEMMA DownersElem ==
  ASSUME CallInv, ElemInv, Allowed, NEW t \in Threads,
         \/ SemaDown(t) \/ (BootWait /\ t = initial_thread) \/ Resume(t) \/ LockAcquire(t)
         \/ TidLock(t) \/ CondDown(t) \/ CondAcquire(t)
  PROVE  ElemInv'
  <1>1. PICK s \in Sems, k \in {"run", "own", "cacquire"} : DownBy(t, s, k)
    BY Downers, Zenon
  <1>2. t = current /\ t # idle_page /\ pc[t] # "boot" /\ sema_down(t, s, k) /\ (pc[t] = "wait" => at[t] = s)
    BY <1>1, Downers, Zenon DEF DownBy
  <1>3. Types /\ k \in Labels /\ k # "wait"
    BY LabelNames, Zenon DEF CallInv
  <1>4. (pc'[t] = "wait" /\ after'[t] = k) \/ pc'[t] = k
    BY <1>2, <1>3, Zenon DEF sema_down, Types
  <1>5. Creating(t)' => k = "own" /\ ret'[t] = "tid_read"
    BY <1>4, Zenon DEF Creating, Acquiring
  <1>6. Creating(t)' => Creating(t) /\ new'[t] = new[t]
    <2>1. new' = new
      BY Zenon DEF SemaDown, BootWait, Resume, LockAcquire, TidLock, CondDown, CondAcquire, tidVars
    <2>2. CASE SemaDown(t) \/ (BootWait /\ t = initial_thread) \/ CondDown(t)
      <3>1. at'[t] = s
        BY <1>2, <1>3, Zenon DEF sema_down, Types
      <3>2. at'[t] \in Semas \cup Threads
        <4>1. at \in [Threads -> Sems]
          BY <1>3, Zenon DEF Types
        <4>2. CASE SemaDown(t)
          BY <4>1, <4>2 DEF SemaDown, sema_down
        <4>3. CASE BootWait /\ t = initial_thread
          BY <4>1, <4>3, SemasAssumption DEF BootWait, sema_down
        <4>4. CASE CondDown(t)
          BY <4>1, <4>4, Zenon DEF CondDown, sema_down
        <4> QED
          BY <2>2, <4>2, <4>3, <4>4, Zenon
      <3>3. s \notin Locks
        BY <3>1, <3>2, SemasAssumption, Zenon
      <3> QED
        BY <1>1, <1>5, <3>3, Zenon DEF DownBy
    <2>3. CASE LockAcquire(t) \/ CondAcquire(t)
      BY <1>3, <1>5, <2>3, Zenon DEF LockAcquire, CondAcquire, lock_acquire, Types
    <2>4. CASE TidLock(t)
      BY <2>1, <2>4, Zenon DEF TidLock, Creating
    <2>5. CASE Resume(t)
      <3>1. Shape(t) /\ pc[t] = "wait" /\ ret' = ret
        BY <2>5, Zenon DEF CallInv, Resume
      <3>2. at[t] \in Locks => after[t] = "own"
        BY <1>3, <3>1, SemasAssumption DEF Shape, Types
      <3>3. Creating(t)' => after[t] = "own" /\ ret[t] = "tid_read"
        BY <1>1, <1>5, <3>1, <3>2, Zenon DEF DownBy
      <3> QED
        BY <2>1, <3>1, <3>3, Zenon DEF Creating, Acquiring
    <2> QED
      BY <2>2, <2>3, <2>4, <2>5, Zenon
  <1>7. StillNew(t)
    BY <1>2, DownDoes, Zenon
  <1>8. QueueInv'
    BY <1>2, <1>3, DownQueues, Zenon DEF ElemInv
  <1>9. NewInv'
    BY <1>2, <1>6, <1>7, NewKept, Zenon DEF ElemInv
  <1>10. NoLostWakeup'
    BY <1>2, <1>3, DownWakes, Zenon DEF ElemInv
  <1> QED
    BY <1>8, <1>9, <1>10, Zenon DEF ElemInv

\* A step that leaves the lists alone.
LEMMA ElemRests ==
  ASSUME CallInv, ElemInv, Allowed, NEW t \in Threads, t = current, StillAsleep(t), StillNew(t), SemasRest,
         pc[t] # "wait", pc'[t] # "wait", Creating(t)' => Creating(t) /\ new'[t] = new[t]
  PROVE  ElemInv'
  <1>1. \A s \in Sems : waiters'[s] \in {<<>>, waiters[s]}
    BY Zenon DEF SemasRest
  <1>2. QueueInv'
    BY <1>1, QueuesKept, Zenon DEF ElemInv
  <1>3. NewInv'
    BY NewKept, Zenon DEF ElemInv
  <1>4. NoLostWakeup'
    BY WakesKept, Zenon DEF ElemInv
  <1> QED
    BY <1>2, <1>3, <1>4, Zenon DEF ElemInv

\* The rest of the locks' steps, and allocate_tid's.
LEMMA LocksElem ==
  ASSUME CallInv, ElemInv, Allowed, NEW t \in Threads,
         \/ LockOwn(t) \/ LockRelease(t) \/ CondRelease(t) \/ TidUnlock(t) \/ TidRead(t) \/ TidWrite(t)
  PROVE  ElemInv'
  <1>1. Types /\ Shape(t)
    BY Zenon DEF CallInv
  <1>2. t = current /\ UNCHANGED thread_vars /\ waiters' = waiters /\ value' = value /\ new' = new /\ pc[t] # "wait"
    BY Zenon DEF LockOwn, LockRelease, CondRelease, TidUnlock, TidRead, TidWrite, Running, tidVars, syncVars
  <1>3. StillAsleep(t) /\ StillNew(t) /\ SemasRest
    BY <1>2, Quiet, Zenon DEF StillAsleep, StillNew, SemasRest
  <1>4. pc'[t] # "wait" /\ (Creating(t)' => Creating(t))
    <2>1. CASE LockOwn(t)
      BY <1>1, <2>1, Zenon DEF LockOwn, Types, Shape, Acquiring, Creating
    <2>2. CASE TidRead(t) \/ TidWrite(t)
      BY <1>1, <2>2, Zenon DEF TidRead, TidWrite, Types, Creating
    <2>3. CASE LockRelease(t) \/ CondRelease(t) \/ TidUnlock(t)
      <3>1. pc'[t] = "up" /\ (ret'[t] = "cunblock" => pc[t] = "tid_done")
        BY <1>1, <2>3, Zenon DEF LockRelease, CondRelease, TidUnlock, lock_release, Types
      <3> QED
        BY <3>1, Zenon DEF Creating, Acquiring
    <2> QED
      BY <2>1, <2>2, <2>3, Zenon
  <1> QED
    BY <1>2, <1>3, <1>4, ElemRests, Zenon

\* The steps of the condition variables.
LEMMA CondsElem ==
  ASSUME CallInv, ElemInv, Allowed, NEW t \in Threads,
         CondWait(t) \/ CondSignal(t) \/ CondBroadcast(t) \/ BroadcastLoop(t)
  PROVE  ElemInv'
  <1>1. Types /\ t \in Sems
    BY Zenon DEF CallInv, Sems
  <1>2. t = current /\ UNCHANGED thread_vars /\ pc[t] # "wait"
    BY Zenon DEF CondWait, CondSignal, CondBroadcast, BroadcastLoop, Running
  <1>3. \/ pc'[t] \in {"crelease", "broadcast", "run"}
        \/ pc'[t] = "up" /\ ret'[t] \in {"run", "broadcast"}
    BY <1>1 DEF CondWait, CondSignal, CondBroadcast, BroadcastLoop, PopWaiter, Types
  <1>4. SemasRest
    BY <1>1, Zenon DEF CondWait, CondSignal, CondBroadcast, BroadcastLoop, SemasRest, Types
  <1>5. StillAsleep(t) /\ StillNew(t)
    BY <1>2, Quiet, Zenon DEF StillAsleep, StillNew
  <1>6. pc'[t] # "wait" /\ ~ Creating(t)'
    BY <1>3, Zenon DEF Creating, Acquiring
  <1> QED
    BY <1>2, <1>4, <1>5, <1>6, ElemRests, Zenon

\* thread_exit, the boot, the idle thread and the timer.
LEMMA SchedElem ==
  ASSUME CallInv, ElemInv, Allowed,
         (\E t \in Threads : ThreadExit(t)) \/ Boot \/ IdleFirst \/ IdleBlock \/ TimerInterrupt
  PROVE  ElemInv'
  <1>1. Types /\ SchedInv /\ initial_thread \in Threads /\ idle_page \in Threads /\ Shape(idle_page) /\ BootInv
    BY ThreadsAssumption, Zenon DEF CallInv
  <1>2. waiters' = waiters /\ value' = value /\ new' = new
    BY Zenon DEF ThreadExit, Boot, IdleFirst, IdleBlock, TimerInterrupt, syncVars, tidVars
  <1>3. SemasRest
    BY <1>2, Zenon DEF SemasRest
  <1>4. ASSUME NEW t \in Threads, ThreadExit(t) PROVE ElemInv'
    <2>1. t = current /\ pc[t] = "run" /\ pc'[t] = "run" /\ Exit
      BY <1>4, Zenon DEF ThreadExit, Running
    <2>2. StillAsleep(t) /\ StillNew(t) /\ ~ Creating(t)'
      BY <1>1, <2>1, ExitDoes, Zenon DEF StillAsleep, StillNew, Creating, Acquiring
    <2> QED
      BY <1>3, <2>1, <2>2, ElemRests, Zenon
  <1>5. CASE Boot
    <2>1. /\ current = initial_thread /\ status' = [status EXCEPT ![idle_page] = "READY"]
          /\ pc[initial_thread] = "boot" /\ pc'[initial_thread] = "started"
      BY <1>1, <1>5, Zenon DEF Boot, thread_start, Types
    <2>2. StillAsleep(initial_thread) /\ StillNew(initial_thread) /\ ~ Creating(initial_thread)'
      BY <1>1, <2>1, SchedSays, Zenon DEF StillAsleep, StillNew, Creating, Acquiring
    <2> QED
      BY <1>1, <1>3, <2>1, <2>2, ElemRests, Zenon
  <1>6. CASE IdleFirst
    <2>1. /\ idle_page = current /\ status' = status /\ pc[idle_page] # "wait"
          /\ pc'[idle_page] = "up" /\ ret'[idle_page] = "block"
      BY <1>1, <1>6, Zenon DEF IdleFirst, idle, Types, Shape
    <2>2. StillAsleep(idle_page) /\ StillNew(idle_page) /\ ~ Creating(idle_page)'
      BY <2>1, Zenon DEF StillAsleep, StillNew, Creating, Acquiring
    <2> QED
      BY <1>1, <1>3, <2>1, <2>2, ElemRests, Zenon
  <1>7. CASE IdleBlock
    <2>1. idle_page = current /\ pc' = pc /\ pc[idle_page] = "block" /\ thread_block
      BY <1>7, Zenon DEF IdleBlock
    <2>2. Block
      BY <1>1, <2>1, Booted, Zenon DEF Block, MayBlock, Started, BootInv
    <2>3. StillAsleep(idle_page) /\ StillNew(idle_page) /\ ~ Creating(idle_page)'
      BY <1>1, <2>1, <2>2, BlockDoes, Zenon DEF StillAsleep, StillNew, Creating, Acquiring
    <2> QED
      BY <1>1, <1>3, <2>1, <2>3, ElemRests, Zenon
  <1>8. CASE TimerInterrupt
    <2>1. PICK t \in Threads : t = current
      BY <1>1, SchedSays, Zenon
    <2>2. pc[t] # "wait" /\ Tick /\ pc' = pc /\ ret' = ret /\ after' = after
      BY <1>8, <2>1, Zenon DEF TimerInterrupt, IntrOff
    <2>3. StillAsleep(t) /\ StillNew(t)
      BY <1>1, <2>1, <2>2, TickDoes, Zenon DEF StillAsleep, StillNew
    <2>4. Creating(t)' => Creating(t)
      BY <2>2, Zenon DEF Creating, Acquiring
    <2> QED
      BY <1>2, <1>3, <2>1, <2>2, <2>3, <2>4, ElemRests, Zenon
  <1> QED
    BY <1>4, <1>5, <1>6, <1>7, <1>8, Zenon

\* sema_up, by a thread or by an interrupt handler.
LEMMA UpElem ==
  ASSUME CallInv, ElemInv, Allowed, SemaUp \/ \E t \in Threads : Up(t)
  PROVE  ElemInv'
  <1>1. PICK t \in Threads : t = current
    BY SchedSays, Zenon DEF CallInv
  <1>2. Shape(t) /\ Types
    BY Zenon DEF CallInv
  <1>3. \E s \in Sems : sema_up(s)
    BY Zenon DEF SemaUp, Up, Sems, CallInv, Types
  <1>4. pc[t] # "wait" /\ pc'[t] # "wait" /\ new' = new /\ (Creating(t)' => Creating(t))
    <2>1. CASE SemaUp
      BY <1>1, <2>1, Zenon DEF SemaUp, IntrOff, Creating, Acquiring, tidVars
    <2>2. CASE Up(t)
      BY <1>1, <1>2, <2>2, Zenon DEF Up, Shape, Creating, Acquiring, Types, tidVars
    <2>3. SemaUp \/ Up(t)
      BY <1>1, Zenon DEF Up
    <2> QED
      BY <2>1, <2>2, <2>3, Zenon
  <1>5. QueueInv'
    BY <1>3, UpQueues, Zenon DEF ElemInv
  <1>6. NoLostWakeup'
    BY <1>1, <1>3, <1>4, UpWakes, Zenon DEF ElemInv
  <1>7. StillNew(t)
    BY <1>1, <1>3, UpDoes, Zenon DEF ElemInv
  <1>8. NewInv'
    BY <1>1, <1>4, <1>7, NewKept, Zenon DEF ElemInv
  <1> QED
    BY <1>5, <1>6, <1>8, Zenon DEF ElemInv

\* thread_create takes a free page: its thread is nobody else's to wake.
LEMMA CreateElem ==
  ASSUME CallInv, ElemInv, Allowed, NEW t \in Threads, ThreadCreate(t)
  PROVE  ElemInv'
  <1>1. PICK n \in Threads : Create(n) /\ new' = [new EXCEPT ![t] = n]
    BY Zenon DEF ThreadCreate
  <1>2. Types /\ SchedInv /\ NewInv
    BY Zenon DEF CallInv, ElemInv
  <1>3. /\ t = current /\ pc[t] = "run" /\ pc'[t] = "ctid" /\ waiters' = waiters /\ value' = value /\ new'[t] = n
    BY <1>1, <1>2, Zenon DEF ThreadCreate, Running, syncVars, Types
  <1>4. /\ status[n] = "FREE" /\ idle_thread # NoThread
        /\ \A u \in Threads : status'[u] = IF u = n THEN "BLOCKED" ELSE status[u]
    BY <1>1, <1>2, SchedSays, Zenon DEF Create, init_thread
  <1>5. n # idle_page /\ n # t /\ pc[n] = "run" /\ pc'[n] = "run"
    <2>1. n # idle_page /\ n # t
      BY <1>2, <1>3, <1>4, SchedSays
    <2>2. pc[n] = "run"
      BY <1>2, <1>4, <2>1 DEF NewInv
    <2> QED
      BY <1>3, <2>1, <2>2, Zenon DEF Allowed, SameFor
  <1>6. StillAsleep(t) /\ SemasRest
    BY <1>3, <1>4, <1>5, Zenon DEF StillAsleep, SemasRest
  <1>7. \A s \in Sems : waiters'[s] \in {<<>>, waiters[s]}
    BY <1>3, Zenon
  <1>8. QueueInv'
    BY <1>3, <1>6, <1>7, QueuesKept, Zenon DEF ElemInv
  <1>9. NoLostWakeup'
    BY <1>3, <1>6, WakesKept, Zenon DEF ElemInv
  <1>10. \A u \in Threads \ {t} : Creating(u)' => /\ new'[u] = new[u] /\ status'[new[u]] = "BLOCKED" /\ pc'[new[u]] = "run"
                                                 /\ new[u] # idle_page /\ new[u] # n /\ Creating(u)
    <2> SUFFICES ASSUME NEW u \in Threads, u # t, Creating(u)'
                 PROVE  /\ new'[u] = new[u] /\ status'[new[u]] = "BLOCKED" /\ pc'[new[u]] = "run"
                        /\ new[u] # idle_page /\ new[u] # n /\ Creating(u)
      BY Zenon
    <2>1. Creating(u) /\ new'[u] = new[u]
      BY <1>3, Zenon DEF Allowed, SameFor, Creating, Acquiring
    <2>2. new[u] \in Threads \ {t, idle_page} /\ status[new[u]] = "BLOCKED" /\ pc[new[u]] = "run"
      BY <1>2, <1>3, <2>1, Newborn, Zenon DEF NewInv
    <2> QED
      BY <1>3, <1>4, <2>1, <2>2, Zenon DEF Allowed, SameFor
  <1>11. \A u \in Threads : status'[u] = "FREE" => pc'[u] = "run"
    BY <1>2, <1>3, <1>4, SchedSays DEF NewInv, Allowed, SameFor
  <1>12. NewInv'
    <2>1. \A u \in Threads : Creating(u)' => status'[new'[u]] = "BLOCKED" /\ pc'[new'[u]] = "run" /\ new'[u] # idle_page
      BY <1>3, <1>4, <1>5, <1>10
    <2>2. \A u, v \in Threads : Creating(u)' /\ Creating(v)' /\ new'[u] = new'[v] => u = v
      BY <1>2, <1>3, <1>10 DEF NewInv
    <2> QED
      BY <1>11, <2>1, <2>2, Zenon DEF NewInv
  <1> QED
    BY <1>8, <1>9, <1>12, Zenon DEF ElemInv

\* thread_create wakes the thread it made, which is on no list.
LEMMA CreateUnblockElem ==
  ASSUME CallInv, ElemInv, Allowed, NEW t \in Threads, CreateUnblock(t)
  PROVE  ElemInv'
  <1> DEFINE n == new[t]
  <1>1. Types /\ SchedInv /\ NewInv
    BY Zenon DEF CallInv, ElemInv
  <1>2. /\ t = current /\ pc[t] = "cunblock" /\ pc'[t] = "run" /\ waiters' = waiters /\ value' = value /\ thread_unblock(n)
    BY <1>1, Zenon DEF CreateUnblock, syncVars, Types
  <1>3. Creating(t) /\ n \in Threads \ {t, idle_page} /\ pc[n] = "run"
    <2>1. Creating(t)
      BY <1>2, Zenon DEF Creating
    <2> QED
      BY <1>1, <1>2, <2>1, Newborn, Zenon DEF NewInv
  <1>4. \A u \in Threads : status'[u] = IF u = n THEN "READY" ELSE status[u]
    BY <1>1, <1>2, <1>3, UnblockDoes, Zenon
  <1>5. StillAsleep(t) /\ SemasRest
    BY <1>2, <1>3, <1>4, Zenon DEF StillAsleep, SemasRest
  <1>6. \A s \in Sems : waiters'[s] \in {<<>>, waiters[s]}
    BY <1>2, Zenon
  <1>7. QueueInv'
    BY <1>2, <1>5, <1>6, QueuesKept, Zenon DEF ElemInv
  <1>8. NoLostWakeup'
    BY <1>2, <1>5, WakesKept, Zenon DEF ElemInv
  <1>9. \A u \in Threads : Creating(u)' => /\ new'[u] = new[u] /\ status'[new[u]] = "BLOCKED" /\ pc'[new[u]] = "run"
                                          /\ new[u] # idle_page /\ Creating(u)
    <2> SUFFICES ASSUME NEW u \in Threads, Creating(u)'
                 PROVE  /\ new'[u] = new[u] /\ status'[new[u]] = "BLOCKED" /\ pc'[new[u]] = "run"
                        /\ new[u] # idle_page /\ Creating(u)
      BY Zenon
    <2>1. u # t
      BY <1>2, Zenon DEF Creating, Acquiring
    <2>2. Creating(u) /\ new'[u] = new[u]
      BY <1>2, <2>1, Zenon DEF Allowed, SameFor, Creating, Acquiring
    <2>3. new[u] \in Threads \ {t, idle_page} /\ status[new[u]] = "BLOCKED" /\ pc[new[u]] = "run"
      BY <1>1, <1>2, <2>2, Newborn, Zenon DEF NewInv
    <2>4. new[u] # n
      BY <1>1, <1>3, <2>1, <2>2, Zenon DEF NewInv
    <2> QED
      BY <1>2, <1>4, <2>2, <2>3, <2>4, Zenon DEF Allowed, SameFor
  <1>10. \A u \in Threads : status'[u] = "FREE" => pc'[u] = "run"
    BY <1>1, <1>2, <1>4, SchedSays DEF NewInv, Allowed, SameFor
  <1>11. NewInv'
    BY <1>1, <1>9, <1>10 DEF NewInv
  <1> QED
    BY <1>7, <1>8, <1>11, Zenon DEF ElemInv

\* Every step keeps the lists and the wake-ups in order.
LEMMA ElemStep ==
  CallInv /\ ElemInv /\ [Next]_vars => ElemInv'
  <1> SUFFICES ASSUME CallInv, ElemInv, [Next]_vars PROVE ElemInv'
    BY Zenon
  <1>1. Allowed
    BY CallStep, Zenon
  <1>2. CASE UNCHANGED vars
    <2>1. /\ status' = status /\ waiters' = waiters /\ value' = value
          /\ pc' = pc /\ at' = at /\ after' = after /\ ret' = ret /\ new' = new
      BY <1>2, Zenon DEF vars, thread_vars, tidVars
    <2>2. QueueInv'
      BY <2>1 DEF ElemInv, QueueInv
    <2>3. NewInv'
      <3>1. \A u \in Threads : Creating(u)' <=> Creating(u)
        BY <2>1, Zenon DEF Creating, Acquiring
      <3> QED
        BY <2>1, <3>1, Zenon DEF ElemInv, NewInv
    <2>4. NoLostWakeup'
      BY <2>1, Zenon DEF ElemInv, NoLostWakeup, Woken
    <2> QED
      BY <2>2, <2>3, <2>4, Zenon DEF ElemInv
  <1>3. CASE Kernel \/ SemaUp \/ TimerInterrupt
    BY <1>1, <1>3, SchedElem, UpElem, DownersElem, ThreadsAssumption, Zenon DEF Kernel
  <1>4. ASSUME NEW t \in Threads, Begin(t) PROVE ElemInv'
    BY <1>1, <1>4, DownersElem, LocksElem, CondsElem, CreateElem, SchedElem, Zenon DEF Begin
  <1>5. ASSUME NEW t \in Threads, Continue(t) PROVE ElemInv'
    BY <1>1, <1>5, DownersElem, LocksElem, UpElem, CondsElem, CreateUnblockElem, Zenon DEF Continue
  <1> QED
    BY <1>2, <1>3, <1>4, <1>5, Zenon DEF Next

\* At boot every list is empty.
LEMMA ElemInit ==
  Init => ElemInv
  <1> SUFFICES ASSUME Init PROVE ElemInv
    BY Zenon
  <1>1. \A s \in Sems : waiters[s] = <<>>
    BY Zenon DEF Init
  <1>2. /\ \A t \in Threads : pc[t] = IF t = initial_thread THEN "boot" ELSE "run"
        /\ \A t \in Threads : status[t] = "FREE" => t # initial_thread
    BY Zenon DEF Init, thread_init
  <1>3. QueueInv
    <2>1. OneEach(<<>>) /\ Linked(<<>>) = {}
      BY DEF OneEach, Linked
    <2> QED
      BY <1>1, <2>1, Zenon DEF QueueInv
  <1>4. NewInv
    BY <1>2 DEF NewInv, Creating, Acquiring
  <1> QED
    BY <1>1, <1>3, <1>4, Zenon DEF ElemInv, NoLostWakeup

-----------------------------------------------------------------------------
(* What the lists promise.                                                 *)

\* elem is never linked into two places at once.
LEMMA ElemsExclude ==
  ASSUME CallInv, ElemInv
  PROVE  ElemExclusive
  <1>1. OneEach(ready_list) /\ \A t \in Linked(ready_list) : status[t] = "READY"
    BY SchedFacts, Zenon DEF CallInv
  <1>2. \A s \in Sems : OneEach(waiters[s]) /\ \A t \in Linked(waiters[s]) : status[t] = "BLOCKED" /\ at[t] = s
    BY Zenon DEF ElemInv, QueueInv
  <1> QED
    BY <1>1, <1>2 DEF ElemExclusive

\* The elem of struct thread, which the run queue and the semaphores share, is
\* never linked into two lists at once.
THEOREM ElemAlwaysExclusive ==
  Spec => []ElemExclusive
  <1>1. Init => CallInv /\ ElemInv
    BY CallInit, ElemInit, Zenon
  <1>2. CallInv /\ ElemInv /\ [Next]_vars => (CallInv /\ ElemInv)'
    BY CallStep, ElemStep, Zenon DEF Allowed
  <1>3. CallInv /\ ElemInv => ElemExclusive
    BY ElemsExclude, Zenon
  <1> QED
    BY <1>1, <1>2, <1>3, PTL DEF Spec

\* sema_up loses no wake-up: while a thread sleeps on a semaphore, every unit of
\* its value has a woken thread on the way to it.
THEOREM WakeupsNeverLost ==
  Spec => []NoLostWakeup
  <1>1. Init => CallInv /\ ElemInv
    BY CallInit, ElemInit, Zenon
  <1>2. CallInv /\ ElemInv /\ [Next]_vars => (CallInv /\ ElemInv)'
    BY CallStep, ElemStep, Zenon DEF Allowed
  <1>3. CallInv /\ ElemInv => NoLostWakeup
    BY Zenon DEF ElemInv
  <1> QED
    BY <1>1, <1>2, <1>3, PTL DEF Spec

=============================================================================
