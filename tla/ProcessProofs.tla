---------------------------- MODULE ProcessProofs ----------------------------
(***************************************************************************)
(* Proofs about Process, for any number of processes and exit codes.       *)
(* ProcInv is the inductive invariant.  It follows a process from          *)
(* process_execute to process_exit, and its status from process_exit to    *)
(* the one process_wait that returns it.                                   *)
(***************************************************************************)
EXTENDS Process, TLAPS

\* p is in process_execute.
Starting(p) == loc[p] \in {"exec", "link"}

\* c has not woken its parent yet.
Loading(c) == loc[c] \in {"unborn", "load", "loaded", "failed"}

\* The handshake: until load () has ended the child's exec_info is as its
\* parent made it, then it holds the verdict; the parent leaves sema_down when
\* the child is through with it.
HandInv ==
  /\ \A p \in Procs : Starting(p) =>
       kid[p] \in Procs /\ parent[kid[p]] = p /\ loc[kid[p]] # "unborn" /\ kid[p] # main
  /\ \A c \in Procs : loc[c] \in {"unborn", "load"} => success[c] = "unset" /\ wait_st[c] = NULL
  /\ \A c \in Procs : c # main /\ loc[c] \notin {"unborn", "load"} =>
       success[c] = IF wait_st[c] # NULL THEN "yes" ELSE "no"
  /\ \A c \in Procs : Loading(c) => load_sema[c] = 0
  /\ \A p \in Procs : loc[p] = "link" => ~Loading(kid[p])

\* A process that can exit has a wait_status; the initial thread never exits.
LiveInv ==
  /\ loc[main] \in {"user", "exec", "link", "walk", "down", "reap"} /\ wait_st[main] = NULL
  /\ \A p \in Procs \ {main} : loc[p] \notin {"unborn", "load", "failed", "dead"} => wait_st[p] # NULL

\* The wait_status holds the status the process exits with, is upped when the
\* process has exited, and is dropped by the process once.
StatusInv ==
  /\ \A c \in Procs : wait_st[c] # NULL =>
       /\ wait_st[c].exit_code = code[c]
       /\ loc[c] # "dead" => wait_st[c].ref_count = 2
       /\ wait_st[c].sema # 0 => Exited(c)
  /\ \A c \in Procs : wait_st[c] = NULL => code[c] = -1

\* What no process has linked is in no list, and a list has a first element.
LinkInv ==
  /\ \A p \in Procs : next[HeadOf(p)] # NULL
  /\ \A c \in Procs : next[ElemOf(c)] = NULL <=> wait_st[c] = NULL
  /\ \A c \in Procs : wait_st[c] = NULL => \A e \in Nodes : next[e] # ElemOf(c) /\ prev[e] # ElemOf(c)

\* process_wait has a cursor while it looks, and a wait_status when it found one.
WaitInv ==
  \A p \in Procs :
    /\ loc[p] = "walk" => cur[p] # NULL
    /\ loc[p] \in {"down", "reap"} => target[p] \in Procs /\ wait_st[target[p]] # NULL

\* p has taken the status of c out of its semaphore.
Takes(p, c) ==
  \/ loc[p] = "reap" /\ target[p] = c
  \/ result[p] # NULL /\ result[p][1] = c

\* An exit is taken by one process_wait, after it happened.
TakenInv ==
  /\ \A p, c \in Procs : Takes(p, c) => Exited(c) /\ wait_st[c] # NULL /\ wait_st[c].sema = 0
  /\ \A p, q, c \in Procs : Takes(p, c) /\ Takes(q, c) => p = q
  /\ \A p \in Procs : result[p] # NULL => result[p][2] = code[result[p][1]]

ProcInv == ProcessTypeOK /\ HandInv /\ LiveInv /\ StatusInv /\ LinkInv /\ WaitInv /\ TakenInv

-----------------------------------------------------------------------------
\* The nodes of the lists are all different.
LEMMA NodeFacts ==
  /\ \A p \in Procs : HeadOf(p) \in Nodes /\ TailOf(p) \in Nodes /\ ElemOf(p) \in Nodes
  /\ \A p, q \in Procs : ElemOf(p) # HeadOf(q) /\ ElemOf(p) # TailOf(q) /\ HeadOf(p) # TailOf(q)
  /\ \A p, q \in Procs : ElemOf(p) = ElemOf(q) => p = q
  /\ \A t : ElemOf(t) \in Nodes => t \in Procs
  /\ NULL \notin Nodes
  BY NullAssumption, Zenon DEF HeadOf, TailOf, ElemOf, Nodes

\* The types, spelled out.
LEMMA ProcTypes ==
  ASSUME ProcessTypeOK
  PROVE  /\ next \in [Nodes -> Nodes \cup {NULL}] /\ prev \in [Nodes -> Nodes \cup {NULL}]
         /\ loc \in [Procs -> ProcessLabels]
         /\ kid \in [Procs -> Procs \cup {-1, NULL}] /\ parent \in [Procs -> Procs \cup {NULL}]
         /\ target \in [Procs -> Procs \cup {-1, NULL}] /\ cur \in [Procs -> Nodes \cup {NULL}]
         /\ load_sema \in [Procs -> 0 .. 1] /\ success \in [Procs -> {"unset", "yes", "no"}]
         /\ freed \in [Procs -> BOOLEAN]
         /\ wait_st \in [Procs -> Statuses \cup {NULL}] /\ result \in [Procs -> Results \cup {NULL}]
         /\ code \in [Procs -> Codes \cup {-1}] /\ fault \in {"none", "assert", "stale", "free"}
  BY Zenon DEF ProcessTypeOK, Tids, TID_ERROR

-----------------------------------------------------------------------------
(* The lists.                                                              *)

\* list_push_back keeps the types of the pointers.
LEMMA PushTypes ==
  ASSUME ProcessTypeOK, NEW p \in Procs, NEW c \in Procs, list_push_back(p, ElemOf(c))
  PROVE  /\ next' \in [Nodes -> Nodes \cup {NULL}] /\ prev' \in [Nodes -> Nodes \cup {NULL}]
         /\ fault' \in {"stale", fault}
  BY NodeFacts, Zenon DEF ProcessTypeOK, list_push_back

\* list_remove keeps the types of the pointers.
LEMMA RemoveTypes ==
  ASSUME ProcessTypeOK, NEW c \in Procs, list_remove(ElemOf(c))
  PROVE  /\ next' \in [Nodes -> Nodes \cup {NULL}] /\ prev' \in [Nodes -> Nodes \cup {NULL}]
         /\ fault' \in {"stale", fault}
  <1>1. next[ElemOf(c)] \in Nodes \cup {NULL} /\ prev[ElemOf(c)] \in Nodes \cup {NULL}
    BY NodeFacts, Zenon DEF ProcessTypeOK
  <1> QED
    BY <1>1, Zenon DEF ProcessTypeOK, list_remove

\* Lists that nobody touches, while no wait_status comes or goes.
LEMMA ListsRest ==
  ASSUME LinkInv, UNCHANGED listVars, \A c \in Procs : wait_st'[c] = NULL <=> wait_st[c] = NULL
  PROVE  LinkInv'
  <1>1. next' = next /\ prev' = prev
    BY Zenon DEF listVars
  <1>2. \A p \in Procs : next'[HeadOf(p)] # NULL
    BY <1>1, Zenon DEF LinkInv
  <1>3. \A c \in Procs : next'[ElemOf(c)] = NULL <=> wait_st'[c] = NULL
    BY <1>1, Zenon DEF LinkInv
  <1>4. \A c \in Procs : wait_st'[c] = NULL => \A e \in Nodes : next'[e] # ElemOf(c) /\ prev'[e] # ElemOf(c)
    BY <1>1, Zenon DEF LinkInv
  <1> QED
    BY <1>2, <1>3, <1>4, Zenon DEF LinkInv

\* The element of a wait_status is linked into a list.
LEMMA PushLinks ==
  ASSUME ProcessTypeOK, LinkInv, NEW p \in Procs, NEW c \in Procs, list_push_back(p, ElemOf(c)), wait_st'[c] # NULL,
         \A d \in Procs \ {c} : wait_st'[d] = NULL <=> wait_st[d] = NULL
  PROVE  LinkInv'
  <1> DEFINE last == prev[TailOf(p)]
  <1>1. /\ next' = [next EXCEPT ![ElemOf(c)] = TailOf(p), ![last] = ElemOf(c)]
        /\ prev' = [prev EXCEPT ![ElemOf(c)] = last, ![TailOf(p)] = ElemOf(c)]
    BY Zenon DEF list_push_back
  <1>2. next \in [Nodes -> Nodes \cup {NULL}] /\ prev \in [Nodes -> Nodes \cup {NULL}]
    BY Zenon DEF ProcessTypeOK
  <1> HIDE DEF last
  <1>3. /\ \A e \in Nodes : next'[e] = IF e = last THEN ElemOf(c) ELSE IF e = ElemOf(c) THEN TailOf(p) ELSE next[e]
        /\ \A e \in Nodes : prev'[e] \in {prev[e], last, ElemOf(c)}
    BY <1>1, <1>2, NodeFacts, Zenon
  <1>4. \A d \in Procs : wait_st'[d] = NULL => d # c /\ wait_st[d] = NULL /\ ElemOf(d) # last /\ ElemOf(d) # ElemOf(c)
    BY NodeFacts, Zenon DEF LinkInv, last
  <1>5. \A q \in Procs : next'[HeadOf(q)] # NULL
    BY <1>3, NodeFacts DEF LinkInv
  <1>6. \A d \in Procs : next'[ElemOf(d)] = NULL <=> wait_st'[d] = NULL
    <2> SUFFICES ASSUME NEW d \in Procs PROVE next'[ElemOf(d)] = NULL <=> wait_st'[d] = NULL
      BY Zenon
    <2>1. CASE d = c
      BY <1>3, <2>1, NodeFacts
    <2>2. CASE d # c /\ ElemOf(d) = last
      <3>1. wait_st'[d] # NULL
        BY <1>4, <2>2, Zenon
      <3> QED
        BY <1>3, <2>2, <3>1, NodeFacts, Zenon
    <2>3. CASE d # c /\ ElemOf(d) # last
      BY <1>3, <2>3, NodeFacts, Zenon DEF LinkInv
    <2> QED
      BY <2>1, <2>2, <2>3, Zenon
  <1>7. \A d \in Procs : wait_st'[d] = NULL => \A e \in Nodes : next'[e] # ElemOf(d) /\ prev'[e] # ElemOf(d)
    BY <1>3, <1>4, NodeFacts DEF LinkInv
  <1> QED
    BY <1>5, <1>6, <1>7, Zenon DEF LinkInv

\* The element of a wait_status is unlinked; its own pointers stay.
LEMMA RemoveLinks ==
  ASSUME ProcessTypeOK, LinkInv, NEW c \in Procs, list_remove(ElemOf(c)), wait_st[c] # NULL, wait_st' = wait_st
  PROVE  LinkInv'
  <1>1. next[ElemOf(c)] # NULL /\ next[ElemOf(c)] \in Nodes \cup {NULL} /\ prev[ElemOf(c)] \in Nodes \cup {NULL}
    BY NodeFacts, Zenon DEF LinkInv, ProcessTypeOK
  <1>2. /\ next' = [next EXCEPT ![prev[ElemOf(c)]] = next[ElemOf(c)]]
        /\ prev' = [prev EXCEPT ![next[ElemOf(c)]] = prev[ElemOf(c)]]
    BY Zenon DEF list_remove
  <1>3. /\ \A e \in Nodes : next'[e] = IF e = prev[ElemOf(c)] THEN next[ElemOf(c)] ELSE next[e]
        /\ \A e \in Nodes : prev'[e] \in {prev[e], prev[ElemOf(c)]}
    BY <1>1, <1>2, Zenon DEF ProcessTypeOK
  <1>4. \A d \in Procs : wait_st[d] = NULL => ElemOf(d) # prev[ElemOf(c)] /\ ElemOf(d) # next[ElemOf(c)]
    BY NodeFacts, Zenon DEF LinkInv
  <1>5. \A q \in Procs : next'[HeadOf(q)] # NULL
    BY <1>1, <1>3, NodeFacts DEF LinkInv
  <1>6. \A d \in Procs : next'[ElemOf(d)] = NULL <=> wait_st'[d] = NULL
    BY <1>1, <1>3, <1>4, NodeFacts DEF LinkInv
  <1>7. \A d \in Procs : wait_st'[d] = NULL => \A e \in Nodes : next'[e] # ElemOf(d) /\ prev'[e] # ElemOf(d)
    BY <1>3, <1>4, NodeFacts DEF LinkInv
  <1> QED
    BY <1>5, <1>6, <1>7, Zenon DEF LinkInv

-----------------------------------------------------------------------------
(* The types.                                                              *)

\* What a process does in process_execute and start_process keeps the types.
LEMMA ExecTypes ==
  ASSUME ProcInv, NEW p \in Procs,
         process_execute(p) \/ LoadFail(p) \/ MallocFail(p) \/ LoadOk(p) \/ LoadDone(p)
         \/ ExecWake(p) \/ ExecReturn(p)
  PROVE  ProcessTypeOK'
  <1> USE ProcsAssumption, ProcTypes DEF ProcInv, Goto, listVars, execVars
  <1>1. ASSUME process_execute(p) PROVE ProcessTypeOK'
    BY <1>1 DEF process_execute, ProcessTypeOK, ProcessLabels, Tids
  <1>2. ASSUME LoadFail(p) \/ MallocFail(p) PROVE ProcessTypeOK'
    BY <1>2, Zenon DEF LoadFail, MallocFail, ProcessTypeOK, ProcessLabels
  <1>3. ASSUME LoadOk(p) PROVE ProcessTypeOK'
    <2>1. NewStatus \in Statuses
      BY DEF NewStatus, Statuses
    <2>2. next' \in [Nodes -> Nodes \cup {NULL}] /\ prev' \in [Nodes -> Nodes \cup {NULL}] /\ fault' \in {"stale", fault}
      BY <1>3, PushTypes, Zenon DEF LoadOk
    <2> QED
      BY <1>3, <2>1, <2>2, Zenon DEF LoadOk, ProcessTypeOK, ProcessLabels
  <1>4. ASSUME LoadDone(p) PROVE ProcessTypeOK'
    <2>1. load_sema[p] = 0
      BY <1>4, Zenon DEF LoadDone, HandInv, Loading, At
    <2>2. load_sema' \in [Procs -> 0 .. 1]
      BY <1>4, <2>1 DEF LoadDone
    <2> QED
      BY <1>4, <2>2, Zenon DEF LoadDone, ProcessTypeOK, ProcessLabels
  <1>5. ASSUME ExecWake(p) PROVE ProcessTypeOK'
    <2>1. kid[p] \in Procs
      BY <1>5, Zenon DEF ExecWake, At, HandInv, Starting
    <2>2. load_sema[kid[p]] \in 0 .. 1 /\ load_sema[kid[p]] > 0
      BY <1>5, <2>1, Zenon DEF ExecWake
    <2>3. load_sema[kid[p]] - 1 \in 0 .. 1
      BY <2>2
    <2>4. load_sema' \in [Procs -> 0 .. 1]
      BY <1>5, <2>3, Zenon DEF ExecWake
    <2> QED
      BY <1>5, <2>4, Zenon DEF ExecWake, ProcessTypeOK, ProcessLabels
  <1>6. ASSUME ExecReturn(p) PROVE ProcessTypeOK'
    <2>1. kid[p] \in Procs
      BY <1>6, Zenon DEF ExecReturn, At, HandInv, Starting
    <2>2. next' \in [Nodes -> Nodes \cup {NULL}] /\ prev' \in [Nodes -> Nodes \cup {NULL}] /\ fault' \in {"stale", "free", fault}
      BY <1>6, <2>1, PushTypes, Zenon DEF ExecReturn
    <2>3. kid' \in [Procs -> Tids \cup {NULL}]
      BY <1>6, <2>1 DEF ExecReturn, Tids, TID_ERROR
    <2>4. freed' \in [Procs -> BOOLEAN]
      BY <1>6, Zenon DEF ExecReturn
    <2> QED
      BY <1>6, <2>2, <2>3, <2>4, Zenon DEF ExecReturn, ProcessTypeOK, ProcessLabels
  <1> QED
    BY <1>1, <1>2, <1>3, <1>4, <1>5, <1>6, Zenon

\* So does process_wait.
LEMMA WaitTypes ==
  ASSUME ProcInv, NEW p \in Procs,
         WaitCall(p) \/ WalkEnd(p) \/ WalkNext(p) \/ WalkFault(p) \/ WaitDown(p) \/ Reap(p)
  PROVE  ProcessTypeOK'
  <1> USE ProcsAssumption, ProcTypes DEF ProcInv, Goto, listVars, execVars
  <1>1. ASSUME WaitCall(p) PROVE ProcessTypeOK'
    <2>1. next[HeadOf(p)] \in Nodes \cup {NULL}
      BY NodeFacts, Zenon
    <2>2. WaitTids(p) \subseteq Tids
      BY DEF WaitTids, Tids, TID_ERROR
    <2> QED
      BY <1>1, <2>1, <2>2 DEF WaitCall, ProcessTypeOK, ProcessLabels
  <1>2. ASSUME WalkEnd(p) \/ WalkFault(p) PROVE ProcessTypeOK'
    BY <1>2 DEF WalkEnd, WalkFault, ProcessTypeOK, ProcessLabels
  <1>3. ASSUME WalkNext(p) PROVE ProcessTypeOK'
    <2>1. cur[p] \in Nodes
      BY <1>3 DEF WalkNext, At, WaitInv
    <2> QED
      BY <1>3, <2>1 DEF WalkNext, ProcessTypeOK, ProcessLabels
  <1>4. ASSUME WaitDown(p) PROVE ProcessTypeOK'
    <2>1. target[p] \in Procs /\ wait_st[target[p]] \in Statuses
      BY <1>4, Zenon DEF WaitDown, At, WaitInv
    <2>2. wait_st' \in [Procs -> Statuses \cup {NULL}]
      BY <1>4, <2>1 DEF WaitDown, Statuses
    <2> QED
      BY <1>4, <2>2, Zenon DEF WaitDown, ProcessTypeOK, ProcessLabels
  <1>5. ASSUME Reap(p) PROVE ProcessTypeOK'
    <2>1. target[p] \in Procs /\ wait_st[target[p]] \in Statuses
      BY <1>5 DEF Reap, At, WaitInv
    <2>2. next' \in [Nodes -> Nodes \cup {NULL}] /\ prev' \in [Nodes -> Nodes \cup {NULL}] /\ fault' \in {"stale", fault}
      BY <1>5, <2>1, RemoveTypes, Zenon DEF Reap
    <2>3. <<target[p], wait_st[target[p]].exit_code>> \in Results
      BY <2>1, Zenon DEF Statuses, Results
    <2> QED
      BY <1>5, <2>2, <2>3, Zenon DEF Reap, ProcessTypeOK, ProcessLabels
  <1> QED
    BY <1>1, <1>2, <1>3, <1>4, <1>5, Zenon

\* A process that exits has a wait_status, and its semaphore is still down.
LEMMA Exiter ==
  ASSUME ProcInv, NEW p \in Procs, p # main, loc[p] \in {"user", "exit", "unref"}
  PROVE  wait_st[p] \in Statuses /\ wait_st[p].ref_count = 2 /\ (loc[p] # "unref" => wait_st[p].sema = 0)
  <1>1. wait_st[p] \in Statuses
    BY ProcTypes, Zenon DEF ProcInv, LiveInv
  <1> QED
    BY <1>1, NullAssumption, Zenon DEF ProcInv, StatusInv, Exited, Statuses

\* And so do the exit system call and process_exit.
LEMMA ExitTypes ==
  ASSUME ProcInv, NEW p \in Procs, ExitCall(p) \/ Killed(p) \/ ExitUp(p) \/ ExitUnref(p)
  PROVE  ProcessTypeOK'
  <1> USE ProcTypes DEF ProcInv, Goto, listVars, execVars
  <1>1. p # main /\ loc[p] \in {"user", "exit", "unref"}
    BY Zenon DEF ExitCall, Killed, ExitUp, ExitUnref, At, LiveInv
  <1>2. wait_st[p] \in Statuses /\ wait_st[p].ref_count = 2 /\ (loc[p] # "unref" => wait_st[p].sema = 0)
    BY <1>1, Exiter, Zenon
  <1>3. wait_st' \in [Procs -> Statuses \cup {NULL}]
    BY <1>2 DEF ExitCall, Killed, ExitUp, ExitUnref, At, Statuses
  <1>4. code' \in [Procs -> Codes \cup {-1}]
    BY DEF ExitCall, Killed, ExitUp, ExitUnref
  <1> QED
    BY <1>3, <1>4 DEF ExitCall, Killed, ExitUp, ExitUnref, ProcessTypeOK, ProcessLabels

-----------------------------------------------------------------------------
(* The handshake of process_execute and start_process.                     *)

\* Where a process is that takes part in no handshake.
Settled == {"user", "walk", "down", "reap", "exit", "unref", "dead"}

\* Every process stays where it is or moves among the settled places, and no
\* wait_status comes or goes.
Settles ==
  /\ \A q \in Procs : loc'[q] = loc[q] \/ (loc[q] \in Settled /\ loc'[q] \in Settled)
  /\ \A q \in Procs : wait_st'[q] = NULL <=> wait_st[q] = NULL

\* process_wait and process_exit leave the handshakes of the others alone.
LEMMA HandRests ==
  ASSUME HandInv, Settles, UNCHANGED <<parent, load_sema, success>>,
         \A q \in Procs : loc[q] \in Settled \/ kid'[q] = kid[q]
  PROVE  HandInv'
  <1> USE DEF HandInv, Settles, Settled
  <1>1. \A q \in Procs : Starting(q)' => Starting(q) /\ kid'[q] = kid[q]
    BY DEF Starting
  <1>2. \A q \in Procs : Loading(q)' <=> Loading(q)
    BY DEF Loading
  <1>3. \A q \in Procs : loc'[q] \in {"unborn", "load"} <=> loc[q] \in {"unborn", "load"}
    OBVIOUS
  <1>4. \A q \in Procs : Starting(q)' =>
          kid'[q] \in Procs /\ parent'[kid'[q]] = q /\ loc'[kid'[q]] # "unborn" /\ kid'[q] # main
    BY <1>1
  <1>5. \A q \in Procs : loc'[q] = "link" => ~Loading(kid[q])'
    <2> SUFFICES ASSUME NEW q \in Procs, loc'[q] = "link" PROVE ~Loading(kid[q])'
      BY Zenon
    <2>1. loc[q] = "link" /\ kid'[q] = kid[q] /\ kid[q] \in Procs
      BY <1>1, Zenon DEF Starting
    <2>2. loc'[kid'[q]] \notin {"unborn", "load", "loaded", "failed"}
      BY <2>1 DEF Loading
    <2> QED
      BY <2>2, Zenon DEF Loading
  <1>6. \A q \in Procs : loc'[q] \in {"unborn", "load"} => success'[q] = "unset" /\ wait_st'[q] = NULL
    BY <1>3, Zenon
  <1>7. \A q \in Procs : q # main /\ loc'[q] \notin {"unborn", "load"} =>
          success'[q] = IF wait_st'[q] # NULL THEN "yes" ELSE "no"
    BY <1>3
  <1>8. \A q \in Procs : Loading(q)' => load_sema'[q] = 0
    BY <1>2, Zenon
  <1> QED
    BY <1>4, <1>5, <1>6, <1>7, <1>8, Zenon

\* The parent and its child keep to the handshake.
LEMMA HandStep ==
  ASSUME ProcInv, NEW p \in Procs,
         process_execute(p) \/ LoadFail(p) \/ MallocFail(p) \/ LoadOk(p) \/ LoadDone(p)
         \/ ExecWake(p) \/ ExecReturn(p)
  PROVE  HandInv'
  <1> USE ProcTypes, ProcsAssumption DEF ProcInv, At, Goto, execVars, HandInv, Starting, Loading
  <1>1. ASSUME process_execute(p) PROVE HandInv'
    <2>1. PICK c \in Procs : /\ loc[c] = "unborn" /\ loc' = [loc EXCEPT ![p] = "exec", ![c] = "load"]
                             /\ kid' = [kid EXCEPT ![p] = c] /\ parent' = [parent EXCEPT ![c] = p]
      BY <1>1, Zenon DEF process_execute
    <2>2. c # p /\ c # main /\ loc[p] = "user" /\ UNCHANGED <<load_sema, success, wait_st>>
      BY <1>1, <2>1, Zenon DEF process_execute, LiveInv
    <2>3. \A q \in Procs : loc'[q] \in {"exec", "link"} =>
            kid'[q] \in Procs /\ parent'[kid'[q]] = q /\ loc'[kid'[q]] # "unborn" /\ kid'[q] # main
      BY <2>1, <2>2
    <2>4. \A q \in Procs : loc'[q] = "link" => loc'[kid'[q]] \notin {"unborn", "load", "loaded", "failed"}
      BY <2>1, <2>2
    <2> QED
      BY <2>1, <2>2, <2>3, <2>4
  <1>2. ASSUME LoadFail(p) \/ MallocFail(p) PROVE HandInv'
    BY <1>2 DEF LoadFail, MallocFail
  <1>3. ASSUME LoadOk(p) PROVE HandInv'
    <2>1. wait_st' = [wait_st EXCEPT ![p] = NewStatus] /\ NewStatus # NULL
      BY <1>3, NullAssumption DEF LoadOk, NewStatus, Statuses
    <2> QED
      BY <1>3, <2>1 DEF LoadOk
  <1>4. ASSUME LoadDone(p) PROVE HandInv'
    BY <1>4 DEF LoadDone
  <1>5. ASSUME ExecWake(p) PROVE HandInv'
    <2>1. kid[p] \in Procs /\ load_sema[kid[p]] # 0
      BY <1>5 DEF ExecWake
    <2>2. loc[kid[p]] \notin {"unborn", "load", "loaded", "failed"}
      BY <2>1, Zenon
    <2> QED
      BY <1>5, <2>1, <2>2 DEF ExecWake
  <1>6. ASSUME ExecReturn(p) PROVE HandInv'
    <2>1. kid[p] \in Procs /\ \A q \in Procs : q # p => kid'[q] = kid[q]
      BY <1>6 DEF ExecReturn
    <2> QED
      BY <1>6, <2>1 DEF ExecReturn
  <1> QED
    BY <1>1, <1>2, <1>3, <1>4, <1>5, <1>6, Zenon

\* process_wait and process_exit are steps among the settled places.
LEMMA SettledSteps ==
  ASSUME ProcInv, NEW p \in Procs,
         \/ WaitCall(p) \/ WalkEnd(p) \/ WalkNext(p) \/ WalkFault(p) \/ WaitDown(p) \/ Reap(p)
         \/ ExitCall(p) \/ Killed(p) \/ ExitUp(p) \/ ExitUnref(p)
  PROVE  /\ Settles /\ UNCHANGED <<parent, load_sema, success>>
         /\ \A q \in Procs : loc[q] \in Settled \/ kid'[q] = kid[q]
  <1> USE ProcTypes DEF ProcInv, At, Goto, execVars
  <1>1. \A q \in Procs : loc'[q] = loc[q] \/ (loc[q] \in Settled /\ loc'[q] \in Settled)
    BY DEF WaitCall, WalkEnd, WalkNext, WalkFault, WaitDown, Reap, ExitCall, Killed, ExitUp, ExitUnref, Settled
  <1>2. UNCHANGED <<parent, load_sema, success>> /\ \A q \in Procs : loc[q] \in Settled \/ kid'[q] = kid[q]
    BY DEF WaitCall, WalkEnd, WalkNext, WalkFault, WaitDown, Reap, ExitCall, Killed, ExitUp, ExitUnref, Settled
  <1>3. \A q \in Procs : wait_st'[q] = NULL <=> wait_st[q] = NULL
    <2>1. ASSUME WaitDown(p) PROVE \A q \in Procs : wait_st'[q] = NULL <=> wait_st[q] = NULL
      <3>1. target[p] \in Procs /\ wait_st[target[p]] \in Statuses
        BY <2>1, Zenon DEF WaitDown, WaitInv
      <3>2. [wait_st[target[p]] EXCEPT !.sema = @ - 1] \in Statuses
        BY <2>1, <3>1 DEF WaitDown, Statuses
      <3> QED
        BY <2>1, <3>1, <3>2, NullAssumption, Zenon DEF WaitDown
    <2>2. ASSUME ExitCall(p) \/ ExitUp(p) \/ ExitUnref(p)
          PROVE  \A q \in Procs : wait_st'[q] = NULL <=> wait_st[q] = NULL
      <3>1. wait_st[p] \in Statuses /\ wait_st[p].ref_count = 2 /\ (loc[p] # "unref" => wait_st[p].sema = 0)
        BY <2>2, Exiter, Zenon DEF ExitCall, ExitUp, ExitUnref, LiveInv
      <3>2. wait_st'[p] \in Statuses /\ \A q \in Procs : q # p => wait_st'[q] = wait_st[q]
        BY <2>2, <3>1 DEF ExitCall, ExitUp, ExitUnref, Statuses
      <3> QED
        BY <3>1, <3>2, NullAssumption, Zenon
    <2>3. ASSUME WaitCall(p) \/ WalkEnd(p) \/ WalkNext(p) \/ WalkFault(p) \/ Reap(p) \/ Killed(p)
          PROVE  wait_st' = wait_st
      BY <2>3, Zenon DEF WaitCall, WalkEnd, WalkNext, WalkFault, Reap, Killed
    <2> QED
      BY <2>1, <2>2, <2>3, Zenon
  <1> QED
    BY <1>1, <1>2, <1>3, Zenon DEF Settles

-----------------------------------------------------------------------------
(* The life of a process and of its wait_status.                           *)

\* A process gets its wait_status before it can exit, and keeps it.
LEMMA LiveStep ==
  ASSUME ProcInv, ProcessNext
  PROVE  LiveInv'
  <1> USE ProcTypes, ProcsAssumption DEF ProcInv, LiveInv, At, Goto
  <1>1. PICK p \in Procs : InKernel(p) \/ User(p)
    BY Zenon DEF ProcessNext
  <1>2. ASSUME process_execute(p) PROVE LiveInv'
    BY <1>2 DEF process_execute
  <1>3. ASSUME LoadFail(p) \/ MallocFail(p) \/ ExecWake(p) \/ ExecReturn(p) PROVE LiveInv'
    BY <1>3 DEF LoadFail, MallocFail, ExecWake, ExecReturn
  <1>4. ASSUME LoadOk(p) \/ LoadDone(p) PROVE LiveInv'
    BY <1>4, NullAssumption DEF LoadOk, LoadDone, NewStatus, Statuses, HandInv
  <1>5. ASSUME \/ WaitCall(p) \/ WalkEnd(p) \/ WalkNext(p) \/ WalkFault(p) \/ WaitDown(p) \/ Reap(p)
               \/ ExitCall(p) \/ Killed(p) \/ ExitUp(p) \/ ExitUnref(p)
        PROVE  LiveInv'
    <2>1. Settles
      BY <1>5, SettledSteps, Zenon
    <2>2. loc'[main] \in {"user", "exec", "link", "walk", "down", "reap"}
      BY <1>5, ProcsAssumption DEF WaitCall, WalkEnd, WalkNext, WalkFault, WaitDown, Reap, ExitCall, Killed, ExitUp, ExitUnref
    <2>3. \A q \in Procs : loc'[q] \notin {"unborn", "load", "failed", "dead"} => loc[q] \notin {"unborn", "load", "failed", "dead"}
      BY <1>5 DEF WaitCall, WalkEnd, WalkNext, WalkFault, WaitDown, Reap, ExitCall, Killed, ExitUp, ExitUnref
    <2> QED
      BY <2>1, <2>2, <2>3, ProcsAssumption, Zenon DEF Settles
  <1> QED
    BY <1>1, <1>2, <1>3, <1>4, <1>5, Zenon DEF InKernel, User

\* The wait_status says what its process has done.
LEMMA StatusStep ==
  ASSUME ProcInv, ProcessNext
  PROVE  StatusInv'
  <1> USE ProcTypes DEF ProcInv, StatusInv, At, Goto, Exited
  <1>1. PICK p \in Procs : InKernel(p) \/ User(p)
    BY Zenon DEF ProcessNext
  <1>2. ASSUME process_execute(p) PROVE StatusInv'
    BY <1>2 DEF process_execute, HandInv
  <1>3. ASSUME LoadFail(p) \/ MallocFail(p) \/ ExecWake(p) \/ ExecReturn(p) PROVE StatusInv'
    <2>1. CASE LoadFail(p) \/ MallocFail(p)
      BY <2>1 DEF LoadFail, MallocFail
    <2>2. CASE ExecWake(p) \/ ExecReturn(p)
      BY <2>2 DEF ExecWake, ExecReturn
    <2> QED
      BY <1>3, <2>1, <2>2, Zenon
  <1>4. ASSUME LoadOk(p) PROVE StatusInv'
    <2>1. code[p] = -1
      BY <1>4, Zenon DEF LoadOk, HandInv
    <2> QED
      BY <1>4, <2>1 DEF LoadOk, NewStatus
  <1>5. ASSUME LoadDone(p) PROVE StatusInv'
    BY <1>5 DEF LoadDone, HandInv, LiveInv
  <1>6. ASSUME WaitCall(p) \/ WalkEnd(p) \/ WalkNext(p) \/ WalkFault(p) \/ Reap(p) \/ Killed(p) PROVE StatusInv'
    <2>1. CASE WaitCall(p) \/ WalkEnd(p)
      BY <2>1 DEF WaitCall, WalkEnd
    <2>2. CASE WalkNext(p) \/ WalkFault(p)
      BY <2>2 DEF WalkNext, WalkFault
    <2>3. CASE Reap(p) \/ Killed(p)
      BY <2>3 DEF Reap, Killed
    <2> QED
      BY <1>6, <2>1, <2>2, <2>3, Zenon
  <1>7. ASSUME WaitDown(p) PROVE StatusInv'
    <2>1. target[p] \in Procs /\ wait_st[target[p]] \in Statuses
      BY <1>7 DEF WaitDown, WaitInv
    <2> QED
      BY <1>7, <2>1, NullAssumption DEF WaitDown, Statuses
  <1>8. ASSUME ExitCall(p) \/ ExitUp(p) \/ ExitUnref(p) PROVE StatusInv'
    <2>1. wait_st[p] \in Statuses /\ wait_st[p].ref_count = 2 /\ (loc[p] # "unref" => wait_st[p].sema = 0)
      BY <1>8, Exiter, Zenon DEF ExitCall, ExitUp, ExitUnref, LiveInv
    <2> QED
      <3>1. CASE ExitCall(p)
        BY <2>1, <3>1, NullAssumption DEF ExitCall, Statuses
      <3>2. CASE ExitUp(p)
        BY <2>1, <3>2, NullAssumption DEF ExitUp, Statuses
      <3>3. CASE ExitUnref(p)
        BY <2>1, <3>3, NullAssumption DEF ExitUnref, Statuses
      <3> QED
        BY <1>8, <3>1, <3>2, <3>3, Zenon
  <1> QED
    BY <1>1, <1>2, <1>3, <1>4, <1>5, <1>6, <1>7, <1>8, Zenon DEF InKernel, User

\* The pointers of the lists follow the wait_statuses.
LEMMA LinkStep ==
  ASSUME ProcInv, ProcessNext
  PROVE  LinkInv'
  <1> USE ProcTypes DEF ProcInv, At, Goto
  <1>1. PICK p \in Procs : InKernel(p) \/ User(p)
    BY Zenon DEF ProcessNext
  <1>2. ASSUME process_execute(p) \/ LoadFail(p) \/ MallocFail(p) \/ LoadDone(p) \/ ExecWake(p) PROVE LinkInv'
    BY <1>2, ListsRest, Zenon DEF process_execute, LoadFail, MallocFail, LoadDone, ExecWake
  <1>3. ASSUME LoadOk(p) PROVE LinkInv'
    <2>1. wait_st'[p] # NULL /\ \A d \in Procs \ {p} : wait_st'[d] = NULL <=> wait_st[d] = NULL
      BY <1>3, NullAssumption DEF LoadOk, NewStatus, Statuses
    <2> QED
      BY <1>3, <2>1, PushLinks, Zenon DEF LoadOk
  <1>4. ASSUME ExecReturn(p) PROVE LinkInv'
    <2>1. kid[p] \in Procs /\ wait_st' = wait_st /\ (success[kid[p]] # "no" => wait_st[kid[p]] # NULL)
      BY <1>4, Zenon DEF ExecReturn, HandInv, Starting, Loading
    <2>2. CASE success[kid[p]] = "no"
      BY <1>4, <2>1, <2>2, ListsRest, Zenon DEF ExecReturn
    <2>3. CASE success[kid[p]] # "no"
      <3>1. list_push_back(p, ElemOf(kid[p])) /\ wait_st'[kid[p]] # NULL
        BY <1>4, <2>1, <2>3, Zenon DEF ExecReturn
      <3>2. ASSUME NEW c \in Procs, c = kid[p] PROVE LinkInv'
        BY <2>1, <3>1, <3>2, PushLinks, Zenon
      <3> QED
        BY <2>1, <3>2, Zenon
    <2> QED
      BY <2>2, <2>3, Zenon
  <1>5. ASSUME Reap(p) PROVE LinkInv'
    <2>1. target[p] \in Procs /\ wait_st[target[p]] # NULL
      BY <1>5, Zenon DEF Reap, WaitInv
    <2>2. ASSUME NEW c \in Procs, c = target[p] PROVE LinkInv'
      BY <1>5, <2>1, <2>2, RemoveLinks, Zenon DEF Reap
    <2> QED
      BY <2>1, <2>2, Zenon
  <1>6. ASSUME \/ WaitCall(p) \/ WalkEnd(p) \/ WalkNext(p) \/ WalkFault(p) \/ WaitDown(p)
               \/ ExitCall(p) \/ Killed(p) \/ ExitUp(p) \/ ExitUnref(p)
        PROVE  LinkInv'
    <2>1. Settles
      BY <1>6, SettledSteps, Zenon
    <2>2. UNCHANGED listVars
      BY <1>6, Zenon DEF WaitCall, WalkEnd, WalkNext, WalkFault, WaitDown, ExitCall, Killed, ExitUp, ExitUnref
    <2> QED
      BY <2>1, <2>2, ListsRest, Zenon DEF Settles
  <1> QED
    BY <1>1, <1>2, <1>3, <1>4, <1>5, <1>6, Zenon DEF InKernel, User

-----------------------------------------------------------------------------
(* process_wait.                                                           *)

\* process_wait blocks on a wait_status only.
LEMMA WaitStep ==
  ASSUME ProcInv, ProcessNext
  PROVE  WaitInv'
  <1> USE ProcTypes DEF ProcInv, WaitInv, At, Goto, execVars
  <1>1. PICK p \in Procs : InKernel(p) \/ User(p)
    BY Zenon DEF ProcessNext
  <1>2. ASSUME process_execute(p) \/ LoadFail(p) \/ MallocFail(p) \/ LoadDone(p) \/ ExecWake(p) \/ ExecReturn(p)
        PROVE  WaitInv'
    <2>1. CASE process_execute(p) \/ LoadFail(p) \/ MallocFail(p)
      BY <2>1 DEF process_execute, LoadFail, MallocFail
    <2>2. CASE LoadDone(p) \/ ExecWake(p) \/ ExecReturn(p)
      BY <2>2 DEF LoadDone, ExecWake, ExecReturn
    <2> QED
      BY <1>2, <2>1, <2>2, Zenon
  <1>3. ASSUME LoadOk(p) PROVE WaitInv'
    BY <1>3, NullAssumption DEF LoadOk, NewStatus, Statuses
  <1>4. ASSUME WaitCall(p) PROVE WaitInv'
    <2>1. next[HeadOf(p)] # NULL
      BY Zenon DEF LinkInv
    <2> QED
      BY <1>4, <2>1 DEF WaitCall
  <1>5. ASSUME WalkEnd(p) \/ WalkFault(p) \/ Reap(p) \/ Killed(p) PROVE WaitInv'
    <2>1. CASE WalkEnd(p) \/ WalkFault(p)
      BY <2>1 DEF WalkEnd, WalkFault
    <2>2. CASE Reap(p)
      BY <2>2 DEF Reap
    <2>3. CASE Killed(p)
      BY <2>3 DEF Killed
    <2> QED
      BY <1>5, <2>1, <2>2, <2>3, Zenon
  <1>6. ASSUME WalkNext(p) PROVE WaitInv'
    <2>1. cur[p] \in Nodes /\ next[cur[p]] # NULL
      BY <1>6 DEF WalkNext, is_head, is_interior
    <2>2. cur[p] = ElemOf(target[p]) => target[p] \in Procs /\ wait_st[target[p]] # NULL
      BY <2>1, NodeFacts DEF LinkInv
    <2> QED
      BY <1>6, <2>1, <2>2 DEF WalkNext
  <1>7. ASSUME WaitDown(p) \/ ExitCall(p) \/ ExitUp(p) \/ ExitUnref(p) PROVE WaitInv'
    <2>1. Settles
      BY <1>7, SettledSteps, Zenon
    <2>2. target' = target /\ cur' = cur
      BY <1>7, Zenon DEF WaitDown, ExitCall, ExitUp, ExitUnref
    <2>3. \A q \in Procs : /\ loc'[q] = "walk" => loc[q] = "walk"
                           /\ loc'[q] \in {"down", "reap"} => loc[q] \in {"down", "reap"}
      BY <1>7 DEF WaitDown, ExitCall, ExitUp, ExitUnref
    <2> QED
      BY <2>1, <2>2, <2>3, Zenon DEF Settles
  <1> QED
    BY <1>1, <1>2, <1>3, <1>4, <1>5, <1>6, <1>7, Zenon DEF InKernel, User

\* Nobody takes an exit, and what is taken stays as it is.
Untaken ==
  /\ \A p \in Procs : loc'[p] = "reap" => loc[p] = "reap" /\ target'[p] = target[p]
  /\ \A p \in Procs : result'[p] \in {NULL, result[p]}
  /\ \A c \in Procs : Exited(c) => /\ loc'[c] \in {"unref", "dead"} /\ code'[c] = code[c]
                                   /\ wait_st[c] # NULL => wait_st'[c] # NULL /\ wait_st'[c].sema = wait_st[c].sema

\* Then every exit is taken as it was before.
LEMMA TakenRests ==
  ASSUME ProcInv, Untaken
  PROVE  TakenInv'
  <1> USE DEF ProcInv, TakenInv
  <1>1. \A p, c \in Procs : Takes(p, c)' => Takes(p, c)
    BY Zenon DEF Takes, Untaken
  <1>2. \A p, c \in Procs : Takes(p, c)' => Exited(c)' /\ wait_st'[c] # NULL /\ wait_st'[c].sema = 0
    <2> SUFFICES ASSUME NEW p \in Procs, NEW c \in Procs, Takes(p, c)
                 PROVE  Exited(c)' /\ wait_st'[c] # NULL /\ wait_st'[c].sema = 0
      BY <1>1, Zenon
    <2>1. Exited(c) /\ wait_st[c] # NULL /\ wait_st[c].sema = 0
      BY Zenon
    <2> QED
      BY <2>1, Zenon DEF Untaken, Exited
  <1>3. \A p, q, c \in Procs : Takes(p, c)' /\ Takes(q, c)' => p = q
    BY <1>1, Zenon
  <1>4. \A p \in Procs : result'[p] # NULL => result'[p][2] = code'[result'[p][1]]
    <2> SUFFICES ASSUME NEW p \in Procs, result'[p] # NULL PROVE result'[p][2] = code'[result'[p][1]]
      BY Zenon
    <2>1. result'[p] = result[p] /\ result[p] # NULL /\ result[p][1] \in Procs
      BY ProcTypes DEF Untaken, Results
    <2>2. Exited(result[p][1])
      BY <2>1, Zenon DEF Takes
    <2> QED
      BY <2>1, <2>2 DEF Untaken
  <1> QED
    BY <1>2, <1>3, <1>4, Zenon

\* An exit is taken by the process_wait that comes out of its semaphore.
LEMMA TakenStep ==
  ASSUME ProcInv, ProcessNext
  PROVE  TakenInv'
  <1> USE ProcTypes DEF ProcInv, At, Goto, execVars
  <1>1. PICK p \in Procs : InKernel(p) \/ User(p)
    BY Zenon DEF ProcessNext
  <1>2. ASSUME \/ process_execute(p) \/ LoadFail(p) \/ MallocFail(p) \/ LoadDone(p) \/ ExecWake(p) \/ ExecReturn(p)
               \/ WaitCall(p) \/ WalkEnd(p) \/ WalkNext(p) \/ WalkFault(p) \/ Killed(p)
        PROVE  Untaken
    <2>1. CASE process_execute(p) \/ LoadFail(p)
      BY <2>1 DEF process_execute, LoadFail, Untaken, Exited
    <2>2. CASE MallocFail(p) \/ LoadDone(p)
      BY <2>2, Zenon DEF MallocFail, LoadDone, Untaken, Exited
    <2>3. CASE ExecWake(p) \/ ExecReturn(p)
      BY <2>3, Zenon DEF ExecWake, ExecReturn, Untaken, Exited
    <2>4. CASE WaitCall(p) \/ WalkEnd(p)
      BY <2>4 DEF WaitCall, WalkEnd, Untaken, Exited
    <2>5. CASE WalkNext(p) \/ WalkFault(p)
      BY <2>5, Zenon DEF WalkNext, WalkFault, Untaken, Exited
    <2>6. CASE Killed(p)
      BY <2>6, Zenon DEF Killed, Untaken, Exited
    <2> QED
      BY <1>2, <2>1, <2>2, <2>3, <2>4, <2>5, <2>6, Zenon
  <1>3. ASSUME LoadOk(p) PROVE Untaken
    BY <1>3, Zenon DEF LoadOk, Untaken, Exited
  <1>4. ASSUME ExitCall(p) \/ ExitUp(p) \/ ExitUnref(p) PROVE Untaken
    <2>1. wait_st[p] \in Statuses
      BY <1>4, Exiter, Zenon DEF ExitCall, ExitUp, ExitUnref, LiveInv
    <2>2. /\ loc'[p] \in {"exit", "unref", "dead"} /\ \A q \in Procs : q # p => loc'[q] = loc[q]
          /\ loc[p] \in {"user", "exit", "unref"} /\ (loc[p] = "unref" => loc'[p] = "dead")
          /\ target' = target /\ \A q \in Procs : result'[q] \in {NULL, result[q]}
      BY <1>4 DEF ExitCall, ExitUp, ExitUnref
    <2>3. \A q \in Procs : q # p => code'[q] = code[q] /\ wait_st'[q] = wait_st[q]
      BY <1>4 DEF ExitCall, ExitUp, ExitUnref
    <2>4. loc[p] = "unref" => /\ code'[p] = code[p] /\ wait_st'[p] # NULL
                              /\ wait_st'[p].sema = wait_st[p].sema
      <3> SUFFICES ASSUME loc[p] = "unref"
                   PROVE  code'[p] = code[p] /\ wait_st'[p] # NULL /\ wait_st'[p].sema = wait_st[p].sema
        BY Zenon
      <3>1. ExitUnref(p)
        BY <1>4, Zenon DEF ExitCall, ExitUp
      <3>2. wait_st'[p] = [wait_st[p] EXCEPT !.ref_count = @ - 1]
        BY <3>1, Zenon DEF ExitUnref
      <3>3. wait_st'[p] # NULL
        BY <3>1, <1>4, SettledSteps, <2>1, NullAssumption, Zenon DEF Settles
      <3> QED
        BY <2>1, <3>1, <3>2, <3>3, Zenon DEF ExitUnref, Statuses
    <2> QED
      BY <2>2, <2>3, <2>4, Zenon DEF Untaken, Exited
  <1>5. ASSUME WaitDown(p) PROVE TakenInv'
    <2> DEFINE t == target[p]
    <2>1. t \in Procs /\ wait_st[t] \in Statuses /\ wait_st[t].sema = 1 /\ Exited(t)
      BY <1>5, NullAssumption DEF WaitDown, WaitInv, StatusInv, Statuses
    <2>2. /\ wait_st' = [wait_st EXCEPT ![t].sema = @ - 1] /\ loc' = [loc EXCEPT ![p] = "reap"] /\ loc[p] = "down"
          /\ target' = target /\ result' = result /\ code' = code
      BY <1>5, Zenon DEF WaitDown
    <2>3. wait_st'[t] # NULL /\ wait_st'[t].sema = 0 /\ \A c \in Procs : c # t => wait_st'[c] = wait_st[c]
      <3>1. wait_st'[t] # NULL
        BY <1>5, SettledSteps, <2>1, NullAssumption, Zenon DEF Settles
      <3> QED
        BY <2>1, <2>2, <3>1 DEF Statuses
    <2> HIDE DEF t
    <2>4. \A q \in Procs : ~Takes(q, t)
      BY <2>1 DEF TakenInv
    <2>5. \A q, c \in Procs : Takes(q, c)' => Takes(q, c) \/ (q = p /\ c = t)
      BY <2>2, Zenon DEF Takes, t
    <2>6. \A c \in Procs : Exited(c)' <=> Exited(c)
      BY <2>2, Zenon DEF Exited
    <2>7. \A q, c \in Procs : Takes(q, c)' => Exited(c)' /\ wait_st'[c] # NULL /\ wait_st'[c].sema = 0
      <3>1. \A q, c \in Procs : Takes(q, c) => Exited(c) /\ wait_st[c] # NULL /\ wait_st[c].sema = 0 /\ c # t
        BY <2>4, Zenon DEF TakenInv
      <3> QED
        BY <2>1, <2>3, <2>5, <2>6, <3>1
    <2>8. \A q, r, c \in Procs : Takes(q, c)' /\ Takes(r, c)' => q = r
      BY <2>4, <2>5 DEF TakenInv
    <2> QED
      BY <2>2, <2>7, <2>8, Zenon DEF TakenInv
  <1>6. ASSUME Reap(p) PROVE TakenInv'
    <2> DEFINE t == target[p]
    <2>1. t \in Procs /\ wait_st[t] # NULL /\ Takes(p, t) /\ wait_st[t].exit_code = code[t]
      BY <1>6, Zenon DEF Reap, WaitInv, StatusInv, Takes
    <2>2. /\ result' = [result EXCEPT ![p] = <<t, wait_st[t].exit_code>>] /\ target' = [target EXCEPT ![p] = NULL]
          /\ loc' = [loc EXCEPT ![p] = "user"] /\ loc[p] = "reap" /\ wait_st' = wait_st /\ code' = code
      BY <1>6, Zenon DEF Reap
    <2> HIDE DEF t
    <2>3. \A q, c \in Procs : Takes(q, c)' => Takes(q, c)
      BY <2>1, <2>2 DEF Takes
    <2>4. \A c \in Procs : Exited(c)' <=> Exited(c)
      BY <2>2, Zenon DEF Exited
    <2>5. \A q, c \in Procs : Takes(q, c)' => Exited(c)' /\ wait_st'[c] # NULL /\ wait_st'[c].sema = 0
      BY <2>2, <2>3, <2>4, Zenon DEF TakenInv
    <2>6. \A q, r, c \in Procs : Takes(q, c)' /\ Takes(r, c)' => q = r
      BY <2>3, Zenon DEF TakenInv
    <2>7. \A q \in Procs : result'[q] # NULL => result'[q][2] = code'[result'[q][1]]
      BY <2>1, <2>2, Zenon DEF TakenInv
    <2> QED
      BY <2>5, <2>6, <2>7, Zenon DEF TakenInv
  <1> QED
    BY <1>1, <1>2, <1>3, <1>4, <1>5, <1>6, TakenRests, Zenon DEF InKernel, User

-----------------------------------------------------------------------------
(* The theorems.                                                           *)

\* The kernel starts with its initial thread only and empty lists.
LEMMA ProcBegin ==
  ASSUME ProcessInit
  PROVE  ProcInv
  <1> USE ProcsAssumption
  <1>1. /\ \A p \in Procs : next[HeadOf(p)] = TailOf(p) /\ next[ElemOf(p)] = NULL
        /\ \A e \in Nodes : (next[e] = NULL \/ \E q \in Procs : next[e] = TailOf(q))
                            /\ (prev[e] = NULL \/ \E q \in Procs : prev[e] = HeadOf(q))
    BY Zenon DEF ProcessInit, Nodes, HeadOf, TailOf, ElemOf
  <1>2. next \in [Nodes -> Nodes \cup {NULL}] /\ prev \in [Nodes -> Nodes \cup {NULL}]
    BY Zenon DEF ProcessInit, Nodes, HeadOf, TailOf
  <1>3. ProcessTypeOK
    BY <1>2 DEF ProcessInit, ProcessTypeOK, ProcessLabels, Tids
  <1>4. HandInv /\ LiveInv /\ StatusInv /\ WaitInv
    BY Zenon DEF ProcessInit, HandInv, LiveInv, StatusInv, WaitInv, Starting, Loading
  <1>5. LinkInv
    <2>1. \A p \in Procs : next[HeadOf(p)] # NULL
      <3>1. \A p \in Procs : TailOf(p) # NULL
        BY NodeFacts
      <3> QED
        BY <1>1, <3>1, Zenon
    <2>2. \A c \in Procs : \A e \in Nodes : next[e] # ElemOf(c) /\ prev[e] # ElemOf(c)
      BY <1>1, NodeFacts
    <2>3. \A c \in Procs : next[ElemOf(c)] = NULL /\ wait_st[c] = NULL
      BY <1>1, Zenon DEF ProcessInit
    <2> QED
      BY <2>1, <2>2, <2>3, Zenon DEF LinkInv
  <1>6. TakenInv
    BY Zenon DEF ProcessInit, TakenInv, Takes
  <1> QED
    BY <1>3, <1>4, <1>5, <1>6, Zenon DEF ProcInv

\* Every step of a process keeps the invariant.
LEMMA ProcStep ==
  ASSUME ProcInv, [ProcessNext]_process_vars
  PROVE  ProcInv'
  <1>1. CASE UNCHANGED process_vars
    <2> USE <1>1 DEF process_vars, listVars, execVars, ProcInv
    <2>1. ProcessTypeOK' /\ LiveInv'
      BY Zenon DEF ProcessTypeOK, LiveInv
    <2>2. HandInv'
      BY Zenon DEF HandInv, Starting, Loading
    <2>3. StatusInv' /\ WaitInv'
      BY Zenon DEF StatusInv, WaitInv, Exited
    <2>4. LinkInv'
      BY Zenon DEF LinkInv
    <2>5. TakenInv'
      BY DEF TakenInv, Takes, Exited
    <2> QED
      BY <2>1, <2>2, <2>3, <2>4, <2>5, Zenon
  <1>2. CASE ProcessNext
    <2>1. PICK p \in Procs : InKernel(p) \/ User(p)
      BY <1>2, Zenon DEF ProcessNext
    <2>2. ProcessTypeOK'
      BY <2>1, ExecTypes, WaitTypes, ExitTypes, Zenon DEF InKernel, User
    <2>3. HandInv'
      BY <2>1, HandStep, SettledSteps, HandRests, Zenon DEF InKernel, User, ProcInv
    <2> QED
      BY <1>2, <2>2, <2>3, LiveStep, StatusStep, LinkStep, WaitStep, TakenStep, Zenon DEF ProcInv
  <1> QED
    BY <1>1, <1>2, Zenon

\* process_execute looks at the child's exec_info, which is on its own stack,
\* when the child has stored its verdict there and is through with it.
THEOREM HandshakeAlwaysHolds == ProcessSpec => []ExecHandshake
  <1>1. ProcInv => ExecHandshake
    BY Zenon DEF ProcInv, HandInv, ExecHandshake, Starting, Loading
  <1> QED
    BY <1>1, ProcBegin, ProcStep, PTL DEF ProcessSpec

\* process_wait returns the status its child exited with, after the exit, and
\* no other process_wait returns it too.
THEOREM WaitAlwaysDelivers == ProcessSpec => []WaitDelivers
  <1>1. ProcInv => WaitDelivers
    <2> SUFFICES ASSUME ProcInv PROVE WaitDelivers
      BY Zenon
    <2>1. \A p \in Procs : result[p] # NULL => result[p][1] \in Procs /\ Takes(p, result[p][1])
      BY ProcTypes, Zenon DEF ProcInv, Takes, Results
    <2>2. ExitCodeDelivered /\ ReapedOnce
      BY <2>1, Zenon DEF ProcInv, TakenInv, ExitCodeDelivered, ReapedOnce
    <2> QED
      BY <2>2, Zenon DEF ProcInv, WaitDelivers
  <1> QED
    BY <1>1, ProcBegin, ProcStep, PTL DEF ProcessSpec

=============================================================================
