------------------------------- MODULE Process -------------------------------
(***************************************************************************)
(* Processes of userprog/process.c: process_execute with its load          *)
(* handshake, start_process, process_wait and process_exit, called from    *)
(* the exec, wait and exit system calls and from run_task.                 *)
(*                                                                         *)
(* A tid is the process itself.  The children lists are kept as the        *)
(* pointers of lib/kernel/list.c, because one list element, the elem of a  *)
(* wait_status, is linked into two of them.  A list operation is one step; *)
(* the walk in try_get_wait_st is a step per element.  A struct thread,    *)
(* with the head and tail of its list, is gone once its process is dead;   *)
(* a wait_status is never freed.                                           *)
(***************************************************************************)
EXTENDS Integers, FiniteSets

CONSTANTS
  Procs,      \* the tids of the threads that come into being
  main,       \* the kernel's initial thread
  NULL,
  Codes,      \* what a program may pass to exit
  OwnOnly     \* TRUE: programs wait only for processes they started

ASSUME ProcsAssumption ==
  Procs \subseteq Nat /\ main \in Procs /\ NULL \notin Procs \cup {-1}
ASSUME CodesAssumption == Codes \subseteq Nat
ASSUME OwnOnlyAssumption == OwnOnly \in BOOLEAN

HeadOf(p) == <<"head", p>>
TailOf(p) == <<"tail", p>>
ElemOf(p) == <<"elem", p>>
Nodes == {"head", "tail", "elem"} \X Procs

\* struct wait_status, and what process_wait returns for a child.
Statuses == [ref_count : 1 .. 2, exit_code : Codes \cup {-1}, sema : 0 .. 1]
Results == Procs \X (Codes \cup {-1})

\* The null pointer points to none of them.
ASSUME NullAssumption == NULL \notin Nodes /\ NULL \notin Statuses /\ NULL \notin Results

TID_ERROR == -1
Tids == Procs \cup {TID_ERROR}
ProcessLabels == {"unborn", "load", "link", "failed", "loaded", "user", "exec", "walk",
           "down", "reap", "exit", "unref", "dead"}

VARIABLES
  next, prev,         \* the list pointers of every node
  loc,
  kid,                \* the child process_execute is starting
  parent,             \* who started a process
  load_sema, success, \* the child's exec_info, on its parent's stack
  freed,              \* whether the page with the child's command line was freed
  wait_st,            \* the child's wait_status, or NULL
  target, cur,        \* process_wait: the tid asked for and the cursor
  result,             \* what the last process_wait returned, if it found a child
  code,               \* the exit status a process should have
  fault               \* "assert": list_next was called on a tail; "stale": freed
                      \* memory was used; "free": a page was freed twice

listVars == <<next, prev>>
execVars == <<kid, parent, load_sema, success, freed>>
process_vars == <<listVars, loc, execVars, wait_st, target, cur, result, code, fault>>

-----------------------------------------------------------------------------
(* lib/kernel/list.c.                                                      *)

is_interior(e) == prev[e] # NULL /\ next[e] # NULL
is_head(e)     == prev[e] = NULL /\ next[e] # NULL
is_tail(e)     == prev[e] # NULL /\ next[e] = NULL

\* The struct thread that node e lies in has been freed.
Stale(e) == e[1] \in {"head", "tail"} /\ loc[e[2]] = "dead"

\* list_push_back: list_insert before the tail.
list_push_back(p, e) ==
  LET last == prev[TailOf(p)]
  IN  /\ next' = [next EXCEPT ![e] = TailOf(p), ![last] = e]
      /\ prev' = [prev EXCEPT ![e] = last, ![TailOf(p)] = e]
      /\ fault' = IF Stale(last) THEN "stale" ELSE fault

list_remove(e) ==
  /\ next' = [next EXCEPT ![prev[e]] = next[e]]
  /\ prev' = [prev EXCEPT ![next[e]] = prev[e]]
  /\ fault' = IF Stale(prev[e]) \/ Stale(next[e]) THEN "stale" ELSE fault

-----------------------------------------------------------------------------
NewStatus == [ref_count |-> 2, exit_code |-> -1, sema |-> 0]

ProcessInit ==
  /\ next = [e \in Nodes |-> IF e[1] = "head" THEN TailOf(e[2]) ELSE NULL]
  /\ prev = [e \in Nodes |-> IF e[1] = "tail" THEN HeadOf(e[2]) ELSE NULL]
  /\ loc = [p \in Procs |-> IF p = main THEN "user" ELSE "unborn"]
  /\ kid = [p \in Procs |-> NULL]
  /\ parent = [p \in Procs |-> NULL]
  /\ load_sema = [p \in Procs |-> 0]
  /\ success = [p \in Procs |-> "unset"]
  /\ freed = [p \in Procs |-> FALSE]
  /\ wait_st = [p \in Procs |-> NULL]
  /\ target = [p \in Procs |-> NULL]
  /\ cur = [p \in Procs |-> NULL]
  /\ result = [p \in Procs |-> NULL]
  /\ code = [p \in Procs |-> -1]
  /\ fault = "none"

At(p, l) == fault = "none" /\ loc[p] = l
Goto(p, l) == loc' = [loc EXCEPT ![p] = l]

-----------------------------------------------------------------------------
(* process_execute and start_process.                                      *)

\* process_execute up to its sema_down.  When thread_create or the page
\* allocation fails it returns at once and nothing has changed.
process_execute(p) ==
  /\ At(p, "user") /\ kid[p] = NULL
  /\ \E c \in Procs :
       /\ loc[c] = "unborn" /\ \A d \in Procs : loc[d] = "unborn" => c <= d
       /\ loc' = [loc EXCEPT ![p] = "exec", ![c] = "load"]
       /\ kid' = [kid EXCEPT ![p] = c]
       /\ parent' = [parent EXCEPT ![c] = p]
  /\ result' = [result EXCEPT ![p] = NULL]
  /\ UNCHANGED <<listVars, load_sema, success, freed, wait_st, target, cur,
                 code, fault>>

\* Wrong: the failure is not recorded.
LoadFailUnset(c) ==
  /\ At(c, "load")
  /\ Goto(c, "failed")
  /\ UNCHANGED <<listVars, execVars, wait_st, target, cur, result, code, fault>>

\* load () failed.
LoadFail(c) ==
  /\ At(c, "load")
  /\ success' = [success EXCEPT ![c] = "no"]
  /\ Goto(c, "failed")
  /\ UNCHANGED <<listVars, kid, parent, load_sema, freed, wait_st, target, cur,
                 result, code, fault>>

\* load () succeeded and malloc did not: the page is freed all the same.
MallocFail(c) ==
  /\ At(c, "load")
  /\ freed' = [freed EXCEPT ![c] = TRUE]
  /\ success' = [success EXCEPT ![c] = "no"]
  /\ Goto(c, "failed")
  /\ UNCHANGED <<listVars, kid, parent, load_sema, wait_st, target, cur, result,
                 code, fault>>

\* load () and malloc succeeded; the new wait_status goes onto the child's
\* own list of children.
LoadOk(c) ==
  /\ At(c, "load")
  /\ wait_st' = [wait_st EXCEPT ![c] = NewStatus]
  /\ list_push_back(c, ElemOf(c))
  /\ freed' = [freed EXCEPT ![c] = TRUE]
  /\ success' = [success EXCEPT ![c] = "yes"]
  /\ Goto(c, "loaded")
  /\ UNCHANGED <<kid, parent, load_sema, target, cur, result, code>>

\* Wrong: a child that could not be loaded exits without waking its parent.
LoadDoneSilent(c) ==
  /\ At(c, "loaded") \/ At(c, "failed")
  /\ load_sema' = [load_sema EXCEPT ![c] = IF loc[c] = "loaded" THEN @ + 1 ELSE @]
  /\ Goto(c, IF loc[c] = "loaded" THEN "user" ELSE "dead")
  /\ UNCHANGED <<listVars, kid, parent, success, freed, wait_st, target, cur,
                 result, code, fault>>

\* sema_up (&exec_inf->load_sema), the child's last use of exec_inf.
LoadDone(c) ==
  /\ At(c, "loaded") \/ At(c, "failed")
  /\ load_sema' = [load_sema EXCEPT ![c] = @ + 1]
  /\ Goto(c, IF loc[c] = "loaded" THEN "user" ELSE "dead")
  /\ UNCHANGED <<listVars, kid, parent, success, freed, wait_st, target, cur,
                 result, code, fault>>

\* The parent comes out of sema_down ...
ExecWake(p) ==
  /\ At(p, "exec") /\ load_sema[kid[p]] > 0
  /\ load_sema' = [load_sema EXCEPT ![kid[p]] = @ - 1]
  /\ Goto(p, "link")
  /\ UNCHANGED <<listVars, kid, parent, success, freed, wait_st, target, cur,
                 result, code, fault>>

\* ... and returns the tid, or TID_ERROR after freeing the page, which the
\* child has freed already if it was malloc that failed.  run_task passes
\* what it gets to process_wait.
ExecReturn(p) ==
  /\ At(p, "link")
  /\ IF success[kid[p]] = "no"
       THEN /\ freed' = [freed EXCEPT ![kid[p]] = TRUE]
            /\ fault' = IF freed[kid[p]] THEN "free" ELSE fault
            /\ kid' = [kid EXCEPT ![p] = IF p = main THEN TID_ERROR ELSE NULL]
            /\ UNCHANGED listVars
       ELSE /\ list_push_back(p, ElemOf(kid[p]))
            /\ kid' = [kid EXCEPT ![p] = IF p = main THEN @ ELSE NULL]
            /\ UNCHANGED freed
  /\ Goto(p, "user")
  /\ UNCHANGED <<parent, load_sema, success, wait_st, target, cur, result, code>>

-----------------------------------------------------------------------------
(* process_wait.                                                           *)

\* What is passed to process_wait: by run_task what it got from
\* process_execute, by a program any tid.
WaitTids(p) ==
  IF p = main THEN {kid[main]} \ {NULL}
  ELSE {t \in Tids : OwnOnly => t \in Procs /\ parent[t] = p /\ success[t] = "yes"}

WaitCall(p) ==
  /\ At(p, "user")
  /\ \E t \in WaitTids(p) : target' = [target EXCEPT ![p] = t]
  /\ kid' = [kid EXCEPT ![p] = NULL]
  /\ cur' = [cur EXCEPT ![p] = next[HeadOf(p)]]
  /\ result' = [result EXCEPT ![p] = NULL]
  /\ Goto(p, "walk")
  /\ UNCHANGED <<listVars, parent, load_sema, success, freed, wait_st, code, fault>>

\* The loop of try_get_wait_st.  It calls list_next on an element before it
\* looks at the element's tid.
WalkEnd(p) ==
  /\ At(p, "walk") /\ cur[p] = TailOf(p)
  /\ cur' = [cur EXCEPT ![p] = NULL]
  /\ target' = [target EXCEPT ![p] = NULL]
  /\ Goto(p, "user")
  /\ UNCHANGED <<listVars, execVars, wait_st, result, code, fault>>

WalkNext(p) ==
  /\ At(p, "walk") /\ cur[p] # TailOf(p)
  /\ ~Stale(cur[p]) /\ (is_head(cur[p]) \/ is_interior(cur[p]))
  /\ IF cur[p] = ElemOf(target[p])
       THEN Goto(p, "down") /\ cur' = [cur EXCEPT ![p] = NULL]
       ELSE cur' = [cur EXCEPT ![p] = next[cur[p]]] /\ UNCHANGED loc
  /\ UNCHANGED <<listVars, execVars, wait_st, target, result, code, fault>>

WalkFault(p) ==
  /\ At(p, "walk") /\ cur[p] # TailOf(p)
  /\ \/ Stale(cur[p]) /\ fault' = "stale"
     \/ ~Stale(cur[p]) /\ is_tail(cur[p]) /\ fault' = "assert"
  /\ UNCHANGED <<listVars, execVars, loc, wait_st, target, cur, result, code>>

\* sema_down (&child_wait_st->sema)
WaitDown(p) ==
  /\ At(p, "down") /\ wait_st[target[p]].sema > 0
  /\ wait_st' = [wait_st EXCEPT ![target[p]].sema = @ - 1]
  /\ Goto(p, "reap")
  /\ UNCHANGED <<listVars, execVars, target, cur, result, code, fault>>

\* The rest of process_wait.
Reap(p) ==
  /\ At(p, "reap")
  /\ list_remove(ElemOf(target[p]))
  /\ result' = [result EXCEPT ![p] = <<target[p], wait_st[target[p]].exit_code>>]
  /\ target' = [target EXCEPT ![p] = NULL]
  /\ Goto(p, "user")
  /\ UNCHANGED <<execVars, wait_st, cur, code>>

-----------------------------------------------------------------------------
(* The exit system call, exceptions, process_exit.                         *)

\* Wrong: the status is not stored in the wait_status.
ExitCallForgets(p) ==
  /\ At(p, "user") /\ p # main
  /\ \E k \in Codes : code' = [code EXCEPT ![p] = k]
  /\ result' = [result EXCEPT ![p] = NULL]
  /\ Goto(p, "exit")
  /\ UNCHANGED <<listVars, execVars, wait_st, target, cur, fault>>

ExitCall(p) ==
  /\ At(p, "user") /\ p # main
  /\ \E k \in Codes :
       /\ wait_st' = [wait_st EXCEPT ![p].exit_code = k]
       /\ code' = [code EXCEPT ![p] = k]
  /\ result' = [result EXCEPT ![p] = NULL]
  /\ Goto(p, "exit")
  /\ UNCHANGED <<listVars, execVars, target, cur, fault>>

\* An exception in user mode or a bad system call argument.
Killed(p) ==
  /\ At(p, "user") /\ p # main
  /\ result' = [result EXCEPT ![p] = NULL]
  /\ Goto(p, "exit")
  /\ UNCHANGED <<listVars, execVars, wait_st, target, cur, code, fault>>

\* Wrong: the waiting parent is not woken.
ExitUpSkips(p) ==
  /\ At(p, "exit")
  /\ Goto(p, "unref")
  /\ UNCHANGED <<listVars, execVars, wait_st, target, cur, result, code, fault>>

\* process_exit: sema_up (&cur->wait_st->sema) ...
ExitUp(p) ==
  /\ At(p, "exit")
  /\ wait_st' = [wait_st EXCEPT ![p].sema = @ + 1]
  /\ Goto(p, "unref")
  /\ UNCHANGED <<listVars, execVars, target, cur, result, code, fault>>

\* ... the decrement under the lock, and the end of thread_exit.
ExitUnref(p) ==
  /\ At(p, "unref")
  /\ wait_st' = [wait_st EXCEPT ![p].ref_count = @ - 1]
  /\ Goto(p, "dead")
  /\ UNCHANGED <<listVars, execVars, target, cur, result, code, fault>>

-----------------------------------------------------------------------------
\* What a process does inside the kernel, once it has got there.
InKernel(p) ==
  \/ LoadFail(p) \/ MallocFail(p) \/ LoadOk(p) \/ LoadDone(p)
  \/ ExecWake(p) \/ ExecReturn(p)
  \/ WalkEnd(p) \/ WalkNext(p) \/ WalkFault(p) \/ WaitDown(p) \/ Reap(p)
  \/ ExitUp(p) \/ ExitUnref(p)

User(p) == process_execute(p) \/ WaitCall(p) \/ ExitCall(p) \/ Killed(p)

ProcessNext == \E p \in Procs : InKernel(p) \/ User(p)

ProcessSpec == ProcessInit /\ [][ProcessNext]_process_vars

-----------------------------------------------------------------------------
(* Properties.                                                             *)

\* Every variable has its type.
ProcessTypeOK ==
  /\ next \in [Nodes -> Nodes \cup {NULL}] /\ prev \in [Nodes -> Nodes \cup {NULL}]
  /\ loc \in [Procs -> ProcessLabels]
  /\ kid \in [Procs -> Tids \cup {NULL}] /\ parent \in [Procs -> Procs \cup {NULL}]
  /\ load_sema \in [Procs -> 0 .. 1] /\ success \in [Procs -> {"unset", "yes", "no"}]
  /\ freed \in [Procs -> BOOLEAN]
  /\ wait_st \in [Procs -> Statuses \cup {NULL}]
  /\ target \in [Procs -> Tids \cup {NULL}] /\ cur \in [Procs -> Nodes \cup {NULL}]
  /\ result \in [Procs -> Results \cup {NULL}]
  /\ code \in [Procs -> Codes \cup {-1}]
  /\ fault \in {"none", "assert", "stale", "free"}

Exited(p) == loc[p] \in {"unref", "dead"}

\* process_wait returns the status its child exited with, -1 if the child was
\* killed, and never before the child has exited.
ExitCodeDelivered ==
  \A p \in Procs : result[p] # NULL =>
    Exited(result[p][1]) /\ result[p][2] = code[result[p][1]]

\* process_execute goes on only when its child has left exec_info, which is
\* on the parent's stack, and finds the child's verdict there.
ExecHandshake ==
  \A p \in Procs : loc[p] = "link" =>
    /\ loc[kid[p]] \notin {"load", "loaded", "failed"}
    /\ success[kid[p]] = IF wait_st[kid[p]] # NULL THEN "yes" ELSE "no"

\* No process is waited for twice with success.
ReapedOnce ==
  \A p, q \in Procs : result[p] # NULL /\ result[q] # NULL /\ p # q =>
    result[p][1] # result[q][1]

\* process_wait delivers the exit code of the child it waited for, for each
\* child at most once.
WaitDelivers == ProcessTypeOK /\ ExitCodeDelivered /\ ReapedOnce

\* exec comes back: whatever happens to the child, the parent is woken.
ExecReturns ==
  \A p \in Procs : loc[p] = "exec" ~> loc[p] # "exec" \/ fault # "none"

\* A process that waits for one that has exited gets its status.
WaitReturns ==
  \A p \in Procs :
    loc[p] = "down" /\ Exited(target[p]) ~> loc[p] # "down" \/ fault # "none"

\* The walk of try_get_wait_st for a process its caller has started never
\* calls list_next on a tail, as list.c asserts: ASSERT (is_head (elem) ||
\* is_interior (elem)).
AssertHolds ==
  fault = "assert" =>
    \A p \in Procs :
      loc[p] = "walk" /\ target[p] \in Procs /\ parent[target[p]] = p
        => cur[p] = TailOf(p) \/ ~is_tail(cur[p])

\* process_wait blocks only on a child of its caller: "If TID is invalid or
\* if it was not a child of the calling process [...] returns -1
\* immediately, without waiting."
WaitsForChild == \A p \in Procs : loc[p] = "down" => parent[target[p]] = p

\* One of the two things said of a walk over the list of children holds.  A
\* state in which it is false refutes both.
WaitCommentHolds == AssertHolds \/ WaitsForChild

=============================================================================
