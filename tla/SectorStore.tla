----------------------------- MODULE SectorStore -----------------------------
(***************************************************************************)
(* What the buffer cache promises the rest of the file system: an array of *)
(* sectors that is read and written atomically, kept in memory and copied  *)
(* to the disk at moments of the cache's own choosing.  A power cycle      *)
(* falls back to the copies on disk, and nothing else takes a write back.  *)
(***************************************************************************)
EXTENDS Integers

CONSTANTS Threads, Sectors

VARIABLES
  store,   \* the current contents of every sector, as version numbers
  stable,  \* the contents a power cycle falls back to
  buffer,  \* what each thread's read in progress has got
  version  \* the number of the last version written

vars == <<store, stable, buffer, version>>

Init ==
  /\ store = [s \in Sectors |-> 0]
  /\ stable = [s \in Sectors |-> 0]
  /\ buffer = [t \in Threads |-> 0]
  /\ version = 0

Read(t, s) ==
  /\ buffer' = [buffer EXCEPT ![t] = store[s]]
  /\ UNCHANGED <<store, stable, version>>

\* The reader returns with what it read.
Return(t) ==
  /\ buffer' = [buffer EXCEPT ![t] = 0]
  /\ UNCHANGED <<store, stable, version>>

Write(s) ==
  /\ version' = version + 1
  /\ store' = [store EXCEPT ![s] = version + 1]
  /\ UNCHANGED <<stable, buffer>>

Persist(s) ==
  /\ stable' = [stable EXCEPT ![s] = store[s]]
  /\ UNCHANGED <<store, buffer, version>>

PowerCycle ==
  /\ store' = stable
  /\ buffer' = [t \in Threads |-> 0]
  /\ UNCHANGED <<stable, version>>

Next ==
  \/ \E t \in Threads : Return(t) \/ (\E s \in Sectors : Read(t, s))
  \/ \E s \in Sectors : Write(s) \/ Persist(s)
  \/ PowerCycle

Spec == Init /\ [][Next]_vars

=============================================================================
