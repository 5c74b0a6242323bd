------------------------- MODULE BufferCacheTheorems -------------------------
(***************************************************************************)
(* The rest of the steps of the buffer cache, and what follows from the    *)
(* inductive invariant: the theorems about the cache, and its refinement   *)
(* of a sector store.                                                      *)
(***************************************************************************)
EXTENDS BufferCacheProofs

\* A write installs its block.
LEMMA WriteInstallStep ==
  ASSUME NEW t \in Threads, IInv, TypeOK', WriteInstall(t) PROVE IInv'
  <1>act. WriteInstall(t)
    BY Zenon
  <1>ok. TypeOK /\ TypeOK'
    BY Zenon DEF IInv
  <1>ty. /\ version \in Nat /\ clock_index \in Blocks
         /\ \A b \in Blocks : data[b] \in Nat /\ sector[b] \in Sectors
         /\ \A s \in Sectors : disk[s] \in Nat
         /\ \A u \in Threads : arg[u] \in Sectors
    BY <1>ok, Numbers, Zenon
  <1> USE ThreadsAssumption
  <1>0. pc[t] = "install" /\ op[t] = "write" /\ buffer' = buffer /\ cache_lock' = cache_lock /\ i' = i
    BY <1>act, Zenon DEF WriteInstall, threadVars
  <1>1. pc'[t] = "release" /\ \A u \in Threads \ {t} : pc'[u] = pc[u]
    BY <1>ok, <1>act DEF TypeOK, WriteInstall, threadVars
  <1>2. op' = op /\ arg' = arg /\ \A u \in Threads \ {t} : buffer'[u] = buffer[u]
    BY <1>ok, <1>act, Zenon DEF TypeOK, WriteInstall, threadVars
  <1>3. \A u \in Threads \ {t} : pc[u] \notin Critical
    BY <1>0 DEF IInv, LockInv, Critical
  <1>c. \A u \in Threads : pc'[u] \in Critical => u = t
    BY <1>1, <1>3, Zenon
  <1>4. \A b \in Blocks : (Filling(b) <=> FALSE) /\ (Filling(b)' <=> FALSE)
    BY <1>0, <1>1, <1>3, Zenon DEF Filling, Critical
  <1>5. /\ disk' = disk /\ version' = version + 1 /\ clock_index \in Blocks
        /\ valid'[clock_index] /\ sector'[clock_index] = arg[t]
        /\ dirty'[clock_index] /\ data'[clock_index] = version + 1
    BY <1>ok, <1>act DEF WriteInstall, CopyIn, TypeOK
  <1>6. \A c \in Blocks \ {clock_index} :
          /\ valid'[c] = valid[c] /\ sector'[c] = sector[c]
          /\ dirty'[c] = dirty[c] /\ data'[c] = data[c]
    BY <1>ok, <1>act DEF WriteInstall, CopyIn, TypeOK
  <1>7. LockInv'
    BY <1>0, <1>1, Zenon DEF IInv, LockInv, Critical
  <1>8. OpInv'
    BY <1>0, <1>1, <1>2, Zenon DEF IInv, OpInv
  <1>9. MissInv'
    BY <1>1, <1>c, Zenon DEF MissInv, Critical
  <1>10. HandInv'
    BY <1>1, <1>c, Zenon DEF HandInv, Critical
  <1>11. FlushInv'
    <2>1. \A u \in Threads : pc'[u] # "flush"
      BY <1>1, <1>c, Zenon DEF Critical
    <2>2. \A u \in Threads : pc[u] # "flush"
      BY <1>0, <1>3, Zenon DEF Critical
    <2>3. \A u \in Threads : i'[u] = 0
      BY <1>0, <2>2, Zenon DEF IInv, FlushInv
    <2> QED
      BY <2>1, <2>3, Zenon DEF FlushInv
  <1>12. VersionInv'
    <2>1. VersionInv
      BY Zenon DEF IInv
    <2>2. ASSUME NEW s \in Sectors PROVE disk'[s] <= version'
      BY ONLY <1>ty, <1>5, <2>1, <2>2 DEF VersionInv
    <2>3. ASSUME NEW b \in Blocks PROVE data'[b] <= version'
      <3>1. CASE b = clock_index
        BY ONLY <1>ty, <1>5, <3>1
      <3>2. CASE b # clock_index
        BY ONLY <1>ty, <1>5, <1>6, <2>1, <2>3, <3>2 DEF VersionInv
      <3> QED
        BY <3>1, <3>2, Zenon
    <2> QED
      BY <2>2, <2>3, Zenon DEF VersionInv
  <1>13. NewerInv'
    BY <1>ty, <1>4, <1>5, <1>6 DEF IInv, NewerInv, VersionInv
  <1>14. UniqueBlock'
    BY <1>0, <1>5, <1>6, <1>1 DEF IInv, UniqueBlock, MissInv, Matches
  <1>15. CleanMatchesDisk'
    BY <1>ty, <1>4, <1>5, <1>6 DEF IInv, CleanMatchesDisk
  <1>16. ReadInv'
    BY <1>0, <1>1, <1>2, <1>c, Zenon DEF ReadInv, Critical
  <1> QED
    BY <1>ok, <1>7, <1>8, <1>9, <1>10, <1>11, <1>12, <1>13, <1>14, <1>15, <1>16, Zenon DEF IInv

\* cache_flush writes one block.
LEMMA FlushBlockStep ==
  ASSUME NEW t \in Threads, IInv, TypeOK', FlushBlock(t) PROVE IInv'
  <1>act. FlushBlock(t)
    BY Zenon
  <1>ok. TypeOK /\ TypeOK'
    BY Zenon DEF IInv
  <1>ty. /\ version \in Nat /\ clock_index \in Blocks
         /\ \A b \in Blocks : data[b] \in Nat /\ sector[b] \in Sectors
         /\ \A s \in Sectors : disk[s] \in Nat
         /\ \A u \in Threads : arg[u] \in Sectors
    BY <1>ok, Numbers, Zenon
  <1> USE ThreadsAssumption
  <1>0. pc[t] = "flush" /\ clock_index' = clock_index /\ buffer' = buffer /\ cache_lock' = cache_lock
    BY <1>act, Zenon DEF FlushBlock, threadVars
  <1>1. pc'[t] = "flush" /\ \A u \in Threads \ {t} : pc'[u] = pc[u]
    BY <1>ok, <1>act, Zenon DEF TypeOK, FlushBlock, threadVars
  <1>2. op' = op /\ arg' = arg /\ \A u \in Threads \ {t} : buffer'[u] = buffer[u]
    BY <1>ok, <1>act, Zenon DEF TypeOK, FlushBlock, threadVars
  <1>3. \A u \in Threads \ {t} : pc[u] \notin Critical
    BY <1>0, Zenon DEF IInv, LockInv, Critical
  <1>c. \A u \in Threads : pc'[u] \in Critical => u = t
    BY <1>1, <1>3, Zenon
  <1>4. \A b \in Blocks : (Filling(b) <=> FALSE) /\ (Filling(b)' <=> FALSE)
    BY <1>0, <1>1, <1>3, Zenon DEF Filling, Critical
  <1>5. /\ sector' = sector /\ data' = data /\ valid' = valid /\ version' = version
        /\ i[t] \in Blocks /\ i'[t] = i[t] + 1
        /\ \A u \in Threads \ {t} : i'[u] = i[u]
    BY <1>ok, <1>act, FlushIndex DEF FlushBlock, TypeOK
  <1>6. /\ valid[i[t]] => ~dirty'[i[t]]
        /\ \A c \in Blocks \ {i[t]} : dirty'[c] = dirty[c]
        /\ \A s \in Sectors :
             disk'[s] = IF valid[i[t]] /\ dirty[i[t]] /\ s = sector[i[t]]
                          THEN data[i[t]] ELSE disk[s]
    BY <1>ok, <1>act, <1>5 DEF FlushBlock, TypeOK
  <1>7. LockInv'
    BY <1>0, <1>1, Zenon DEF IInv, LockInv, Critical
  <1>8. OpInv'
    BY <1>0, <1>1, <1>2, Zenon DEF IInv, OpInv
  <1>9. MissInv'
    BY <1>1, <1>c, Zenon DEF MissInv, Critical
  <1>10. HandInv'
    BY <1>1, <1>c, Zenon DEF HandInv, Critical
  <1>b. \A b \in Blocks : b < i[t] + 1 => b < i[t] \/ b = i[t]
    BY <1>5, BlocksAssumption DEF Blocks
  <1>d. \A b \in Blocks : b < i[t] + 1 /\ valid'[b] => ~dirty'[b]
    BY <1>0, <1>5, <1>6, <1>b DEF IInv, FlushInv
  <1>e. \A u \in Threads \ {t} : pc'[u] # "flush" /\ i'[u] = 0
    BY <1>1, <1>3, <1>5, Zenon DEF IInv, FlushInv, Critical
  <1>11. FlushInv'
    BY <1>1, <1>5, <1>d, <1>e DEF FlushInv
  <1>12. VersionInv'
    BY <1>ty, <1>5, <1>6, Zenon DEF IInv, VersionInv
  <1>13. NewerInv'
    <2> SUFFICES ASSUME NEW b \in Blocks, valid[b] PROVE disk'[sector[b]] <= data[b]
      BY <1>5, Zenon DEF NewerInv
    <2>1. disk[sector[b]] <= data[b]
      BY <1>4, Zenon DEF IInv, NewerInv
    <2>2. CASE valid[i[t]] /\ dirty[i[t]] /\ sector[b] = sector[i[t]]
      <3>1. b = i[t]
        BY <1>5, <2>2, Zenon DEF IInv, UniqueBlock
      <3> QED
        BY ONLY <1>ty, <1>6, <2>2, <3>1
    <2>3. CASE ~(valid[i[t]] /\ dirty[i[t]] /\ sector[b] = sector[i[t]])
      BY ONLY <1>ty, <1>6, <2>1, <2>3, Zenon
    <2> QED
      BY <2>2, <2>3, Zenon
  <1>14. UniqueBlock'
    BY <1>0, <1>5, <1>6, Zenon DEF IInv, UniqueBlock
  <1>15. CleanMatchesDisk'
    <2> SUFFICES ASSUME NEW b \in Blocks, valid[b], ~dirty'[b] PROVE data[b] = disk'[sector[b]]
      BY <1>5, Zenon DEF CleanMatchesDisk
    <2>1. CASE valid[i[t]] /\ dirty[i[t]] /\ sector[b] = sector[i[t]]
      <3>1. b = i[t]
        BY <1>5, <2>1, Zenon DEF IInv, UniqueBlock
      <3> QED
        BY ONLY <1>ty, <1>6, <2>1, <3>1, Zenon
    <2>2. CASE ~(valid[i[t]] /\ dirty[i[t]] /\ sector[b] = sector[i[t]])
      <3>1. ~dirty[b]
        BY <1>5, <1>6, <2>2, Zenon
      <3>2. data[b] = disk[sector[b]]
        BY <1>4, <3>1, Zenon DEF IInv, CleanMatchesDisk
      <3> QED
        BY ONLY <1>ty, <1>6, <2>2, <3>2, Zenon
    <2> QED
      BY <2>1, <2>2, Zenon
  <1>16. ReadInv'
    BY <1>1, <1>c, Zenon DEF ReadInv, Critical
  <1> QED
    BY <1>ok, <1>7, <1>8, <1>9, <1>10, <1>11, <1>12, <1>13, <1>14, <1>15, <1>16, Zenon DEF IInv

\* cache_flush ends.
LEMMA FlushEndStep ==
  ASSUME NEW t \in Threads, IInv, TypeOK', FlushEnd(t) PROVE IInv'
  <1>act. FlushEnd(t)
    BY Zenon
  <1>ok. TypeOK /\ TypeOK'
    BY Zenon DEF IInv
  <1> USE ThreadsAssumption
  <1>0. pc[t] = "flush" /\ cache_lock' = NoThread
    BY <1>act, Zenon DEF FlushEnd
  <1>1. pc'[t] = (IF op[t] = "reset" THEN "reacquire" ELSE "halt") /\ \A u \in Threads \ {t} : pc'[u] = pc[u]
    BY <1>ok, <1>act, Zenon DEF TypeOK, FlushEnd
  <1>2. op' = op /\ arg' = arg /\ buffer' = buffer
    BY <1>act, Zenon DEF FlushEnd
  <1>3. /\ sector' = sector /\ data' = data /\ valid' = valid /\ dirty' = dirty
        /\ clock_index' = clock_index /\ disk' = disk /\ version' = version
    BY <1>act, Zenon DEF FlushEnd, blockVars
  <1>4. \A b \in Blocks : Filling(b)' <=> Filling(b)
    BY <1>0, <1>1, <1>3, Zenon DEF Filling
  <1>5. LockInv'
    BY <1>0, <1>1, Zenon DEF IInv, LockInv, Critical
  <1>6. OpInv'
    BY <1>0, <1>1, <1>2, Zenon DEF IInv, OpInv
  <1>7. MissInv' /\ HandInv'
    BY <1>0, <1>1, <1>2, <1>3 DEF IInv, MissInv, HandInv, Matches
  <1>8. FlushInv'
    BY <1>ok, <1>act, <1>0, <1>1, <1>3 DEF FlushEnd, IInv, FlushInv, TypeOK, Blocks
  <1>9. VersionInv' /\ NewerInv' /\ UniqueBlock' /\ CleanMatchesDisk'
    BY <1>3, <1>4, Zenon DEF IInv, VersionInv, NewerInv, UniqueBlock, CleanMatchesDisk
  <1>10. ReadInv'
    BY <1>0, <1>1, <1>2, <1>3 DEF IInv, ReadInv, Matches
  <1> QED
    BY <1>ok, <1>5, <1>6, <1>7, <1>8, <1>9, <1>10, Zenon DEF IInv

\* cache_reset takes the lock again.
LEMMA ReacquireStep ==
  ASSUME NEW t \in Threads, IInv, TypeOK', Reacquire(t) PROVE IInv'
  <1>act. Reacquire(t)
    BY Zenon
  <1>ok. TypeOK /\ TypeOK'
    BY Zenon DEF IInv
  <1> USE ThreadsAssumption
  <1>0. pc[t] = "reacquire" /\ cache_lock = NoThread /\ cache_lock' = t /\ i' = i
    BY <1>act, Zenon DEF Reacquire
  <1>1. pc'[t] = "invalidate" /\ \A u \in Threads \ {t} : pc'[u] = pc[u]
    BY <1>ok, <1>act, Zenon DEF TypeOK, Reacquire
  <1>2. op' = op /\ arg' = arg /\ buffer' = buffer
    BY <1>act, Zenon DEF Reacquire
  <1>3. /\ sector' = sector /\ data' = data /\ valid' = valid /\ dirty' = dirty
        /\ clock_index' = clock_index /\ disk' = disk /\ version' = version
    BY <1>act, Zenon DEF Reacquire, blockVars
  <1>4. \A b \in Blocks : Filling(b)' <=> Filling(b)
    BY <1>0, <1>1, <1>3, Zenon DEF Filling
  <1>5. LockInv'
    BY <1>0, <1>1, Zenon DEF IInv, LockInv, Critical
  <1>6. OpInv'
    BY <1>0, <1>1, <1>2, Zenon DEF IInv, OpInv
  <1>7. MissInv' /\ HandInv'
    BY <1>0, <1>1, <1>2, <1>3 DEF IInv, MissInv, HandInv, Matches
  <1>8. FlushInv'
    BY <1>0, <1>1, <1>3, Zenon DEF IInv, FlushInv
  <1>9. VersionInv' /\ NewerInv' /\ UniqueBlock' /\ CleanMatchesDisk'
    BY <1>3, <1>4, Zenon DEF IInv, VersionInv, NewerInv, UniqueBlock, CleanMatchesDisk
  <1>10. ReadInv'
    BY <1>0, <1>1, <1>2, <1>3 DEF IInv, ReadInv, Matches
  <1> QED
    BY <1>ok, <1>5, <1>6, <1>7, <1>8, <1>9, <1>10, Zenon DEF IInv

\* cache_reset drops the blocks.
LEMMA InvalidateStep ==
  ASSUME NEW t \in Threads, IInv, TypeOK', Invalidate(t) PROVE IInv'
  <1>act. Invalidate(t)
    BY Zenon
  <1>ok. TypeOK /\ TypeOK'
    BY Zenon DEF IInv
  <1>ty. /\ version \in Nat /\ clock_index \in Blocks
         /\ \A b \in Blocks : data[b] \in Nat /\ sector[b] \in Sectors
         /\ \A s \in Sectors : disk[s] \in Nat
         /\ \A u \in Threads : arg[u] \in Sectors
    BY <1>ok, Numbers, Zenon
  <1> USE ThreadsAssumption
  <1>0. pc[t] = "invalidate" /\ cache_lock' = cache_lock /\ i' = i
    BY <1>act, Zenon DEF Invalidate, threadVars
  <1>1. pc'[t] = "release" /\ \A u \in Threads \ {t} : pc'[u] = pc[u]
    BY <1>ok, <1>act DEF TypeOK, Invalidate, threadVars
  <1>2. op' = op /\ arg' = arg /\ \A u \in Threads \ {t} : buffer'[u] = buffer[u]
    BY <1>ok, <1>act, Zenon DEF TypeOK, Invalidate, threadVars
  <1>3. \A u \in Threads \ {t} : pc[u] \notin Critical
    BY <1>0, Zenon DEF IInv, LockInv, Critical
  <1>c. \A u \in Threads : pc'[u] \in Critical => u = t
    BY <1>1, <1>3, Zenon
  <1>4. \A b \in Blocks : (Filling(b) <=> FALSE) /\ (Filling(b)' <=> FALSE)
    BY <1>0, <1>1, <1>3, Zenon DEF Filling, Critical
  <1>5. data' = data /\ disk' = disk /\ version' = version
    BY <1>act, Zenon DEF Invalidate
  <1>6. op[t] = "reset" /\ \A b \in Blocks : ~valid'[b]
    BY <1>act, <1>0, Zenon DEF Invalidate, IInv, OpInv
  <1>7. LockInv'
    BY <1>0, <1>1, Zenon DEF IInv, LockInv, Critical
  <1>8. OpInv'
    BY <1>0, <1>1, <1>2, Zenon DEF IInv, OpInv
  <1>9. MissInv'
    BY <1>1, <1>c, Zenon DEF MissInv, Critical
  <1>10. HandInv'
    BY <1>1, <1>c, Zenon DEF HandInv, Critical
  <1>11. FlushInv'
    BY <1>0, <1>1, <1>3, <1>c, Zenon DEF IInv, FlushInv, Critical
  <1>12. VersionInv'
    BY <1>ty, <1>5, <1>6, Zenon DEF IInv, VersionInv
  <1>13. NewerInv'
    BY <1>ty, <1>4, <1>5, <1>6, Zenon DEF IInv, NewerInv
  <1>14. UniqueBlock'
    BY <1>0, <1>5, <1>6, Zenon DEF IInv, UniqueBlock
  <1>15. CleanMatchesDisk'
    BY <1>ty, <1>4, <1>5, <1>6, Zenon DEF IInv, CleanMatchesDisk
  <1>16. ReadInv'
    BY <1>0, <1>1, <1>2, <1>c, Zenon DEF IInv, OpInv, ReadInv, Critical
  <1> QED
    BY <1>ok, <1>7, <1>8, <1>9, <1>10, <1>11, <1>12, <1>13, <1>14, <1>15, <1>16, Zenon DEF IInv

\* The machine comes up again.
LEMMA RebootStep ==
  ASSUME IInv, TypeOK', Reboot PROVE IInv'
  <1>act. Reboot
    BY Zenon
  <1>ok. TypeOK /\ TypeOK'
    BY Zenon DEF IInv
  <1>1. /\ \A t \in Threads : pc'[t] = "idle" /\ i'[t] = 0
        /\ \A b \in Blocks : ~valid'[b] /\ data'[b] = 0
        /\ cache_lock' = NoThread /\ disk' = disk /\ version' = version
    BY <1>act DEF Reboot
  <1>ty. version \in Nat
    BY <1>ok, Zenon DEF TypeOK, Versions
  <1>2. LockInv' /\ OpInv' /\ MissInv' /\ HandInv' /\ FlushInv' /\ ReadInv'
    BY <1>1, ThreadsAssumption, Zenon DEF LockInv, OpInv, MissInv, HandInv, FlushInv, ReadInv, Critical
  <1>3. VersionInv'
    BY <1>1, <1>ty DEF IInv, VersionInv
  <1>4. NewerInv' /\ UniqueBlock' /\ CleanMatchesDisk'
    BY <1>1, Zenon DEF NewerInv, UniqueBlock, CleanMatchesDisk
  <1> QED
    BY <1>ok, <1>2, <1>3, <1>4, Zenon DEF IInv

\* A step that changes nothing.
LEMMA StutterStep ==
  ASSUME IInv, TypeOK', UNCHANGED vars PROVE IInv'
  <1>act. UNCHANGED vars
    BY Zenon
  <1>ok. TypeOK /\ TypeOK'
    BY Zenon DEF IInv
  <1>1. LockInv' /\ OpInv'
    BY <1>act, Zenon DEF vars, IInv, LockInv, OpInv
  <1>2. MissInv' /\ HandInv'
    BY <1>act, Zenon DEF vars, IInv, MissInv, HandInv, Matches
  <1>3. FlushInv' /\ VersionInv'
    BY <1>act, Zenon DEF vars, IInv, FlushInv, VersionInv
  <1>4. \A b \in Blocks : Filling(b)' <=> Filling(b)
    BY <1>act, Zenon DEF vars, Filling
  <1>5. NewerInv' /\ UniqueBlock' /\ CleanMatchesDisk'
    BY <1>act, <1>4 DEF vars, IInv, NewerInv, UniqueBlock, CleanMatchesDisk
  <1>6. ReadInv'
    BY <1>act DEF vars, IInv, ReadInv, Matches
  <1> QED
    BY <1>ok, <1>1, <1>2, <1>3, <1>5, <1>6, Zenon DEF IInv

\* Every step of the cache keeps the inductive invariant.
LEMMA InvStep == IInv /\ [Next]_vars => IInv'
  <1> SUFFICES ASSUME IInv, [Next]_vars PROVE IInv'
    BY Zenon
  <1>1. TypeOK'
    BY TypeStep, Zenon DEF IInv
  <1> QED
    BY <1>1, CallStep, AcquireStep, ReleaseStep, ReadHitStep, WriteHitStep, MissStep, ClockSkipStep, ClockFreeStep, ClockEvictStep, ReadInstallStep, ReadFillStep, WriteInstallStep, FlushBlockStep, FlushEndStep, ReacquireStep, InvalidateStep, RebootStep, StutterStep, Zenon
       DEF Next, Step, PowerOff, PowerLoss

-----------------------------------------------------------------------------
(* What the cache guarantees.                                              *)

\* The cache comes up in the inductive invariant.
LEMMA InitInv == Init => IInv
  <1> SUFFICES ASSUME Init PROVE IInv
    BY Zenon
  <1> USE DEF Init, filesys_cache_init, Idle
  <1>1. TypeOK
    BY BlocksAssumption, AnySectorType DEF TypeOK, Blocks, Versions, Ops, Labels
  <1>2. LockInv /\ OpInv /\ MissInv /\ HandInv /\ ReadInv
    BY ThreadsAssumption, Zenon DEF LockInv, OpInv, MissInv, HandInv, ReadInv, Critical
  <1>3. FlushInv
    BY Zenon DEF FlushInv
  <1>4. VersionInv /\ NewerInv /\ UniqueBlock /\ CleanMatchesDisk
    BY DEF VersionInv, NewerInv, UniqueBlock, CleanMatchesDisk
  <1> QED
    BY <1>1, <1>2, <1>3, <1>4, Zenon DEF IInv

\* IInv holds in every reachable state.
THEOREM Inductive == Spec => []IInv
  BY InitInv, InvStep, PTL DEF Spec

\* Every variable of the cache keeps its type, whatever the threads do: the
\* clock hand is always on a block of the array.
THEOREM TypeCorrect == Spec => []TypeOK
  <1>1. IInv => TypeOK
    BY Zenon DEF IInv
  <1> QED
    BY <1>1, Inductive, PTL

\* No sector is ever cached twice, and what is cached clean is on disk.
THEOREM OneCleanCopy == Spec => []CacheCoherent
  <1>1. IInv => CacheCoherent
    BY Zenon DEF IInv, CacheCoherent
  <1> QED
    BY <1>1, Inductive, PTL

-----------------------------------------------------------------------------
\* A sector's latest version is in the block that holds it, or on disk.
LEMMA ViewIs ==
  ASSUME NEW s \in Sectors
  PROVE  \/ \E b \in Blocks : Holds(b, s) /\ View(s) = data[b]
         \/ (\A b \in Blocks : ~Holds(b, s)) /\ View(s) = disk[s]
  BY Zenon DEF View

\* Nothing is being filled while a thread is elsewhere in the cache.
LEMMA NotFilling ==
  ASSUME LockInv, NEW t \in Threads, pc[t] \in Critical \ {"io"}
  PROVE  \A b \in Blocks : ~Filling(b)
  BY ThreadsAssumption, Zenon DEF LockInv, Filling, Critical

\* cache_read_at returns the latest version of the sector it was asked for,
\* with any number of threads, blocks and sectors.
THEOREM ReadsAreCurrent == Spec => []ReadReturnsLatest
  <1>1. IInv => ReadReturnsLatest
    <2> SUFFICES ASSUME IInv, NEW t \in Threads, pc[t] = "release", op[t] = "read"
                 PROVE  buffer[t] = View(arg[t])
      BY Zenon DEF ReadReturnsLatest
    <2>1. arg[t] \in Sectors
      BY Zenon DEF IInv, TypeOK
    <2>2. PICK b \in Blocks : Matches(b, arg[t]) /\ data[b] = buffer[t]
      BY Zenon DEF IInv, ReadInv
    <2>3. Holds(b, arg[t])
      BY <2>2, NotFilling, Zenon DEF IInv, Holds, Critical
    <2>4. PICK c \in Blocks : Holds(c, arg[t]) /\ View(arg[t]) = data[c]
      BY <2>1, <2>3, ViewIs, Zenon
    <2>5. b = c
      BY <2>3, <2>4, Zenon DEF Holds, Matches, IInv, UniqueBlock
    <2> QED
      BY <2>2, <2>4, <2>5, Zenon
  <1> QED
    BY <1>1, Inductive, PTL

\* When the loop of cache_flush has ended, the disk holds the latest version
\* of every sector.
THEOREM FlushIsDurable == Spec => []FlushMakesDurable
  <1>1. IInv => FlushMakesDurable
    <2> SUFFICES ASSUME IInv, NEW t \in Threads, pc[t] = "flush", i[t] = CACHE_BLOCKS,
                        NEW s \in Sectors
                 PROVE  disk[s] = View(s)
      BY Zenon DEF FlushMakesDurable
    <2>1. \A b \in Blocks : b < CACHE_BLOCKS
      BY BlocksAssumption DEF Blocks
    <2>2. \A b \in Blocks : valid[b] => ~dirty[b] /\ ~Filling(b)
      BY <2>1, NotFilling, Zenon DEF IInv, FlushInv, Critical
    <2>3. \A b \in Blocks : Holds(b, s) => data[b] = disk[s]
      BY <2>2, Zenon DEF IInv, CleanMatchesDisk, Holds, Matches
    <2> QED
      BY <2>3, ViewIs, Zenon
  <1> QED
    BY <1>1, Inductive, PTL

\* No block_write, from an eviction or from a flush, replaces what is on disk
\* by an older version.
THEOREM DiskGrows == Spec => DiskNeverGoesBack
  <1>1. IInv /\ [Next]_vars => [\A s \in Sectors : disk'[s] >= disk[s]]_disk
    <2> SUFFICES ASSUME IInv, [Next]_vars, disk' # disk, NEW s \in Sectors
                 PROVE  disk'[s] >= disk[s]
      BY Zenon
    <2>0. /\ disk[s] \in Nat /\ disk \in [Sectors -> Nat] /\ clock_index \in Blocks
          /\ \A b \in Blocks : sector[b] \in Sectors /\ data[b] \in Nat
          /\ \A u \in Threads : i[u] \in 0 .. CACHE_BLOCKS
      BY Zenon DEF IInv, TypeOK, Versions
    <2>1. ASSUME NEW t \in Threads, ClockEvict(t) PROVE disk'[s] >= disk[s]
      <3>1. pc[t] = "clock" /\ valid[clock_index]
        BY <2>1, Zenon DEF ClockEvict
      <3>2. disk[sector[clock_index]] <= data[clock_index]
        BY <2>0, <3>1, NotFilling, Zenon DEF IInv, NewerInv, Critical
      <3>3. disk'[s] = disk[s] \/ (s = sector[clock_index] /\ disk'[s] = data[clock_index])
        BY <2>0, <2>1, Zenon DEF ClockEvict
      <3> QED
        BY <2>0, <3>2, <3>3
    <2>2. ASSUME NEW t \in Threads, FlushBlock(t) PROVE disk'[s] >= disk[s]
      <3>1. pc[t] = "flush" /\ i[t] < CACHE_BLOCKS
        BY <2>2, Zenon DEF FlushBlock
      <3>2. i[t] \in Blocks
        BY <2>0, <3>1, FlushIndex, Zenon
      <3>3. \/ disk'[s] = disk[s]
            \/ valid[i[t]] /\ s = sector[i[t]] /\ disk'[s] = data[i[t]]
        BY <2>0, <2>2, Zenon DEF FlushBlock
      <3>4. valid[i[t]] => disk[sector[i[t]]] <= data[i[t]]
        BY <3>1, <3>2, NotFilling, Zenon DEF IInv, NewerInv, Critical
      <3> QED
        BY <2>0, <3>2, <3>3, <3>4
    <2>3. ASSUME NEW t \in Threads, Step(t) PROVE ClockEvict(t) \/ FlushBlock(t)
      <3>1. ~(Acquire(t) \/ Release(t) \/ ReadHit(t) \/ WriteHit(t) \/ Miss(t))
        BY Zenon DEF Acquire, Release, ReadHit, WriteHit, Miss
      <3>2. ~(ClockSkip(t) \/ ClockFree(t) \/ ReadInstall(t) \/ ReadFill(t) \/ WriteInstall(t))
        BY Zenon DEF ClockSkip, ClockFree, ReadInstall, ReadFill, WriteInstall
      <3>3. ~(FlushEnd(t) \/ Reacquire(t) \/ Invalidate(t))
        BY Zenon DEF FlushEnd, Reacquire, Invalidate
      <3> QED
        BY <2>3, <3>1, <3>2, <3>3, Zenon DEF Step
    <2>4. \A t \in Threads : ~Call(t)
      BY Zenon DEF Call
    <2>5. ~Reboot
      BY Zenon DEF Reboot
    <2>6. ~UNCHANGED vars
      BY DEF vars
    <2> QED
      BY <2>1, <2>2, <2>3, <2>4, <2>5, <2>6, Zenon DEF Next, PowerOff, PowerLoss
  <1> QED
    BY <1>1, Inductive, PTL DEF Spec, DiskNeverGoesBack

-----------------------------------------------------------------------------
(* Without cache_reset the cache is a sector store.                        *)

\* Which block holds a sector, and which version it is, decides its view.
LEMMA ViewHeld ==
  ASSUME UniqueBlock, NEW b \in Blocks, NEW s \in Sectors, Holds(b, s)
  PROVE  View(s) = data[b]
  <1>1. PICK c \in Blocks : Holds(c, s) /\ View(s) = data[c]
    BY ViewIs, Zenon
  <1> QED
    BY <1>1, Zenon DEF Holds, Matches, UniqueBlock

\* The same after a step.
LEMMA ViewIsNext ==
  ASSUME UniqueBlock', NEW s \in Sectors
  PROVE  /\ \A b \in Blocks : Holds(b, s)' => View(s)' = data'[b]
         /\ (\A b \in Blocks : ~Holds(b, s)') => View(s)' = disk'[s]
  <1>1. \/ \E b \in Blocks : Holds(b, s)' /\ View(s)' = data'[b]
        \/ (\A b \in Blocks : ~Holds(b, s)') /\ View(s)' = disk'[s]
    BY Zenon DEF View
  <1> QED
    BY <1>1, Zenon DEF Holds, Matches, UniqueBlock

\* A sector keeps its view when the block that holds it keeps its data.
LEMMA ViewKept ==
  ASSUME UniqueBlock, UniqueBlock', NEW s \in Sectors,
         \A b \in Blocks : (Holds(b, s)' <=> Holds(b, s)) /\ (Holds(b, s) => data'[b] = data[b]),
         (\A b \in Blocks : ~Holds(b, s)) => disk'[s] = disk[s]
  PROVE  View(s)' = View(s)
  <1>1. CASE \E b \in Blocks : Holds(b, s)
    BY <1>1, ViewHeld, ViewIsNext
  <1>2. CASE \A b \in Blocks : ~Holds(b, s)
    <2>1. View(s)' = disk'[s]
      BY <1>2, ViewIsNext, Zenon
    <2>2. View(s) = disk[s]
      BY <1>2, ViewIs, Zenon
    <2> QED
      BY <1>2, <2>1, <2>2, Zenon
  <1> QED
    BY <1>1, <1>2, Zenon

\* The store the cache stands for.
Views == [s \in Sectors |-> View(s)]

\* Nobody resets the cache.
NoReset == \A t \in Threads : op[t] # "reset"

\* A call that is no reset stays none.
LEMMA NoResetStep ==
  ASSUME Resetters = {}, TypeOK, NoReset, [Next]_vars PROVE NoReset'
  <1>1. \A t \in Threads : Call(t) => NoReset'
    BY DEF Call, NoReset, TypeOK
  <1>2. \A t \in Threads : Release(t) => NoReset'
    BY DEF Release, NoReset, TypeOK
  <1>3. Reboot => NoReset'
    BY Zenon DEF Reboot, NoReset
  <1>4. op' = op => NoReset'
    BY Zenon DEF NoReset
  <1>5. \A t \in Threads : Step(t) => op' = op \/ Release(t)
    <2> SUFFICES ASSUME NEW t \in Threads, Step(t), ~Release(t) PROVE op' = op
      BY Zenon
    <2>1. Acquire(t) \/ ReadHit(t) \/ WriteHit(t) \/ Miss(t) => op' = op
      BY Zenon DEF Acquire, ReadHit, WriteHit, Miss, threadVars
    <2>2. ClockSkip(t) \/ ClockFree(t) \/ ClockEvict(t) \/ ReadInstall(t) \/ ReadFill(t) => op' = op
      BY Zenon DEF ClockSkip, ClockFree, ClockEvict, ReadInstall, ReadFill, threadVars
    <2>3. WriteInstall(t) \/ FlushBlock(t) \/ FlushEnd(t) \/ Reacquire(t) \/ Invalidate(t) => op' = op
      BY Zenon DEF WriteInstall, FlushBlock, FlushEnd, Reacquire, Invalidate, threadVars
    <2> QED
      BY <2>1, <2>2, <2>3, Zenon DEF Step
  <1>6. UNCHANGED vars => op' = op
    BY Zenon DEF vars
  <1> QED
    BY <1>1, <1>2, <1>3, <1>4, <1>5, <1>6, Zenon DEF Next, PowerOff, PowerLoss

\* Steps that neither move data nor change what is being filled.
LEMMA QuietViews ==
  ASSUME IInv, IInv', UNCHANGED <<sector, data, valid, disk>>,
         \A b \in Blocks : Filling(b)' <=> Filling(b)
  PROVE  Views' = Views
  <1>1. UniqueBlock /\ UniqueBlock'
    BY Zenon DEF IInv
  <1>2. \A s \in Sectors, b \in Blocks : Holds(b, s)' <=> Holds(b, s)
    BY Zenon DEF Holds, Matches
  <1>3. \A s \in Sectors : View(s)' = View(s)
    BY <1>1, <1>2, ViewKept, Zenon
  <1> QED
    BY <1>3, Zenon DEF Views

\* lock_acquire, the lookup that misses, the clock hand and the end of a flush
\* are not seen from outside.
LEMMA QuietStep ==
  ASSUME IInv, IInv', NEW t \in Threads,
         Call(t) \/ Acquire(t) \/ Miss(t) \/ ClockSkip(t) \/ ClockFree(t) \/ FlushEnd(t)
  PROVE  Views' = Views /\ UNCHANGED <<disk, buffer, version>>
  <1>1. UNCHANGED <<sector, data, valid, disk, buffer, version>>
    BY Zenon DEF Call, Acquire, Miss, ClockSkip, ClockFree, FlushEnd, blockVars, threadVars
  <1>2. pc[t] # "io" /\ pc'[t] # "io" /\ \A u \in Threads \ {t} : pc'[u] = pc[u]
    BY DEF Call, Acquire, Miss, ClockSkip, ClockFree, FlushEnd, threadVars, IInv, TypeOK
  <1>3. \A b \in Blocks : Filling(b)' <=> Filling(b)
    <2>1. CASE clock_index' = clock_index
      BY <1>2, <2>1, Zenon DEF Filling
    <2>2. CASE ClockSkip(t)
      <3>1. pc[t] = "clock" /\ pc' = pc
        BY <2>2, Zenon DEF ClockSkip, threadVars
      <3>2. \A u \in Threads : pc[u] # "io"
        BY <3>1, ThreadsAssumption, Zenon DEF IInv, LockInv, Critical
      <3> QED
        BY <3>1, <3>2, Zenon DEF Filling
    <2> QED
      BY <2>1, <2>2, Zenon DEF Call, Acquire, Miss, ClockFree, FlushEnd
  <1> QED
    BY <1>1, <1>3, QuietViews, Zenon

\* The caller returns with its buffer.
LEMMA ReturnStep ==
  ASSUME IInv, IInv', NEW t \in Threads, Release(t) PROVE Store!Return(t)
  <1>1. UNCHANGED <<sector, data, valid, disk, version, clock_index>> /\ buffer' = [buffer EXCEPT ![t] = 0]
    BY Zenon DEF Release, blockVars
  <1>2. pc[t] # "io" /\ pc'[t] # "io" /\ \A u \in Threads \ {t} : pc'[u] = pc[u]
    BY Zenon DEF Release, IInv, TypeOK
  <1>3. \A b \in Blocks : Filling(b)' <=> Filling(b)
    BY <1>1, <1>2, Zenon DEF Filling
  <1>4. Views' = Views
    BY <1>1, <1>3, QuietViews, Zenon
  <1> QED
    BY <1>1, <1>4, Zenon DEF Store!Return, Views

\* A hit reads the view.
LEMMA ReadHitReads ==
  ASSUME IInv, IInv', NEW t \in Threads, ReadHit(t), NEW s \in Sectors, s = arg[t] PROVE Store!Read(t, s)
  <1>1. UNCHANGED <<sector, data, valid, disk, version, clock_index>>
    BY Zenon DEF ReadHit
  <1>2. PICK b \in Blocks : FirstMatch(b, s) /\ buffer' = [buffer EXCEPT ![t] = data[b]]
    BY Zenon DEF ReadHit
  <1>3. pc[t] = "check" /\ pc'[t] = "release" /\ \A u \in Threads \ {t} : pc'[u] = pc[u]
    BY DEF ReadHit, IInv, TypeOK
  <1>4. \A c \in Blocks : ~Filling(c)
    BY <1>3, NotFilling, Zenon DEF IInv, Critical
  <1>5. View(s) = data[b]
    BY <1>2, <1>4, ViewHeld, Zenon DEF FirstMatch, Holds, IInv
  <1>6. \A c \in Blocks : Filling(c)' <=> Filling(c)
    BY <1>1, <1>3, Zenon DEF Filling
  <1>7. Views' = Views
    BY <1>1, <1>6, QuietViews, Zenon
  <1> QED
    BY <1>1, <1>2, <1>5, <1>7, Zenon DEF Store!Read, Views

\* From the installation of a block to the end of its block_read the sector's
\* view is on disk.
LEMMA ReadInstallQuiet ==
  ASSUME IInv, IInv', NEW t \in Threads, ReadInstall(t)
  PROVE  Views' = Views /\ UNCHANGED <<disk, buffer, version>>
  <1>1. UNCHANGED <<data, disk, buffer, version, clock_index>> /\ UniqueBlock /\ UniqueBlock' /\ clock_index \in Blocks
    BY Zenon DEF ReadInstall, IInv, TypeOK
  <1>2. pc[t] = "install" /\ pc'[t] = "io"
    BY DEF ReadInstall, IInv, TypeOK
  <1>3. \A b \in Blocks : ~Filling(b) /\ (Filling(b)' <=> b = clock_index)
    BY <1>1, <1>2, NotFilling, Zenon DEF IInv, Critical, Filling
  <1>4. ~ valid[clock_index]
    BY <1>2, Zenon DEF IInv, HandInv
  <1>5. \A b \in Blocks \ {clock_index} : valid'[b] = valid[b] /\ sector'[b] = sector[b]
    BY DEF ReadInstall, IInv, TypeOK
  <1>6. \A s \in Sectors, b \in Blocks : Holds(b, s)' <=> Holds(b, s)
    BY <1>3, <1>4, <1>5, Zenon DEF Holds, Matches
  <1>7. \A s \in Sectors : View(s)' = View(s)
    BY <1>1, <1>6, ViewKept, Zenon
  <1> QED
    BY <1>1, <1>7, Zenon DEF Views

\* A miss reads the view when its block_read returns.
LEMMA ReadFillReads ==
  ASSUME IInv, IInv', NEW t \in Threads, ReadFill(t), NEW s \in Sectors, s = arg[t] PROVE Store!Read(t, s)
  <1>1. /\ UNCHANGED <<sector, valid, disk, version, clock_index>> /\ clock_index \in Blocks
        /\ buffer' = [buffer EXCEPT ![t] = disk[s]] /\ UniqueBlock /\ UniqueBlock'
    BY Zenon DEF ReadFill, IInv, TypeOK
  <1>2. /\ pc[t] = "io" /\ pc'[t] = "release" /\ data'[clock_index] = disk[s]
        /\ \A b \in Blocks \ {clock_index} : data'[b] = data[b]
    BY DEF ReadFill, IInv, TypeOK
  <1>3. \A b \in Blocks : (Filling(b) <=> b = clock_index) /\ ~Filling(b)'
    <2>1. \A u \in Threads : pc'[u] # "io"
      BY <1>2, ThreadsAssumption DEF ReadFill, IInv, LockInv, TypeOK, Critical
    <2> QED
      BY <1>2, <2>1, Zenon DEF Filling
  <1>4. valid[clock_index] /\ sector[clock_index] = s
    BY <1>2, Zenon DEF IInv, HandInv, Matches
  <1>5. \A b \in Blocks : valid[b] /\ sector[b] = s => b = clock_index
    BY <1>1, <1>4, Zenon DEF UniqueBlock
  <1>6. View(s) = disk[s]
    <2>1. \A b \in Blocks : ~Holds(b, s)
      BY <1>3, <1>5, Zenon DEF Holds, Matches
    <2> QED
      BY <2>1, ViewIs, Zenon
  <1>7. View(s)' = disk[s]
    <2>1. Holds(clock_index, s)' /\ clock_index' = clock_index
      BY <1>1, <1>3, <1>4, Zenon DEF Holds, Matches
    <2>2. \E b \in Blocks : Holds(b, s)' /\ data'[b] = disk[s]
      <3>1. \A b \in Blocks : b = clock_index => Holds(b, s)'
        BY <1>1, <1>3, <1>4, Zenon DEF Holds, Matches
      <3> QED
        BY <1>1, <1>2, <3>1, Zenon
    <2> QED
      BY <1>1, <2>2, ViewIsNext, Zenon
  <1>8. ASSUME NEW r \in Sectors \ {s} PROVE View(r)' = View(r)
    <2>1. \A b \in Blocks : (Holds(b, r)' <=> Holds(b, r)) /\ (Holds(b, r) => data'[b] = data[b])
      BY <1>1, <1>2, <1>3, <1>4, Zenon DEF Holds, Matches
    <2> QED
      BY <1>1, <2>1, ViewKept, Zenon
  <1>9. Views' = Views
    BY <1>6, <1>7, <1>8, Zenon DEF Views
  <1> QED
    BY <1>1, <1>6, <1>9, Zenon DEF Store!Read, Views

\* A write gives its sector the next version and leaves the others alone.
LEMMA Writes ==
  ASSUME IInv, IInv', NEW t \in Threads, WriteHit(t) \/ WriteInstall(t), NEW s \in Sectors, s = arg[t]
  PROVE  Store!Write(s)
  <1>1. /\ UNCHANGED <<disk, buffer, clock_index>> /\ version' = version + 1 /\ UniqueBlock /\ UniqueBlock'
        /\ clock_index \in Blocks
    BY Zenon DEF WriteHit, WriteInstall, CopyIn, IInv, TypeOK
  <1>2. pc[t] \in {"check", "install"} /\ pc'[t] = "release" /\ \A u \in Threads \ {t} : pc'[u] = pc[u]
    BY DEF WriteHit, WriteInstall, IInv, TypeOK
  <1>3. \A b \in Blocks : ~Filling(b) /\ ~Filling(b)'
    <2>1. \A u \in Threads : pc[u] # "io"
      BY <1>2, ThreadsAssumption, Zenon DEF IInv, LockInv, Critical
    <2> QED
      BY <1>2, <2>1, Zenon DEF Filling
  <1>4. \E b \in Blocks :
          /\ valid'[b] /\ sector'[b] = s /\ data'[b] = version + 1
          /\ \A c \in Blocks \ {b} : valid'[c] = valid[c] /\ sector'[c] = sector[c] /\ data'[c] = data[c]
          /\ valid[b] => sector[b] = s
    <2>1. CASE WriteHit(t)
      <3>1. PICK b \in Blocks : FirstMatch(b, s) /\ data' = [data EXCEPT ![b] = version + 1]
        BY <2>1, Zenon DEF WriteHit, CopyIn
      <3>2. valid' = valid /\ sector' = sector /\ data \in [Blocks -> Versions]
        BY <2>1, Zenon DEF WriteHit, IInv, TypeOK
      <3> QED
        BY <3>1, <3>2, Zenon DEF FirstMatch, Matches
    <2>2. CASE WriteInstall(t)
      <3>1. /\ valid' = [valid EXCEPT ![clock_index] = TRUE] /\ sector' = [sector EXCEPT ![clock_index] = s]
            /\ data' = [data EXCEPT ![clock_index] = version + 1] /\ ~valid[clock_index]
        BY <2>2, Zenon DEF WriteInstall, CopyIn, IInv, HandInv
      <3>2. data \in [Blocks -> Versions] /\ valid \in [Blocks -> BOOLEAN] /\ sector \in [Blocks -> Sectors]
        BY Zenon DEF IInv, TypeOK
      <3> QED
        BY <1>1, <3>1, <3>2, Zenon
    <2> QED
      BY <2>1, <2>2, Zenon
  <1>5. PICK b \in Blocks :
          /\ valid'[b] /\ sector'[b] = s /\ data'[b] = version + 1
          /\ \A c \in Blocks \ {b} : valid'[c] = valid[c] /\ sector'[c] = sector[c] /\ data'[c] = data[c]
          /\ valid[b] => sector[b] = s
    BY <1>4, Zenon
  <1>6. View(s)' = version + 1
    <2>1. Holds(b, s)'
      BY <1>3, <1>5, Zenon DEF Holds, Matches
    <2> QED
      BY <1>1, <1>5, <2>1, ViewIsNext, Zenon
  <1>7. ASSUME NEW r \in Sectors \ {s} PROVE View(r)' = View(r)
    <2>1. \A c \in Blocks : (Holds(c, r)' <=> Holds(c, r)) /\ (Holds(c, r) => data'[c] = data[c])
      BY <1>3, <1>5, Zenon DEF Holds, Matches
    <2> QED
      BY <1>1, <2>1, ViewKept, Zenon
  <1>8. Views' = [Views EXCEPT ![s] = version + 1]
    BY <1>6, <1>7, Zenon DEF Views
  <1> QED
    BY <1>1, <1>8, Zenon DEF Store!Write, Views

\* A block that goes to disk, or leaves the cache clean, changes no view.
LEMMA WrittenBack ==
  ASSUME IInv, IInv', NEW b \in Blocks, valid[b], \A c \in Blocks : ~Filling(c) /\ ~Filling(c)',
         UNCHANGED <<sector, data, buffer, version>>,
         \A c \in Blocks \ {b} : valid'[c] = valid[c],
         disk' = IF dirty[b] THEN [disk EXCEPT ![sector[b]] = data[b]] ELSE disk
  PROVE  /\ Views' = Views
         /\ Store!Persist(sector[b]) \/ disk' = disk
  <1>1. /\ UniqueBlock /\ UniqueBlock' /\ disk \in [Sectors -> Versions] /\ sector[b] \in Sectors
        /\ valid'[b] \in BOOLEAN
    BY Zenon DEF IInv, TypeOK
  <1>2. disk'[sector[b]] = data[b] /\ \A s \in Sectors \ {sector[b]} : disk'[s] = disk[s]
    BY <1>1, Zenon DEF IInv, CleanMatchesDisk
  <1>3. View(sector[b]) = data[b]
    BY <1>1, ViewHeld, Zenon DEF Holds, Matches
  <1>4. ASSUME NEW s \in Sectors, s # sector[b] PROVE View(s)' = View(s)
    <2>1. \A c \in Blocks : (Holds(c, s)' <=> Holds(c, s)) /\ (Holds(c, s) => data'[c] = data[c])
      BY <1>4, Zenon DEF Holds, Matches
    <2> QED
      BY <1>1, <1>2, <1>4, <2>1, ViewKept, Zenon
  <1>5. ASSUME NEW s \in Sectors, s = sector[b] PROVE View(s)' = data[b]
    <2>1. CASE valid'[b]
      <3>1. Holds(b, s)'
        BY <1>5, <2>1, Zenon DEF Holds, Matches
      <3> QED
        BY <1>1, <3>1, ViewIsNext, Zenon
    <2>2. CASE ~valid'[b]
      <3>1. \A c \in Blocks : ~Holds(c, s)'
        BY <1>1, <1>5, <2>2, Zenon DEF Holds, Matches, UniqueBlock
      <3> QED
        BY <1>1, <1>2, <1>5, <3>1, ViewIsNext, Zenon
    <2> QED
      BY <2>1, <2>2, Zenon
  <1>6. Views' = Views
    BY <1>3, <1>4, <1>5, Zenon DEF Views
  <1> QED
    BY <1>1, <1>3, <1>6, Zenon DEF Store!Persist, Views

\* Eviction and cache_flush copy views to disk.
LEMMA Persists ==
  ASSUME IInv, IInv', NEW t \in Threads, ClockEvict(t) \/ FlushBlock(t)
  PROVE  \/ \E s \in Sectors : Store!Persist(s)
         \/ Views' = Views /\ UNCHANGED <<disk, buffer, version>>
  <1>1. UNCHANGED <<sector, data, buffer, version, clock_index>>
    BY Zenon DEF ClockEvict, FlushBlock
  <1>2. \A c \in Blocks : ~Filling(c) /\ ~Filling(c)'
    <2>1. pc[t] \in {"clock", "flush"} /\ pc'[t] # "io" /\ \A u \in Threads \ {t} : pc'[u] = pc[u]
      BY DEF ClockEvict, FlushBlock, IInv, TypeOK
    <2>2. \A u \in Threads : pc[u] # "io"
      BY <2>1, ThreadsAssumption, Zenon DEF IInv, LockInv, Critical
    <2> QED
      BY <2>1, <2>2, Zenon DEF Filling
  <1>3. \A b \in Blocks : sector[b] \in Sectors
    BY Zenon DEF IInv, TypeOK
  <1>4. CASE ClockEvict(t)
    <2>1. /\ clock_index \in Blocks /\ valid[clock_index] /\ \A c \in Blocks \ {clock_index} : valid'[c] = valid[c]
          /\ disk' = IF dirty[clock_index] THEN [disk EXCEPT ![sector[clock_index]] = data[clock_index]] ELSE disk
      BY <1>4 DEF ClockEvict, IInv, TypeOK
    <2> QED
      BY <1>1, <1>2, <1>3, <2>1, WrittenBack, Zenon
  <1>5. CASE FlushBlock(t) /\ valid[i[t]]
    <2>1. i[t] \in Blocks
      BY <1>5, FlushIndex, Zenon DEF FlushBlock, IInv, TypeOK
    <2>2. valid' = valid /\ disk' = IF dirty[i[t]] THEN [disk EXCEPT ![sector[i[t]]] = data[i[t]]] ELSE disk
      BY <1>5, Zenon DEF FlushBlock
    <2> QED
      BY <1>1, <1>2, <1>3, <1>5, <2>1, <2>2, WrittenBack, Zenon
  <1>6. CASE FlushBlock(t) /\ ~valid[i[t]]
    <2>1. UNCHANGED <<valid, disk>>
      BY <1>6, Zenon DEF FlushBlock
    <2> QED
      BY <1>1, <1>2, <2>1, QuietViews, Zenon
  <1> QED
    BY <1>4, <1>5, <1>6, Zenon

\* A restart falls back to the disk.
LEMMA RebootCycles ==
  ASSUME IInv, IInv', Reboot PROVE Store!PowerCycle
  <1>1. /\ UNCHANGED <<disk, version>> /\ buffer' = [t \in Threads |-> 0] /\ UniqueBlock'
        /\ \A b \in Blocks : ~valid'[b]
    BY Zenon DEF Reboot, IInv
  <1>2. \A s \in Sectors : View(s)' = disk[s]
    BY <1>1, ViewIsNext, Zenon DEF Holds, Matches
  <1>3. disk \in [Sectors -> Versions]
    BY Zenon DEF IInv, TypeOK
  <1>4. Views' = disk
    BY <1>2, <1>3, Zenon DEF Views
  <1> QED
    BY <1>1, <1>4, Zenon DEF Store!PowerCycle, Views

\* Every step of the cache is a step of the store, or none.
LEMMA StoreStep ==
  ASSUME IInv, IInv', NoReset, [Next]_vars PROVE [Store!Next]_(Store!vars)
  <1>0. (Views' = Views /\ UNCHANGED <<disk, buffer, version>>) => UNCHANGED Store!vars
    BY Zenon DEF Views, Store!vars
  <1>1. CASE UNCHANGED vars
    <2>1. UNCHANGED <<sector, data, valid, disk, buffer, version, clock_index, pc>>
      BY <1>1, Zenon DEF vars
    <2>2. \A b \in Blocks : Filling(b)' <=> Filling(b)
      BY <2>1, Zenon DEF Filling
    <2> QED
      BY <1>0, <2>1, <2>2, QuietViews, Zenon
  <1>2. CASE PowerOff \/ PowerLoss
    BY <1>2, RebootCycles, Zenon DEF PowerOff, PowerLoss, Store!Next
  <1>3. CASE \E t \in Threads : Call(t) \/ Step(t)
    <2>1. PICK t \in Threads : Call(t) \/ Step(t)
      BY <1>3, Zenon
    <2>2. arg[t] \in Sectors
      BY Zenon DEF IInv, TypeOK
    <2>3. ~Reacquire(t) /\ ~Invalidate(t)
      BY Zenon DEF Reacquire, Invalidate, NoReset, IInv, OpInv
    <2>4. CASE Call(t) \/ Acquire(t) \/ Miss(t) \/ ClockSkip(t) \/ ClockFree(t) \/ FlushEnd(t)
      BY <1>0, <2>4, QuietStep, Zenon
    <2>5. CASE ReadInstall(t)
      BY <1>0, <2>5, ReadInstallQuiet, Zenon
    <2>6. CASE Release(t)
      BY <2>6, ReturnStep, Zenon DEF Store!Next
    <2>7. CASE ReadHit(t) \/ ReadFill(t)
      <3>1. Store!Read(t, arg[t])
        BY <2>2, <2>7, ReadHitReads, ReadFillReads, Zenon
      <3> QED
        BY <2>2, <3>1, Zenon DEF Store!Next
    <2>8. CASE WriteHit(t) \/ WriteInstall(t)
      <3>1. Store!Write(arg[t])
        BY <2>2, <2>8, Writes, Zenon
      <3> QED
        BY <2>2, <3>1, Zenon DEF Store!Next
    <2>9. CASE ClockEvict(t) \/ FlushBlock(t)
      BY <1>0, <2>9, Persists, Zenon DEF Store!Next
    <2> QED
      BY <2>1, <2>3, <2>4, <2>5, <2>6, <2>7, <2>8, <2>9, Zenon DEF Step
  <1> QED
    BY <1>1, <1>2, <1>3, Zenon DEF Next

\* The cache comes up as a store of what is on disk.
LEMMA StoreInit ==
  ASSUME Init PROVE Store!Init /\ NoReset
  <1>1. \A b \in Blocks, s \in Sectors : ~Holds(b, s)
    BY Zenon DEF Init, filesys_cache_init, Holds, Matches
  <1>2. \A s \in Sectors : View(s) = 0
    BY <1>1, ViewIs, Zenon DEF Init
  <1>3. disk = [s \in Sectors |-> 0] /\ buffer = [t \in Threads |-> 0] /\ version = 0 /\ NoReset
    BY Zenon DEF Init, Idle, NoReset
  <1> QED
    BY <1>2, <1>3, Zenon DEF Store!Init

\* As long as nobody calls cache_reset, which drops the writes that come
\* between its two critical sections, the cache with its evictions, flushes,
\* sleeping transfers and power failures is an atomic write-back array of
\* sectors.
THEOREM CacheImplementsStore ==
  ASSUME Resetters = {} PROVE Spec => ImplementsStore
  <1>1. Init => Store!Init /\ IInv /\ NoReset
    BY StoreInit, InitInv, Zenon
  <1>2. IInv /\ NoReset /\ [Next]_vars => (IInv /\ NoReset)' /\ [Store!Next]_(Store!vars)
    <2> SUFFICES ASSUME IInv, NoReset, [Next]_vars PROVE (IInv /\ NoReset)' /\ [Store!Next]_(Store!vars)
      BY Zenon
    <2>1. IInv'
      BY InvStep, Zenon
    <2>2. NoReset'
      BY NoResetStep, Zenon DEF IInv
    <2> QED
      BY <2>1, <2>2, StoreStep, Zenon
  <1> QED
    BY <1>1, <1>2, PTL DEF Spec, ImplementsStore, Store!Spec

=============================================================================
