-------------------------- MODULE BufferCacheProofs --------------------------
(***************************************************************************)
(* Proofs about BufferCache, for any number of threads, blocks, sectors    *)
(* and calls.  IInv is the inductive invariant.                            *)
(***************************************************************************)
EXTENDS BufferCache, TLAPS

\* The labels at which a thread is between lock_acquire and lock_release.
Critical == {"check", "clock", "install", "io", "release", "flush", "invalidate"}

\* cache_lock is held exactly by the thread inside the critical section.
LockInv == \A t \in Threads : pc[t] \in Critical <=> cache_lock = t

\* Which operation can be at which label.
OpInv ==
  \A t \in Threads :
    /\ pc[t] \in {"check", "clock", "install"} => op[t] \in {"read", "write"}
    /\ pc[t] = "io" => op[t] = "read"
    /\ pc[t] \in {"reacquire", "invalidate"} => op[t] = "reset"
    /\ pc[t] = "flush" => op[t] \in {"shutdown", "reset"}

\* From a miss until the block is installed the sector stays uncached.
MissInv ==
  \A t \in Threads :
    pc[t] \in {"clock", "install"} => \A b \in Blocks : ~Matches(b, arg[t])

\* The block under the hand, while it is being set up.
HandInv ==
  \A t \in Threads :
    /\ pc[t] = "install" => ~valid[clock_index]
    /\ pc[t] = "io" => Matches(clock_index, arg[t]) /\ ~dirty[clock_index]

\* The flush loop leaves no dirty block behind.
FlushInv ==
  \A t \in Threads :
    /\ pc[t] = "flush" => \A b \in Blocks : b < i[t] /\ valid[b] => ~dirty[b]
    /\ pc[t] # "flush" => i[t] = 0

\* No copy of a sector is newer than the last write ...
VersionInv ==
  /\ \A s \in Sectors : disk[s] <= version
  /\ \A b \in Blocks : data[b] <= version

\* ... and no cached copy is older than the one on disk.
NewerInv ==
  \A b \in Blocks : valid[b] /\ ~Filling(b) => disk[sector[b]] <= data[b]

\* A read that is about to return holds the data of the block it used.
ReadInv ==
  \A t \in Threads :
    pc[t] = "release" /\ op[t] = "read" =>
      \E b \in Blocks : Matches(b, arg[t]) /\ data[b] = buffer[t]

IInv ==
  /\ TypeOK
  /\ LockInv
  /\ OpInv
  /\ MissInv
  /\ HandInv
  /\ FlushInv
  /\ VersionInv
  /\ NewerInv
  /\ UniqueBlock
  /\ CleanMatchesDisk
  /\ ReadInv

-----------------------------------------------------------------------------
\* The sector member of an unused block is some sector.
LEMMA AnySectorType == AnySector \in Sectors
  BY SectorsAssumption, Zenon DEF AnySector

\* The flush loop's index while the loop runs.
LEMMA FlushIndex ==
  ASSUME NEW k \in 0 .. CACHE_BLOCKS, k < CACHE_BLOCKS
  PROVE  k \in Blocks /\ k + 1 \in 0 .. CACHE_BLOCKS
  <1>1. CACHE_BLOCKS \in Nat
    BY BlocksAssumption, Zenon
  <1> QED
    BY <1>1 DEF Blocks

\* The labels and the operations that steps assign.
LEMMA Names ==
  /\ "idle" \in Labels /\ "acquire" \in Labels /\ "check" \in Labels
  /\ "clock" \in Labels /\ "install" \in Labels /\ "io" \in Labels
  /\ "release" \in Labels /\ "flush" \in Labels /\ "reacquire" \in Labels
  /\ "invalidate" \in Labels /\ "halt" \in Labels /\ "read" \in Ops
  BY Zenon DEF Labels, Ops

\* The clock hand stays on a block.
LEMMA FirstBlock == 0 \in Blocks
  BY BlocksAssumption DEF Blocks

\* The next block, unless the hand is on the last one.
LEMMA NextBlock ==
  ASSUME NEW b \in Blocks, b + 1 # CACHE_BLOCKS
  PROVE  b + 1 \in Blocks
  <1>1. CACHE_BLOCKS \in Nat /\ b \in 0 .. CACHE_BLOCKS - 1
    BY BlocksAssumption, Zenon DEF Blocks
  <1>2. b + 1 \in 0 .. CACHE_BLOCKS - 1
    BY <1>1
  <1> QED
    BY <1>2, Zenon DEF Blocks

\* Every step of the cache keeps the types.
LEMMA TypeStep == TypeOK /\ [Next]_vars => TypeOK'
  <1> SUFFICES ASSUME TypeOK, [Next]_vars PROVE TypeOK'
    BY Zenon
  <1> USE AnySectorType, Names DEF TypeOK, Versions
  <1>1. ASSUME NEW t \in Threads, Call(t) PROVE TypeOK'
    BY <1>1 DEF Call, blockVars, threadVars
  <1>2. ASSUME NEW t \in Threads, Acquire(t) PROVE TypeOK'
    BY <1>2, Zenon DEF Acquire, blockVars, threadVars
  <1>3. ASSUME NEW t \in Threads, Release(t) PROVE TypeOK'
    BY <1>3, Zenon DEF Release, blockVars, threadVars
  <1>4. ASSUME NEW t \in Threads, ReadHit(t) PROVE TypeOK'
    BY <1>4 DEF ReadHit, blockVars, threadVars
  <1>5. ASSUME NEW t \in Threads, WriteHit(t) PROVE TypeOK'
    BY <1>5 DEF WriteHit, blockVars, threadVars, CopyIn
  <1>6. ASSUME NEW t \in Threads, Miss(t) PROVE TypeOK'
    BY <1>6 DEF Miss, blockVars, threadVars
  <1>7. ASSUME NEW t \in Threads, ClockSkip(t) PROVE TypeOK'
    BY <1>7, FirstBlock, NextBlock, Zenon DEF ClockSkip, blockVars, threadVars
  <1>8. ASSUME NEW t \in Threads, ClockFree(t) PROVE TypeOK'
    BY <1>8, Zenon DEF ClockFree, blockVars, threadVars
  <1>9. ASSUME NEW t \in Threads, ClockEvict(t) PROVE TypeOK'
    BY <1>9, Zenon DEF ClockEvict, blockVars, threadVars
  <1>10. ASSUME NEW t \in Threads, ReadInstall(t) PROVE TypeOK'
    BY <1>10, Zenon DEF ReadInstall, blockVars, threadVars
  <1>11. ASSUME NEW t \in Threads, ReadFill(t) PROVE TypeOK'
    BY <1>11, Zenon DEF ReadFill, blockVars, threadVars
  <1>12. ASSUME NEW t \in Threads, WriteInstall(t) PROVE TypeOK'
    <2>1. version' \in Nat /\ data' \in [Blocks -> Nat]
      BY <1>12 DEF WriteInstall, CopyIn
    <2>2. dirty' \in [Blocks -> BOOLEAN] /\ recently_used' \in [Blocks -> BOOLEAN]
      BY <1>12, Zenon DEF WriteInstall, CopyIn
    <2>3. sector' \in [Blocks -> Sectors] /\ valid' \in [Blocks -> BOOLEAN]
      BY <1>12, Zenon DEF WriteInstall
    <2> QED
      BY <1>12, <2>1, <2>2, <2>3, Zenon DEF WriteInstall
  <1>13. ASSUME NEW t \in Threads, FlushBlock(t) PROVE TypeOK'
    <2>0. i[t] \in 0 .. CACHE_BLOCKS /\ i[t] < CACHE_BLOCKS
      BY <1>13, Zenon DEF FlushBlock
    <2>1. i[t] \in Blocks /\ i[t] + 1 \in 0 .. CACHE_BLOCKS
      BY ONLY <2>0, FlushIndex, Zenon
    <2>3. i' \in [Threads -> 0 .. CACHE_BLOCKS]
      BY <1>13, <2>1, Zenon DEF FlushBlock
    <2>2. disk' \in [Sectors -> Nat] /\ dirty' \in [Blocks -> BOOLEAN]
      <3>1. CASE valid[i[t]] /\ dirty[i[t]]
        <4>1. disk' = [disk EXCEPT ![sector[i[t]]] = data[i[t]]] /\ dirty' = [dirty EXCEPT ![i[t]] = FALSE]
          BY <1>13, <3>1, Zenon DEF FlushBlock
        <4>2. disk \in [Sectors -> Nat] /\ dirty \in [Blocks -> BOOLEAN] /\ data[i[t]] \in Nat
          BY <2>1, Zenon
        <4>3. sector[i[t]] \in Sectors /\ i[t] \in Blocks
          BY <2>1, Zenon
        <4>4. disk' \in [Sectors -> Nat]
          BY ONLY <4>1, <4>2, <4>3, Zenon
        <4>5. dirty' \in [Blocks -> BOOLEAN]
          BY ONLY <4>1, <4>2, <4>3, Zenon
        <4> QED
          BY <4>4, <4>5, Zenon
      <3>2. CASE ~(valid[i[t]] /\ dirty[i[t]])
        BY <1>13, <3>2, Zenon DEF FlushBlock
      <3> QED
        BY <3>1, <3>2, Zenon
    <2> QED
      BY <1>13, <2>1, <2>2, <2>3, Zenon DEF FlushBlock
  <1>14. ASSUME NEW t \in Threads, FlushEnd(t) PROVE TypeOK'
    BY <1>14 DEF FlushEnd, blockVars, threadVars
  <1>15. ASSUME NEW t \in Threads, Reacquire(t) PROVE TypeOK'
    BY <1>15, Zenon DEF Reacquire, blockVars, threadVars
  <1>16. ASSUME NEW t \in Threads, Invalidate(t) PROVE TypeOK'
    BY <1>16, FirstBlock, Zenon DEF Invalidate
  <1>17. CASE Reboot
    <2>1. /\ sector' \in [Blocks -> Sectors] /\ data' \in [Blocks -> Versions]
          /\ valid' \in [Blocks -> BOOLEAN] /\ dirty' \in [Blocks -> BOOLEAN]
          /\ recently_used' \in [Blocks -> BOOLEAN]
      BY ONLY <1>17, AnySectorType, Zenon DEF Reboot, Versions
    <2>2. /\ pc' \in [Threads -> Labels] /\ op' \in [Threads -> Ops]
          /\ arg' \in [Threads -> Sectors] /\ buffer' \in [Threads -> Versions]
      BY ONLY <1>17, AnySectorType, Names, Zenon DEF Reboot, Versions
    <2>3. i' \in [Threads -> 0 .. CACHE_BLOCKS]
      BY ONLY <1>17, BlocksAssumption DEF Reboot
    <2>4. /\ clock_index' \in Blocks /\ cache_hit' \in Nat /\ cache_miss' \in Nat
          /\ cache_lock' \in Threads \cup {NoThread}
          /\ disk' \in [Sectors -> Versions] /\ version' \in Versions
      BY <1>17, FirstBlock, Zenon DEF Reboot
    <2> QED
      BY ONLY <2>1, <2>2, <2>3, <2>4, Zenon DEF TypeOK
  <1>18. CASE UNCHANGED vars
    BY <1>18, Zenon DEF vars
  <1> QED
    BY <1>1, <1>2, <1>3, <1>4, <1>5, <1>6, <1>7, <1>8, <1>9, <1>10, <1>11, <1>12, <1>13, <1>14, <1>15, <1>16, <1>17, <1>18, Zenon DEF Next, Step, PowerOff, PowerLoss

\* The types the arithmetic of the invariant rests on.
LEMMA Numbers ==
  ASSUME TypeOK
  PROVE  /\ version \in Nat /\ clock_index \in Blocks
         /\ \A b \in Blocks : data[b] \in Nat /\ sector[b] \in Sectors
         /\ \A s \in Sectors : disk[s] \in Nat
         /\ \A u \in Threads : arg[u] \in Sectors
  BY Zenon DEF TypeOK, Versions

\* A call begins.
LEMMA CallStep ==
  ASSUME NEW t \in Threads, IInv, TypeOK', Call(t) PROVE IInv'
  <1>act. Call(t)
    BY Zenon
  <1>ok. TypeOK /\ TypeOK'
    BY Zenon DEF IInv
  <1> USE ThreadsAssumption
  <1>0. pc[t] = "idle" /\ cache_lock' = cache_lock /\ i' = i
    BY <1>act, Zenon DEF Call
  <1>1. pc'[t] = "acquire" /\ \A u \in Threads \ {t} : pc'[u] = pc[u]
    BY <1>ok, <1>act DEF TypeOK, Call
  <1>2. \A u \in Threads \ {t} : op'[u] = op[u] /\ arg'[u] = arg[u] /\ buffer'[u] = buffer[u]
    BY <1>ok, <1>act DEF TypeOK, Call
  <1>3. /\ sector' = sector /\ data' = data /\ valid' = valid /\ dirty' = dirty
        /\ clock_index' = clock_index /\ disk' = disk /\ version' = version
    BY <1>act, Zenon DEF Call, blockVars
  <1>4. \A b \in Blocks : Filling(b)' <=> Filling(b)
    BY <1>0, <1>1, <1>3, Zenon DEF Filling
  <1>5. LockInv'
    BY <1>0, <1>1, Zenon DEF IInv, LockInv, Critical
  <1>6. OpInv'
    BY <1>0, <1>1, <1>2 DEF IInv, OpInv
  <1>7. MissInv' /\ HandInv'
    BY <1>0, <1>1, <1>2, <1>3 DEF IInv, MissInv, HandInv, Matches
  <1>8. FlushInv'
    BY <1>0, <1>1, <1>3, Zenon DEF IInv, FlushInv
  <1>9. VersionInv' /\ NewerInv' /\ UniqueBlock' /\ CleanMatchesDisk'
    BY <1>3, <1>4, Zenon DEF IInv, VersionInv, NewerInv, UniqueBlock, CleanMatchesDisk
  <1>10. ReadInv'
    BY <1>0, <1>1, <1>2, <1>3 DEF IInv, ReadInv, Matches
  <1> QED
    BY <1>ok, <1>5, <1>6, <1>7, <1>8, <1>9, <1>10, Zenon DEF IInv

\* lock_acquire.
LEMMA AcquireStep ==
  ASSUME NEW t \in Threads, IInv, TypeOK', Acquire(t) PROVE IInv'
  <1>act. Acquire(t)
    BY Zenon
  <1>ok. TypeOK /\ TypeOK'
    BY Zenon DEF IInv
  <1> USE ThreadsAssumption
  <1>0. pc[t] = "acquire" /\ cache_lock = NoThread /\ cache_lock' = t /\ i' = i
    BY <1>act, Zenon DEF Acquire
  <1>1. pc'[t] = (IF op[t] \in {"read", "write"} THEN "check" ELSE "flush") /\ \A u \in Threads \ {t} : pc'[u] = pc[u]
    BY <1>ok, <1>act, Zenon DEF TypeOK, Acquire
  <1>2. op' = op /\ arg' = arg /\ buffer' = buffer
    BY <1>act, Zenon DEF Acquire
  <1>3. /\ sector' = sector /\ data' = data /\ valid' = valid /\ dirty' = dirty
        /\ clock_index' = clock_index /\ disk' = disk /\ version' = version
    BY <1>act, Zenon DEF Acquire, blockVars
  <1>4. \A b \in Blocks : Filling(b)' <=> Filling(b)
    BY <1>0, <1>1, <1>3, Zenon DEF Filling
  <1>5. LockInv'
    BY <1>0, <1>1, Zenon DEF IInv, LockInv, Critical
  <1>6. OpInv'
    BY <1>ok, <1>0, <1>1, <1>2 DEF IInv, OpInv, TypeOK, Ops
  <1>7. MissInv' /\ HandInv'
    BY <1>0, <1>1, <1>2, <1>3 DEF IInv, MissInv, HandInv, Matches
  <1>f. \A b \in Blocks : ~(b < 0)
    BY BlocksAssumption DEF Blocks
  <1>8. FlushInv'
    BY <1>0, <1>1, <1>3, <1>f DEF IInv, FlushInv
  <1>9. VersionInv' /\ NewerInv' /\ UniqueBlock' /\ CleanMatchesDisk'
    BY <1>3, <1>4, Zenon DEF IInv, VersionInv, NewerInv, UniqueBlock, CleanMatchesDisk
  <1>10. ReadInv'
    BY <1>0, <1>1, <1>2, <1>3 DEF IInv, ReadInv, Matches
  <1> QED
    BY <1>ok, <1>5, <1>6, <1>7, <1>8, <1>9, <1>10, Zenon DEF IInv

\* lock_release.
LEMMA ReleaseStep ==
  ASSUME NEW t \in Threads, IInv, TypeOK', Release(t) PROVE IInv'
  <1>act. Release(t)
    BY Zenon
  <1>ok. TypeOK /\ TypeOK'
    BY Zenon DEF IInv
  <1> USE ThreadsAssumption
  <1>0. pc[t] = "release" /\ cache_lock' = NoThread /\ i' = i
    BY <1>act, Zenon DEF Release
  <1>1. pc'[t] = "idle" /\ \A u \in Threads \ {t} : pc'[u] = pc[u]
    BY <1>ok, <1>act DEF TypeOK, Release
  <1>2. \A u \in Threads \ {t} : op'[u] = op[u] /\ arg'[u] = arg[u] /\ buffer'[u] = buffer[u]
    BY <1>ok, <1>act DEF TypeOK, Release
  <1>3. /\ sector' = sector /\ data' = data /\ valid' = valid /\ dirty' = dirty
        /\ clock_index' = clock_index /\ disk' = disk /\ version' = version
    BY <1>act, Zenon DEF Release, blockVars
  <1>4. \A b \in Blocks : Filling(b)' <=> Filling(b)
    BY <1>0, <1>1, <1>3, Zenon DEF Filling
  <1>5. LockInv'
    BY <1>0, <1>1, Zenon DEF IInv, LockInv, Critical
  <1>6. OpInv'
    BY <1>0, <1>1, <1>2 DEF IInv, OpInv
  <1>7. MissInv' /\ HandInv'
    BY <1>0, <1>1, <1>2, <1>3 DEF IInv, MissInv, HandInv, Matches
  <1>8. FlushInv'
    BY <1>0, <1>1, <1>3, Zenon DEF IInv, FlushInv
  <1>9. VersionInv' /\ NewerInv' /\ UniqueBlock' /\ CleanMatchesDisk'
    BY <1>3, <1>4, Zenon DEF IInv, VersionInv, NewerInv, UniqueBlock, CleanMatchesDisk
  <1>10. ReadInv'
    BY <1>0, <1>1, <1>2, <1>3 DEF IInv, ReadInv, Matches
  <1> QED
    BY <1>ok, <1>5, <1>6, <1>7, <1>8, <1>9, <1>10, Zenon DEF IInv

\* The sector is not cached.
LEMMA MissStep ==
  ASSUME NEW t \in Threads, IInv, TypeOK', Miss(t) PROVE IInv'
  <1>act. Miss(t)
    BY Zenon
  <1>ok. TypeOK /\ TypeOK'
    BY Zenon DEF IInv
  <1> USE ThreadsAssumption
  <1>0. pc[t] = "check" /\ cache_lock' = cache_lock /\ i' = i /\ \A b \in Blocks : ~Matches(b, arg[t])
    BY <1>act, Zenon DEF Miss
  <1>1. pc'[t] = "clock" /\ \A u \in Threads \ {t} : pc'[u] = pc[u]
    BY <1>ok, <1>act, Zenon DEF TypeOK, Miss
  <1>2. op' = op /\ arg' = arg /\ buffer' = buffer
    BY <1>act, Zenon DEF Miss
  <1>3. /\ sector' = sector /\ data' = data /\ valid' = valid /\ dirty' = dirty
        /\ clock_index' = clock_index /\ disk' = disk /\ version' = version
    BY <1>act, Zenon DEF Miss, blockVars
  <1>4. \A b \in Blocks : Filling(b)' <=> Filling(b)
    BY <1>0, <1>1, <1>3, Zenon DEF Filling
  <1>5. LockInv'
    BY <1>0, <1>1, Zenon DEF IInv, LockInv, Critical
  <1>6. OpInv'
    BY <1>0, <1>1, <1>2, Zenon DEF IInv, OpInv
  <1>7. MissInv' /\ HandInv'
    BY <1>0, <1>1, <1>2, <1>3 DEF IInv, MissInv, HandInv, Matches
  <1>8. FlushInv'
    BY <1>0, <1>1, <1>3, Zenon DEF IInv, FlushInv
  <1>9. VersionInv' /\ NewerInv' /\ UniqueBlock' /\ CleanMatchesDisk'
    BY <1>3, <1>4, Zenon DEF IInv, VersionInv, NewerInv, UniqueBlock, CleanMatchesDisk
  <1>10. ReadInv'
    BY <1>0, <1>1, <1>2, <1>3 DEF IInv, ReadInv, Matches
  <1> QED
    BY <1>ok, <1>5, <1>6, <1>7, <1>8, <1>9, <1>10, Zenon DEF IInv

\* The hand finds a free block.
LEMMA ClockFreeStep ==
  ASSUME NEW t \in Threads, IInv, TypeOK', ClockFree(t) PROVE IInv'
  <1>act. ClockFree(t)
    BY Zenon
  <1>ok. TypeOK /\ TypeOK'
    BY Zenon DEF IInv
  <1> USE ThreadsAssumption
  <1>0. pc[t] = "clock" /\ cache_lock' = cache_lock /\ i' = i /\ ~valid[clock_index]
    BY <1>act, Zenon DEF ClockFree
  <1>1. pc'[t] = "install" /\ \A u \in Threads \ {t} : pc'[u] = pc[u]
    BY <1>ok, <1>act, Zenon DEF TypeOK, ClockFree
  <1>2. op' = op /\ arg' = arg /\ buffer' = buffer
    BY <1>act, Zenon DEF ClockFree
  <1>3. /\ sector' = sector /\ data' = data /\ valid' = valid /\ dirty' = dirty
        /\ clock_index' = clock_index /\ disk' = disk /\ version' = version
    BY <1>act, Zenon DEF ClockFree, blockVars
  <1>4. \A b \in Blocks : Filling(b)' <=> Filling(b)
    BY <1>0, <1>1, <1>3, Zenon DEF Filling
  <1>5. LockInv'
    BY <1>0, <1>1, Zenon DEF IInv, LockInv, Critical
  <1>6. OpInv'
    BY <1>0, <1>1, <1>2, Zenon DEF IInv, OpInv
  <1>7. MissInv' /\ HandInv'
    BY <1>0, <1>1, <1>2, <1>3 DEF IInv, MissInv, HandInv, Matches
  <1>8. FlushInv'
    BY <1>0, <1>1, <1>3, Zenon DEF IInv, FlushInv
  <1>9. VersionInv' /\ NewerInv' /\ UniqueBlock' /\ CleanMatchesDisk'
    BY <1>3, <1>4, Zenon DEF IInv, VersionInv, NewerInv, UniqueBlock, CleanMatchesDisk
  <1>10. ReadInv'
    BY <1>0, <1>1, <1>2, <1>3, Zenon DEF IInv, ReadInv, Matches
  <1> QED
    BY <1>ok, <1>5, <1>6, <1>7, <1>8, <1>9, <1>10, Zenon DEF IInv

-----------------------------------------------------------------------------
(* Hits, evictions and reads that miss.                                    *)

\* A read hits.
LEMMA ReadHitStep ==
  ASSUME NEW t \in Threads, IInv, TypeOK', ReadHit(t) PROVE IInv'
  <1>act. ReadHit(t)
    BY Zenon
  <1>ok. TypeOK /\ TypeOK'
    BY Zenon DEF IInv
  <1>ty. /\ version \in Nat /\ clock_index \in Blocks
         /\ \A b \in Blocks : data[b] \in Nat /\ sector[b] \in Sectors
         /\ \A s \in Sectors : disk[s] \in Nat
         /\ \A u \in Threads : arg[u] \in Sectors
    BY <1>ok, Numbers, Zenon
  <1> USE ThreadsAssumption
  <1>0. pc[t] = "check" /\ op[t] = "read" /\ cache_lock' = cache_lock /\ i' = i
    BY <1>act, Zenon DEF ReadHit, threadVars
  <1>1. pc'[t] = "release" /\ \A u \in Threads \ {t} : pc'[u] = pc[u]
    BY <1>ok, <1>act DEF TypeOK, ReadHit, threadVars
  <1>2. op' = op /\ arg' = arg /\ \A u \in Threads \ {t} : buffer'[u] = buffer[u]
    BY <1>ok, <1>act DEF TypeOK, ReadHit, threadVars
  <1>3. \A u \in Threads \ {t} : pc[u] \notin Critical
    BY <1>0 DEF IInv, LockInv, Critical
  <1>c. \A u \in Threads : pc'[u] \in Critical => u = t
    BY <1>1, <1>3, Zenon
  <1>4. \A b \in Blocks : (Filling(b) <=> FALSE) /\ (Filling(b)' <=> FALSE)
    BY <1>0, <1>1, <1>3, Zenon DEF Filling, Critical
  <1>5. sector' = sector /\ data' = data /\ valid' = valid /\ dirty' = dirty /\ disk' = disk /\ version' = version
    BY <1>act, Zenon DEF ReadHit
  <1>6. \E b \in Blocks : Matches(b, arg[t]) /\ buffer'[t] = data[b]
    BY <1>ok, <1>act DEF ReadHit, FirstMatch, TypeOK
  <1>7. LockInv'
    BY <1>0, <1>1, Zenon DEF IInv, LockInv, Critical
  <1>8. OpInv'
    BY <1>0, <1>1, <1>2, Zenon DEF IInv, OpInv
  <1>9. MissInv'
    BY <1>1, <1>c, Zenon DEF MissInv, Critical
  <1>10. HandInv'
    BY <1>1, <1>c, Zenon DEF HandInv, Critical
  <1>11. FlushInv'
    BY <1>0, <1>1, <1>3, <1>c, Zenon DEF IInv, FlushInv, Critical
  <1>12. VersionInv'
    BY <1>ty, <1>5, <1>6, Zenon DEF IInv, VersionInv
  <1>13. NewerInv'
    BY <1>ty, <1>4, <1>5, <1>6, Zenon DEF IInv, NewerInv
  <1>14. UniqueBlock'
    BY <1>0, <1>5, <1>6, Zenon DEF IInv, UniqueBlock
  <1>15. CleanMatchesDisk'
    BY <1>ty, <1>4, <1>5, <1>6, Zenon DEF IInv, CleanMatchesDisk
  <1>16. ReadInv'
    BY <1>0, <1>1, <1>2, <1>5, <1>6, <1>c DEF IInv, ReadInv, Matches, Critical, OpInv
  <1> QED
    BY <1>ok, <1>7, <1>8, <1>9, <1>10, <1>11, <1>12, <1>13, <1>14, <1>15, <1>16, Zenon DEF IInv

\* A write hits.
LEMMA WriteHitStep ==
  ASSUME NEW t \in Threads, IInv, TypeOK', WriteHit(t) PROVE IInv'
  <1>act. WriteHit(t)
    BY Zenon
  <1>ok. TypeOK /\ TypeOK'
    BY Zenon DEF IInv
  <1>ty. /\ version \in Nat /\ clock_index \in Blocks
         /\ \A b \in Blocks : data[b] \in Nat /\ sector[b] \in Sectors
         /\ \A s \in Sectors : disk[s] \in Nat
         /\ \A u \in Threads : arg[u] \in Sectors
    BY <1>ok, Numbers, Zenon
  <1> USE ThreadsAssumption
  <1>0. pc[t] = "check" /\ op[t] = "write" /\ cache_lock' = cache_lock /\ i' = i
    BY <1>act, Zenon DEF WriteHit, threadVars
  <1>1. pc'[t] = "release" /\ \A u \in Threads \ {t} : pc'[u] = pc[u]
    BY <1>ok, <1>act, Zenon DEF TypeOK, WriteHit, threadVars
  <1>2. op' = op /\ arg' = arg /\ \A u \in Threads \ {t} : buffer'[u] = buffer[u]
    BY <1>ok, <1>act, Zenon DEF TypeOK, WriteHit, threadVars
  <1>3. \A u \in Threads \ {t} : pc[u] \notin Critical
    BY <1>0 DEF IInv, LockInv, Critical
  <1>c. \A u \in Threads : pc'[u] \in Critical => u = t
    BY <1>1, <1>3, Zenon
  <1>4. \A b \in Blocks : (Filling(b) <=> FALSE) /\ (Filling(b)' <=> FALSE)
    BY <1>0, <1>1, <1>3, Zenon DEF Filling, Critical
  <1>5. PICK b \in Blocks : Matches(b, arg[t]) /\ CopyIn(b)
    BY <1>act, Zenon DEF WriteHit, FirstMatch
  <1>6. /\ sector' = sector /\ valid' = valid /\ disk' = disk /\ version' = version + 1
        /\ data'[b] = version + 1 /\ dirty'[b]
        /\ \A c \in Blocks \ {b} : data'[c] = data[c] /\ dirty'[c] = dirty[c]
    <2>1. data \in [Blocks -> Versions] /\ dirty \in [Blocks -> BOOLEAN]
      BY <1>ok, Zenon DEF TypeOK
    <2>2. sector' = sector /\ valid' = valid /\ disk' = disk
      BY <1>act, Zenon DEF WriteHit
    <2> QED
      BY ONLY <1>5, <2>1, <2>2, Zenon DEF CopyIn
  <1>7. LockInv'
    BY <1>0, <1>1, Zenon DEF IInv, LockInv, Critical
  <1>8. OpInv'
    BY <1>0, <1>1, <1>2 DEF IInv, OpInv
  <1>9. MissInv'
    BY <1>1, <1>c, Zenon DEF MissInv, Critical
  <1>10. HandInv'
    BY <1>1, <1>c, Zenon DEF HandInv, Critical
  <1>11. FlushInv'
    BY <1>0, <1>1, <1>3, <1>c, Zenon DEF IInv, FlushInv, Critical
  <1>12. VersionInv'
    BY <1>ty, <1>5, <1>6 DEF IInv, VersionInv
  <1>13. NewerInv'
    BY <1>ty, <1>4, <1>5, <1>6 DEF IInv, NewerInv, VersionInv
  <1>14. UniqueBlock'
    BY <1>0, <1>5, <1>6, Zenon DEF IInv, UniqueBlock
  <1>15. CleanMatchesDisk'
    BY <1>ty, <1>4, <1>5, <1>6 DEF IInv, CleanMatchesDisk
  <1>16. ReadInv'
    BY <1>0, <1>1, <1>2, <1>c, Zenon DEF ReadInv, Critical
  <1> QED
    BY <1>ok, <1>7, <1>8, <1>9, <1>10, <1>11, <1>12, <1>13, <1>14, <1>15, <1>16, Zenon DEF IInv

\* The hand passes a recently used block.
LEMMA ClockSkipStep ==
  ASSUME NEW t \in Threads, IInv, TypeOK', ClockSkip(t) PROVE IInv'
  <1>act. ClockSkip(t)
    BY Zenon
  <1>ok. TypeOK /\ TypeOK'
    BY Zenon DEF IInv
  <1>ty. /\ version \in Nat /\ clock_index \in Blocks
         /\ \A b \in Blocks : data[b] \in Nat /\ sector[b] \in Sectors
         /\ \A s \in Sectors : disk[s] \in Nat
         /\ \A u \in Threads : arg[u] \in Sectors
    BY <1>ok, Numbers, Zenon
  <1> USE ThreadsAssumption
  <1>0. pc[t] = "clock" /\ cache_lock' = cache_lock /\ i' = i
    BY <1>act, Zenon DEF ClockSkip, threadVars
  <1>1. pc'[t] = "clock" /\ \A u \in Threads \ {t} : pc'[u] = pc[u]
    BY <1>ok, <1>act, Zenon DEF TypeOK, ClockSkip, threadVars
  <1>2. op' = op /\ arg' = arg /\ \A u \in Threads \ {t} : buffer'[u] = buffer[u]
    BY <1>ok, <1>act, Zenon DEF TypeOK, ClockSkip, threadVars
  <1>3. \A u \in Threads \ {t} : pc[u] \notin Critical
    BY <1>0, Zenon DEF IInv, LockInv, Critical
  <1>c. \A u \in Threads : pc'[u] \in Critical => u = t
    BY <1>1, <1>3, Zenon
  <1>4. \A b \in Blocks : (Filling(b) <=> FALSE) /\ (Filling(b)' <=> FALSE)
    BY <1>0, <1>1, <1>3, Zenon DEF Filling, Critical
  <1>5. sector' = sector /\ data' = data /\ valid' = valid /\ dirty' = dirty /\ disk' = disk /\ version' = version
    BY <1>act, Zenon DEF ClockSkip
  <1>6. buffer' = buffer
    BY <1>act, Zenon DEF ClockSkip, threadVars
  <1>7. LockInv'
    BY <1>0, <1>1, Zenon DEF IInv, LockInv, Critical
  <1>8. OpInv'
    BY <1>0, <1>1, <1>2, Zenon DEF IInv, OpInv
  <1>9. MissInv'
    BY <1>0, <1>1, <1>2, <1>5, <1>6, <1>c, Zenon DEF IInv, MissInv, Matches, Critical
  <1>10. HandInv'
    BY <1>1, <1>c, Zenon DEF HandInv, Critical
  <1>11. FlushInv'
    BY <1>0, <1>1, <1>3, <1>c, Zenon DEF IInv, FlushInv, Critical
  <1>12. VersionInv'
    BY <1>ty, <1>5, <1>6, Zenon DEF IInv, VersionInv
  <1>13. NewerInv'
    BY <1>ty, <1>4, <1>5, <1>6, Zenon DEF IInv, NewerInv
  <1>14. UniqueBlock'
    BY <1>0, <1>5, <1>6, Zenon DEF IInv, UniqueBlock
  <1>15. CleanMatchesDisk'
    BY <1>ty, <1>4, <1>5, <1>6, Zenon DEF IInv, CleanMatchesDisk
  <1>16. ReadInv'
    BY <1>1, <1>c, Zenon DEF ReadInv, Critical
  <1> QED
    BY <1>ok, <1>7, <1>8, <1>9, <1>10, <1>11, <1>12, <1>13, <1>14, <1>15, <1>16, Zenon DEF IInv

\* The hand evicts a block.
LEMMA ClockEvictStep ==
  ASSUME NEW t \in Threads, IInv, TypeOK', ClockEvict(t) PROVE IInv'
  <1>act. ClockEvict(t)
    BY Zenon
  <1>ok. TypeOK /\ TypeOK'
    BY Zenon DEF IInv
  <1>ty. /\ version \in Nat /\ clock_index \in Blocks
         /\ \A b \in Blocks : data[b] \in Nat /\ sector[b] \in Sectors
         /\ \A s \in Sectors : disk[s] \in Nat
         /\ \A u \in Threads : arg[u] \in Sectors
    BY <1>ok, Numbers, Zenon
  <1> USE ThreadsAssumption
  <1>0. pc[t] = "clock" /\ valid[clock_index] /\ clock_index' = clock_index /\ version' = version /\ buffer' = buffer /\ cache_lock' = cache_lock /\ i' = i
    BY <1>act, Zenon DEF ClockEvict, threadVars
  <1>1. pc'[t] = "install" /\ \A u \in Threads \ {t} : pc'[u] = pc[u]
    BY <1>ok, <1>act DEF TypeOK, ClockEvict, threadVars
  <1>2. op' = op /\ arg' = arg /\ \A u \in Threads \ {t} : buffer'[u] = buffer[u]
    BY <1>ok, <1>act, Zenon DEF TypeOK, ClockEvict, threadVars
  <1>3. \A u \in Threads \ {t} : pc[u] \notin Critical
    BY <1>0, Zenon DEF IInv, LockInv, Critical
  <1>c. \A u \in Threads : pc'[u] \in Critical => u = t
    BY <1>1, <1>3, Zenon
  <1>4. \A b \in Blocks : (Filling(b) <=> FALSE) /\ (Filling(b)' <=> FALSE)
    BY <1>0, <1>1, <1>3, Zenon DEF Filling, Critical
  <1>5. /\ sector' = sector /\ data' = data /\ ~valid'[clock_index] /\ clock_index \in Blocks
        /\ \A c \in Blocks \ {clock_index} : valid'[c] = valid[c] /\ dirty'[c] = dirty[c]
    BY <1>ok, <1>act DEF ClockEvict, TypeOK
  <1>6. \A s \in Sectors :
          disk'[s] = IF dirty[clock_index] /\ s = sector[clock_index]
                       THEN data[clock_index] ELSE disk[s]
    BY <1>ok, <1>act DEF ClockEvict, TypeOK
  <1>b. \A b \in Blocks : valid'[b] =>
          /\ b # clock_index /\ valid[b] /\ dirty'[b] = dirty[b]
          /\ disk'[sector[b]] = disk[sector[b]]
    BY <1>ty, <1>0, <1>5, <1>6 DEF IInv, UniqueBlock
  <1>7. LockInv'
    BY <1>0, <1>1, Zenon DEF IInv, LockInv, Critical
  <1>8. OpInv'
    BY <1>0, <1>1, <1>2 DEF IInv, OpInv
  <1>9. MissInv'
    BY <1>0, <1>1, <1>2, <1>5, <1>6, <1>c DEF IInv, MissInv, Matches, Critical
  <1>10. HandInv'
    BY <1>0, <1>1, <1>2, <1>5, <1>6, <1>c, Zenon DEF IInv, HandInv, Matches, Critical
  <1>11. FlushInv'
    BY <1>0, <1>1, <1>3, <1>c, Zenon DEF IInv, FlushInv, Critical
  <1>12. VersionInv'
    BY <1>ty, <1>0, <1>5, <1>6, Zenon DEF IInv, VersionInv
  <1>13. NewerInv'
    BY <1>b, <1>4, <1>5, Zenon DEF IInv, NewerInv
  <1>14. UniqueBlock'
    BY <1>0, <1>5, <1>6 DEF IInv, UniqueBlock
  <1>15. CleanMatchesDisk'
    BY <1>b, <1>4, <1>5 DEF IInv, CleanMatchesDisk
  <1>16. ReadInv'
    BY <1>1, <1>c, Zenon DEF ReadInv, Critical
  <1> QED
    BY <1>ok, <1>7, <1>8, <1>9, <1>10, <1>11, <1>12, <1>13, <1>14, <1>15, <1>16, Zenon DEF IInv

\* A read installs its block, before the disk is read.
LEMMA ReadInstallStep ==
  ASSUME NEW t \in Threads, IInv, TypeOK', ReadInstall(t) PROVE IInv'
  <1>act. ReadInstall(t)
    BY Zenon
  <1>ok. TypeOK /\ TypeOK'
    BY Zenon DEF IInv
  <1>ty. /\ version \in Nat /\ clock_index \in Blocks
         /\ \A b \in Blocks : data[b] \in Nat /\ sector[b] \in Sectors
         /\ \A s \in Sectors : disk[s] \in Nat
         /\ \A u \in Threads : arg[u] \in Sectors
    BY <1>ok, Numbers, Zenon
  <1> USE ThreadsAssumption
  <1>0. pc[t] = "install" /\ op[t] = "read" /\ clock_index' = clock_index /\ cache_lock' = cache_lock /\ i' = i
    BY <1>act, Zenon DEF ReadInstall, threadVars
  <1>1. pc'[t] = "io" /\ \A u \in Threads \ {t} : pc'[u] = pc[u]
    BY <1>ok, <1>act DEF TypeOK, ReadInstall, threadVars
  <1>2. op' = op /\ arg' = arg /\ \A u \in Threads \ {t} : buffer'[u] = buffer[u]
    BY <1>ok, <1>act, Zenon DEF TypeOK, ReadInstall, threadVars
  <1>3. \A u \in Threads \ {t} : pc[u] \notin Critical
    BY <1>0 DEF IInv, LockInv, Critical
  <1>c. \A u \in Threads : pc'[u] \in Critical => u = t
    BY <1>1, <1>3, Zenon
  <1>4. \A b \in Blocks : (Filling(b) <=> FALSE) /\ (Filling(b)' <=> b = clock_index)
    BY <1>0, <1>1, <1>3, Zenon DEF Filling, Critical
  <1>5. /\ data' = data /\ disk' = disk /\ clock_index' = clock_index /\ clock_index \in Blocks
        /\ valid'[clock_index] /\ sector'[clock_index] = arg[t] /\ ~dirty'[clock_index]
        /\ \A c \in Blocks \ {clock_index} :
             valid'[c] = valid[c] /\ dirty'[c] = dirty[c] /\ sector'[c] = sector[c]
    BY <1>ok, <1>act DEF ReadInstall, TypeOK
  <1>6. buffer' = buffer /\ version' = version
    BY <1>act, Zenon DEF ReadInstall
  <1>7. LockInv'
    BY <1>0, <1>1, Zenon DEF IInv, LockInv, Critical
  <1>8. OpInv'
    BY <1>0, <1>1, <1>2, Zenon DEF IInv, OpInv
  <1>9. MissInv'
    BY <1>1, <1>c, Zenon DEF MissInv, Critical
  <1>10. HandInv'
    BY <1>0, <1>1, <1>2, <1>5, <1>6, <1>c, Zenon DEF IInv, HandInv, Matches, Critical
  <1>11. FlushInv'
    BY <1>0, <1>1, <1>3, <1>c, Zenon DEF IInv, FlushInv, Critical
  <1>12. VersionInv'
    BY <1>ty, <1>5, <1>6, Zenon DEF IInv, VersionInv
  <1>13. NewerInv'
    BY <1>ty, <1>4, <1>5, <1>6, Zenon DEF IInv, NewerInv
  <1>14. UniqueBlock'
    <2>1. UniqueBlock /\ \A b \in Blocks : ~(valid[b] /\ sector[b] = arg[t])
      BY <1>0, Zenon DEF IInv, MissInv, Matches
    <2> QED
      BY <1>5, <2>1 DEF UniqueBlock
  <1>15. CleanMatchesDisk'
    BY <1>ty, <1>4, <1>5, <1>6 DEF IInv, CleanMatchesDisk
  <1>16. ReadInv'
    BY <1>1, <1>c, Zenon DEF ReadInv, Critical
  <1> QED
    BY <1>ok, <1>7, <1>8, <1>9, <1>10, <1>11, <1>12, <1>13, <1>14, <1>15, <1>16, Zenon DEF IInv

\* The disk read of a miss ends.
LEMMA ReadFillStep ==
  ASSUME NEW t \in Threads, IInv, TypeOK', ReadFill(t) PROVE IInv'
  <1>act. ReadFill(t)
    BY Zenon
  <1>ok. TypeOK /\ TypeOK'
    BY Zenon DEF IInv
  <1>ty. /\ version \in Nat /\ clock_index \in Blocks
         /\ \A b \in Blocks : data[b] \in Nat /\ sector[b] \in Sectors
         /\ \A s \in Sectors : disk[s] \in Nat
         /\ \A u \in Threads : arg[u] \in Sectors
    BY <1>ok, Numbers, Zenon
  <1> USE ThreadsAssumption
  <1>0. pc[t] = "io" /\ cache_lock' = cache_lock /\ i' = i
    BY <1>act, Zenon DEF ReadFill, threadVars
  <1>1. pc'[t] = "release" /\ \A u \in Threads \ {t} : pc'[u] = pc[u]
    BY <1>ok, <1>act DEF TypeOK, ReadFill, threadVars
  <1>2. op' = op /\ arg' = arg /\ \A u \in Threads \ {t} : buffer'[u] = buffer[u]
    BY <1>ok, <1>act DEF TypeOK, ReadFill, threadVars
  <1>3. \A u \in Threads \ {t} : pc[u] \notin Critical
    BY <1>0, Zenon DEF IInv, LockInv, Critical
  <1>c. \A u \in Threads : pc'[u] \in Critical => u = t
    BY <1>1, <1>3, Zenon
  <1>4. \A b \in Blocks : (Filling(b) <=> b = clock_index) /\ (Filling(b)' <=> FALSE)
    BY <1>0, <1>1, <1>3, Zenon DEF Filling, Critical
  <1>5. /\ sector' = sector /\ valid' = valid /\ dirty' = dirty /\ disk' = disk /\ version' = version
        /\ clock_index \in Blocks /\ data'[clock_index] = disk[arg[t]]
        /\ \A c \in Blocks \ {clock_index} : data'[c] = data[c]
    BY <1>ok, <1>act DEF ReadFill, TypeOK
  <1>6. buffer'[t] = disk[arg[t]] /\ Matches(clock_index, arg[t])
    <2>1. Matches(clock_index, arg[t])
      BY <1>0, Zenon DEF IInv, HandInv
    <2> QED
      BY <1>ok, <1>act, <2>1, Zenon DEF ReadFill, TypeOK
  <1>7. LockInv'
    BY <1>0, <1>1, Zenon DEF IInv, LockInv, Critical
  <1>8. OpInv'
    BY <1>0, <1>1, <1>2, Zenon DEF IInv, OpInv
  <1>9. MissInv'
    BY <1>1, <1>c, Zenon DEF MissInv, Critical
  <1>10. HandInv'
    BY <1>1, <1>c, Zenon DEF HandInv, Critical
  <1>11. FlushInv'
    BY <1>0, <1>1, <1>3, <1>c, Zenon DEF IInv, FlushInv, Critical
  <1>12. VersionInv'
    BY <1>ty, <1>5, <1>6, Zenon DEF IInv, VersionInv
  <1>13. NewerInv'
    <2>1. NewerInv /\ sector[clock_index] = arg[t]
      BY <1>6, Zenon DEF IInv, Matches
    <2> QED
      BY <1>ty, <1>4, <1>5, <2>1 DEF NewerInv
  <1>14. UniqueBlock'
    BY <1>0, <1>5, <1>6, Zenon DEF IInv, UniqueBlock
  <1>15. CleanMatchesDisk'
    BY <1>ty, <1>4, <1>5, <1>6, Zenon DEF IInv, CleanMatchesDisk, Matches
  <1>16. ReadInv'
    BY <1>0, <1>1, <1>2, <1>5, <1>6, <1>c DEF IInv, ReadInv, Matches, Critical, OpInv
  <1> QED
    BY <1>ok, <1>7, <1>8, <1>9, <1>10, <1>11, <1>12, <1>13, <1>14, <1>15, <1>16, Zenon DEF IInv
=============================================================================
