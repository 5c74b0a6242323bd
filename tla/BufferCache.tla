----------------------------- MODULE BufferCache -----------------------------
(***************************************************************************)
(* The buffer cache of filesys/buffer.c: CACHE_BLOCKS cache blocks in      *)
(* front of the file system device, one global cache_lock, clock           *)
(* replacement, write-back of dirty blocks on eviction, on shutdown        *)
(* (cache_flush from filesys_done) and on cache_reset.                     *)
(*                                                                         *)
(* Threads interleave between any two steps of one thread.  What a thread  *)
(* does under cache_lock without sleeping is one step; block_read and      *)
(* block_write sleep, so each of them ends a step and the machine may lose *)
(* power before it.  Sector contents are version numbers: version n is the *)
(* n-th buffer that cache_write_at copied into the cache since the disk    *)
(* was formatted, so a larger version is a later write.                    *)
(***************************************************************************)
EXTENDS Integers, FiniteSets

CONSTANTS
  Threads,       \* kernel threads that call into the cache
  NoThread,      \* lock->holder == NULL
  Resetters,     \* the threads that may issue SYS_CACHE_RESET
  Sectors,       \* sectors of fs_device
  CACHE_BLOCKS,  \* number of cache blocks (64 in the code)
  MaxWrites,     \* bound: buffers written per formatted disk
  MaxLookups     \* bound: no new call once hits + misses reach it

ASSUME ThreadsAssumption == NoThread \notin Threads /\ Resetters \subseteq Threads
ASSUME BlocksAssumption  == CACHE_BLOCKS \in Nat \ {0}
ASSUME BoundsAssumption  == MaxWrites \in Nat /\ MaxLookups \in Nat
ASSUME SectorsAssumption == Sectors # {}

Blocks   == 0 .. CACHE_BLOCKS - 1
Versions == Nat
Ops      == {"read", "write", "shutdown", "reset"}
Labels   == {"idle", "acquire", "check", "clock", "install", "io", "release",
             "flush", "reacquire", "invalidate", "halt"}

VARIABLES
  \* struct cache_block cache_blocks[CACHE_BLOCKS], a function per member
  sector, data, valid, dirty, recently_used,
  \* the globals
  clock_index, cache_hit, cache_miss, cache_lock,
  \* the device behind the cache
  disk,
  \* the threads: program counter, operation, its sector, the caller's
  \* buffer, the loop index of cache_flush
  pc, op, arg, buffer, i,
  \* number of the last version written
  version

blockVars  == <<sector, data, valid, dirty, recently_used>>
threadVars == <<pc, op, arg, buffer, i>>
vars == <<sector, data, valid, dirty, recently_used, clock_index, cache_hit,
          cache_miss, cache_lock, disk, pc, op, arg, buffer, i, version>>

-----------------------------------------------------------------------------
(* Reading the cache.                                                      *)

\* cache_check's test of one block.
Matches(b, s) == valid[b] /\ sector[b] = s

\* The block cache_check returns: the first one that matches.
FirstMatch(b, s) ==
  /\ Matches(b, s)
  /\ \A c \in Blocks : c < b => ~Matches(c, s)

\* A block whose block_read has not finished: valid is set before the read.
Filling(b) == b = clock_index /\ \E t \in Threads : pc[t] = "io"

\* What a reader of sector s must see: the cached copy if there is one.
Holds(b, s) == Matches(b, s) /\ ~Filling(b)

View(s) == IF \E b \in Blocks : Holds(b, s)
             THEN data[CHOOSE b \in Blocks : Holds(b, s)]
             ELSE disk[s]

-----------------------------------------------------------------------------
(* Boot and calls.                                                         *)

\* Sector members are zero at boot and meaningless until a block is valid.
AnySector == CHOOSE s \in Sectors : TRUE

filesys_cache_init ==
  /\ sector = [b \in Blocks |-> AnySector]
  /\ data = [b \in Blocks |-> 0]
  /\ valid = [b \in Blocks |-> FALSE]
  /\ dirty = [b \in Blocks |-> FALSE]
  /\ recently_used = [b \in Blocks |-> FALSE]
  /\ clock_index = 0
  /\ cache_hit = 0
  /\ cache_miss = 0
  /\ cache_lock = NoThread

\* No thread is inside the cache when the file system comes up.
Idle ==
  /\ pc = [t \in Threads |-> "idle"]
  /\ op = [t \in Threads |-> "read"]
  /\ arg = [t \in Threads |-> AnySector]
  /\ buffer = [t \in Threads |-> 0]
  /\ i = [t \in Threads |-> 0]

Init ==
  /\ filesys_cache_init
  /\ Idle
  /\ disk = [s \in Sectors |-> 0]
  /\ version = 0

\* A thread enters cache_read_at, cache_write_at, filesys_done or cache_reset.
Call(t) ==
  /\ pc[t] = "idle"
  /\ cache_hit + cache_miss < MaxLookups
  /\ \E o \in Ops, s \in Sectors :
       /\ o = "reset" => t \in Resetters
       /\ o = "write" => version < MaxWrites
       /\ o \in {"shutdown", "reset"} => s = AnySector
       /\ op' = [op EXCEPT ![t] = o]
       /\ arg' = [arg EXCEPT ![t] = s]
  /\ pc' = [pc EXCEPT ![t] = "acquire"]
  /\ UNCHANGED <<blockVars, clock_index, cache_hit, cache_miss, cache_lock,
                 disk, buffer, i, version>>

\* lock_acquire (&cache_lock) at the head of each operation.
Acquire(t) ==
  /\ pc[t] = "acquire"
  /\ cache_lock = NoThread
  /\ cache_lock' = t
  /\ pc' = [pc EXCEPT ![t] = IF op[t] \in {"read", "write"} THEN "check" ELSE "flush"]
  /\ UNCHANGED <<blockVars, clock_index, cache_hit, cache_miss, disk, op, arg,
                 buffer, i, version>>

\* lock_release (&cache_lock) and return: the call's locals are gone and
\* what it read is the caller's.
Release(t) ==
  /\ pc[t] = "release"
  /\ cache_lock' = NoThread
  /\ pc' = [pc EXCEPT ![t] = "idle"]
  /\ op' = [op EXCEPT ![t] = "read"]
  /\ arg' = [arg EXCEPT ![t] = AnySector]
  /\ buffer' = [buffer EXCEPT ![t] = 0]
  /\ UNCHANGED <<blockVars, clock_index, cache_hit, cache_miss, disk, i, version>>

-----------------------------------------------------------------------------
(* cache_check and the two hit paths.                                      *)

\* memcpy of the caller's buffer into block b, as the next version.
CopyIn(b) ==
  /\ version' = version + 1
  /\ data' = [data EXCEPT ![b] = version + 1]
  /\ dirty' = [dirty EXCEPT ![b] = TRUE]
  /\ recently_used' = [recently_used EXCEPT ![b] = TRUE]

ReadHit(t) ==
  /\ pc[t] = "check" /\ op[t] = "read"
  /\ \E b \in Blocks :
       /\ FirstMatch(b, arg[t])
       /\ recently_used' = [recently_used EXCEPT ![b] = TRUE]
       /\ buffer' = [buffer EXCEPT ![t] = data[b]]
  /\ cache_hit' = cache_hit + 1
  /\ pc' = [pc EXCEPT ![t] = "release"]
  /\ UNCHANGED <<sector, data, valid, dirty, clock_index, cache_miss,
                 cache_lock, disk, op, arg, i, version>>

WriteHit(t) ==
  /\ pc[t] = "check" /\ op[t] = "write"
  /\ \E b \in Blocks : FirstMatch(b, arg[t]) /\ CopyIn(b)
  /\ cache_hit' = cache_hit + 1
  /\ pc' = [pc EXCEPT ![t] = "release"]
  /\ UNCHANGED <<sector, valid, clock_index, cache_miss, cache_lock, disk,
                 op, arg, buffer, i>>

\* Wrong: cache_check stops one block early.
MissShortScan(t) ==
  /\ pc[t] = "check"
  /\ \A b \in Blocks \ {CACHE_BLOCKS - 1} : ~Matches(b, arg[t])
  /\ cache_miss' = cache_miss + 1
  /\ pc' = [pc EXCEPT ![t] = "clock"]
  /\ UNCHANGED <<blockVars, clock_index, cache_hit, cache_lock, disk, op, arg,
                 buffer, i, version>>

Miss(t) ==
  /\ pc[t] = "check"
  /\ \A b \in Blocks : ~Matches(b, arg[t])
  /\ cache_miss' = cache_miss + 1
  /\ pc' = [pc EXCEPT ![t] = "clock"]
  /\ UNCHANGED <<blockVars, clock_index, cache_hit, cache_lock, disk, op, arg,
                 buffer, i, version>>

-----------------------------------------------------------------------------
(* cache_get_block: one iteration of its loop is one step.                 *)

\* Wrong: no second chance is ever used up.
ClockSkipKeepsUsed(t) ==
  /\ pc[t] = "clock"
  /\ valid[clock_index] /\ recently_used[clock_index]
  /\ clock_index' = IF clock_index + 1 = CACHE_BLOCKS THEN 0 ELSE clock_index + 1
  /\ UNCHANGED <<blockVars, cache_hit, cache_miss, cache_lock, disk,
                 threadVars, version>>

\* The hand passes a block that was used since its last visit.
ClockSkip(t) ==
  /\ pc[t] = "clock"
  /\ valid[clock_index] /\ recently_used[clock_index]
  /\ recently_used' = [recently_used EXCEPT ![clock_index] = FALSE]
  /\ clock_index' = IF clock_index + 1 = CACHE_BLOCKS THEN 0 ELSE clock_index + 1
  /\ UNCHANGED <<sector, data, valid, dirty, cache_hit, cache_miss, cache_lock,
                 disk, threadVars, version>>

\* The hand is on an unused block.
ClockFree(t) ==
  /\ pc[t] = "clock"
  /\ ~valid[clock_index]
  /\ pc' = [pc EXCEPT ![t] = "install"]
  /\ UNCHANGED <<blockVars, clock_index, cache_hit, cache_miss, cache_lock,
                 disk, op, arg, buffer, i, version>>

\* Wrong: a dirty block is dropped without block_write.
ClockEvictNoWrite(t) ==
  /\ pc[t] = "clock"
  /\ valid[clock_index] /\ ~recently_used[clock_index]
  /\ dirty' = [dirty EXCEPT ![clock_index] = FALSE]
  /\ valid' = [valid EXCEPT ![clock_index] = FALSE]
  /\ pc' = [pc EXCEPT ![t] = "install"]
  /\ UNCHANGED <<sector, data, recently_used, clock_index, cache_hit,
                 cache_miss, cache_lock, disk, op, arg, buffer, i, version>>

\* The hand evicts its block, after block_write if it is dirty.
ClockEvict(t) ==
  /\ pc[t] = "clock"
  /\ valid[clock_index] /\ ~recently_used[clock_index]
  /\ disk' = IF dirty[clock_index]
               THEN [disk EXCEPT ![sector[clock_index]] = data[clock_index]]
               ELSE disk
  /\ dirty' = [dirty EXCEPT ![clock_index] = FALSE]
  /\ valid' = [valid EXCEPT ![clock_index] = FALSE]
  /\ pc' = [pc EXCEPT ![t] = "install"]
  /\ UNCHANGED <<sector, data, recently_used, clock_index, cache_hit,
                 cache_miss, cache_lock, op, arg, buffer, i, version>>

-----------------------------------------------------------------------------
(* The miss paths: the block is the one under the hand.                    *)

\* cache_read_at up to its block_read, which sleeps.
ReadInstall(t) ==
  /\ pc[t] = "install" /\ op[t] = "read"
  /\ sector' = [sector EXCEPT ![clock_index] = arg[t]]
  /\ valid' = [valid EXCEPT ![clock_index] = TRUE]
  /\ dirty' = [dirty EXCEPT ![clock_index] = FALSE]
  /\ pc' = [pc EXCEPT ![t] = "io"]
  /\ UNCHANGED <<data, recently_used, clock_index, cache_hit, cache_miss,
                 cache_lock, disk, op, arg, buffer, i, version>>

\* Wrong: the block is copied out before block_read has filled it.
ReadFillLate(t) ==
  /\ pc[t] = "io"
  /\ data' = [data EXCEPT ![clock_index] = disk[arg[t]]]
  /\ recently_used' = [recently_used EXCEPT ![clock_index] = TRUE]
  /\ buffer' = [buffer EXCEPT ![t] = data[clock_index]]
  /\ pc' = [pc EXCEPT ![t] = "release"]
  /\ UNCHANGED <<sector, valid, dirty, clock_index, cache_hit, cache_miss,
                 cache_lock, disk, op, arg, i, version>>

\* Wrong: block_write where block_read is meant.
ReadFillWrites(t) ==
  /\ pc[t] = "io"
  /\ disk' = [disk EXCEPT ![arg[t]] = data[clock_index]]
  /\ recently_used' = [recently_used EXCEPT ![clock_index] = TRUE]
  /\ buffer' = [buffer EXCEPT ![t] = data[clock_index]]
  /\ pc' = [pc EXCEPT ![t] = "release"]
  /\ UNCHANGED <<sector, data, valid, dirty, clock_index, cache_hit,
                 cache_miss, cache_lock, op, arg, i, version>>

\* block_read returns and its data is copied out.
ReadFill(t) ==
  /\ pc[t] = "io"
  /\ data' = [data EXCEPT ![clock_index] = disk[arg[t]]]
  /\ recently_used' = [recently_used EXCEPT ![clock_index] = TRUE]
  /\ buffer' = [buffer EXCEPT ![t] = disk[arg[t]]]
  /\ pc' = [pc EXCEPT ![t] = "release"]
  /\ UNCHANGED <<sector, valid, dirty, clock_index, cache_hit, cache_miss,
                 cache_lock, disk, op, arg, i, version>>

\* A write miss overwrites the whole sector, so it reads nothing.
WriteInstall(t) ==
  /\ pc[t] = "install" /\ op[t] = "write"
  /\ sector' = [sector EXCEPT ![clock_index] = arg[t]]
  /\ valid' = [valid EXCEPT ![clock_index] = TRUE]
  /\ CopyIn(clock_index)
  /\ pc' = [pc EXCEPT ![t] = "release"]
  /\ UNCHANGED <<clock_index, cache_hit, cache_miss, cache_lock, disk, op, arg,
                 buffer, i>>

-----------------------------------------------------------------------------
(* cache_flush, cache_reset, shutdown.                                     *)

\* Wrong: the flush spares the blocks in use.
FlushBlockUnused(t) ==
  /\ pc[t] = "flush" /\ i[t] < CACHE_BLOCKS
  /\ IF valid[i[t]] /\ dirty[i[t]] /\ ~recently_used[i[t]]
       THEN /\ disk' = [disk EXCEPT ![sector[i[t]]] = data[i[t]]]
            /\ dirty' = [dirty EXCEPT ![i[t]] = FALSE]
       ELSE UNCHANGED <<disk, dirty>>
  /\ i' = [i EXCEPT ![t] = i[t] + 1]
  /\ UNCHANGED <<sector, data, valid, recently_used, clock_index, cache_hit,
                 cache_miss, cache_lock, pc, op, arg, buffer, version>>

\* One iteration of the flush loop.  block_lock is only ever taken here,
\* under cache_lock, so it is always free.
FlushBlock(t) ==
  /\ pc[t] = "flush" /\ i[t] < CACHE_BLOCKS
  /\ IF valid[i[t]] /\ dirty[i[t]]
       THEN /\ disk' = [disk EXCEPT ![sector[i[t]]] = data[i[t]]]
            /\ dirty' = [dirty EXCEPT ![i[t]] = FALSE]
       ELSE UNCHANGED <<disk, dirty>>
  /\ i' = [i EXCEPT ![t] = i[t] + 1]
  /\ UNCHANGED <<sector, data, valid, recently_used, clock_index, cache_hit,
                 cache_miss, cache_lock, pc, op, arg, buffer, version>>

\* cache_flush releases the lock; cache_reset then asks for it again.
FlushEnd(t) ==
  /\ pc[t] = "flush" /\ i[t] = CACHE_BLOCKS
  /\ cache_lock' = NoThread
  /\ pc' = [pc EXCEPT ![t] = IF op[t] = "reset" THEN "reacquire" ELSE "halt"]
  /\ i' = [i EXCEPT ![t] = 0]
  /\ UNCHANGED <<blockVars, clock_index, cache_hit, cache_miss, disk, op, arg,
                 buffer, version>>

Reacquire(t) ==
  /\ pc[t] = "reacquire"
  /\ cache_lock = NoThread
  /\ cache_lock' = t
  /\ pc' = [pc EXCEPT ![t] = "invalidate"]
  /\ UNCHANGED <<blockVars, clock_index, cache_hit, cache_miss, disk, op, arg,
                 buffer, i, version>>

\* The second half of cache_reset: every block, dirty or not, is dropped.
Invalidate(t) ==
  /\ pc[t] = "invalidate"
  /\ clock_index' = 0
  /\ cache_miss' = 0
  /\ cache_hit' = 0
  /\ valid' = [b \in Blocks |-> FALSE]
  /\ pc' = [pc EXCEPT ![t] = "release"]
  /\ UNCHANGED <<sector, data, dirty, recently_used, cache_lock, disk, op, arg,
                 buffer, i, version>>

\* The machine starts again, as in Init, from what is on disk.
Reboot ==
  /\ sector' = [b \in Blocks |-> AnySector]
  /\ data' = [b \in Blocks |-> 0]
  /\ valid' = [b \in Blocks |-> FALSE]
  /\ dirty' = [b \in Blocks |-> FALSE]
  /\ recently_used' = [b \in Blocks |-> FALSE]
  /\ clock_index' = 0
  /\ cache_hit' = 0
  /\ cache_miss' = 0
  /\ cache_lock' = NoThread
  /\ pc' = [t \in Threads |-> "idle"]
  /\ op' = [t \in Threads |-> "read"]
  /\ arg' = [t \in Threads |-> AnySector]
  /\ buffer' = [t \in Threads |-> 0]
  /\ i' = [t \in Threads |-> 0]
  /\ UNCHANGED <<disk, version>>

\* shutdown_power_off after filesys_done has flushed the cache.
PowerOff == (\E t \in Threads : pc[t] = "halt") /\ Reboot

\* The power fails at any point.
PowerLoss == Reboot

-----------------------------------------------------------------------------
\* Everything a thread does between entering and leaving an operation.
Step(t) ==
  \/ Acquire(t) \/ Release(t)
  \/ ReadHit(t) \/ WriteHit(t) \/ Miss(t)
  \/ ClockSkip(t) \/ ClockFree(t) \/ ClockEvict(t)
  \/ ReadInstall(t) \/ ReadFill(t) \/ WriteInstall(t)
  \/ FlushBlock(t) \/ FlushEnd(t) \/ Reacquire(t) \/ Invalidate(t)

Next ==
  \/ \E t \in Threads : Call(t) \/ Step(t)
  \/ PowerOff
  \/ PowerLoss

Spec == Init /\ [][Next]_vars

\* A thread inside the cache is scheduled again and again (round robin).
\* Calls and power failures need not happen.
Fairness == \A t \in Threads : WF_vars(Step(t))

FairSpec == Spec /\ Fairness

-----------------------------------------------------------------------------
(* Properties.                                                             *)

\* Every variable has its type; the clock hand is always on a block.
TypeOK ==
  /\ sector \in [Blocks -> Sectors]
  /\ data \in [Blocks -> Versions]
  /\ valid \in [Blocks -> BOOLEAN]
  /\ dirty \in [Blocks -> BOOLEAN]
  /\ recently_used \in [Blocks -> BOOLEAN]
  /\ clock_index \in Blocks
  /\ cache_hit \in Nat /\ cache_miss \in Nat
  /\ cache_lock \in Threads \cup {NoThread}
  /\ disk \in [Sectors -> Versions]
  /\ pc \in [Threads -> Labels]
  /\ op \in [Threads -> Ops]
  /\ arg \in [Threads -> Sectors]
  /\ buffer \in [Threads -> Versions]
  /\ i \in [Threads -> 0 .. CACHE_BLOCKS]
  /\ version \in Versions

\* A sector is cached in at most one block: cache_check may return the first
\* match, and no write can leave a second, older copy behind.
UniqueBlock ==
  \A b, c \in Blocks : valid[b] /\ valid[c] /\ sector[b] = sector[c] => b = c

\* A valid block that is not dirty holds what is on disk, so dropping it on
\* eviction without block_write loses nothing.
CleanMatchesDisk ==
  \A b \in Blocks : valid[b] /\ ~dirty[b] /\ ~Filling(b) => data[b] = disk[sector[b]]

\* The cache is a coherent copy of the disk: the clock hand is on a block, no
\* sector is cached twice, and what eviction drops without writing is on
\* disk.
CacheCoherent == TypeOK /\ UniqueBlock /\ CleanMatchesDisk

\* cache_read_at hands its caller the latest version of the sector, whether
\* it hit, missed, evicted another block or waited for the disk.
ReadReturnsLatest ==
  \A t \in Threads :
    pc[t] = "release" /\ op[t] = "read" => buffer[t] = View(arg[t])

\* When the loop of cache_flush ends, the disk holds the latest version of
\* every sector: nothing the loop passed became dirty again behind it.
FlushMakesDurable ==
  \A t \in Threads :
    pc[t] = "flush" /\ i[t] = CACHE_BLOCKS => \A s \in Sectors : disk[s] = View(s)

\* No block_write ever replaces a sector's contents by an older version.
DiskNeverGoesBack == [][\A s \in Sectors : disk'[s] >= disk[s]]_disk

\* While the machine is up no completed write is taken back: a sector's
\* latest version only grows, through evictions, flushes and resets.
NoLostWrite == [][(\A s \in Sectors : View(s)' >= View(s)) \/ Reboot]_vars

\* A thread that holds cache_lock lets it go: the clock hand finds a victim
\* and the flush loop ends.
LockIsReleased == \A t \in Threads : cache_lock = t ~> cache_lock # t

\* The cache is a write-back sector store.
Store == INSTANCE SectorStore WITH
           store <- [s \in Sectors |-> View(s)], stable <- disk

ImplementsStore == Store!Spec

=============================================================================
