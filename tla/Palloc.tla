------------------------------- MODULE Palloc -------------------------------
(***************************************************************************)
(* The page allocator of threads/palloc.c.  Pages are numbered from the    *)
(* start of free memory; each pool begins with the pages of its bitmap.    *)
(* palloc_get_multiple scans and sets the bits one at a time under the     *)
(* lock of the pool, palloc_free_multiple clears them one at a time        *)
(* without it.  A page is held by the rest of the kernel from the return   *)
(* of the one to the call of the other.                                    *)
(***************************************************************************)
EXTENDS Integers

CONSTANTS Callers, NoCaller,
          free_pages,          \* pages above 1 MB
          user_page_limit,     \* the -ul option
          bm_pages,            \* pages of one bitmap: bitmap_buf_size in pages
          MaxCnt               \* bound on the page_cnt of a call

ASSUME PallocAssumption ==
  /\ NoCaller \notin Callers
  /\ free_pages \in Nat /\ user_page_limit \in Nat /\ bm_pages \in Nat /\ MaxCnt \in Nat

VARIABLES used_map,   \* the pages whose bit is set, in both bitmaps
          pool_lock,  \* who holds the lock of each pool
          held,       \* the pages the kernel's other parts own
          content,    \* whether each page holds zeros or something else
          ppc,        \* where each thread is in a call
          group       \* the group of pages it works on and how far it is

pvars == <<used_map, pool_lock, held, content, ppc, group>>

Pools == {"kernel", "user"}

user_pages == IF free_pages \div 2 > user_page_limit THEN user_page_limit ELSE free_pages \div 2
kernel_pages == free_pages - user_pages

(* The pages init_pool leaves in a pool after its bitmap.                   *)
PoolBase(pool) == IF pool = "kernel" THEN bm_pages ELSE kernel_pages + bm_pages
PoolEnd(pool) == IF pool = "kernel" THEN kernel_pages ELSE free_pages
PagesOf(pool) == PoolBase(pool) .. PoolEnd(pool) - 1
Pages == UNION {PagesOf(pool) : pool \in Pools}

page_from_pool(pool, page) == page >= PoolBase(pool) /\ page < PoolEnd(pool)

(* From page START on: the whole group, what is done of it, what is left.   *)
Whole(g) == g.start .. g.start + g.cnt - 1
Done(g) == g.start .. g.start + g.k - 1
Left(g) == g.start + g.k .. g.start + g.cnt - 1

NoGroup == [pool |-> "kernel", start |-> 0, cnt |-> 0, k |-> 0, zero |-> FALSE]

palloc_init ==
  /\ used_map = {} /\ held = {}
  /\ pool_lock = [pool \in Pools |-> NoCaller]
  /\ content = [page \in Pages |-> "other"]
  /\ ppc = [t \in Callers |-> "idle"]
  /\ group = [t \in Callers |-> NoGroup]

-----------------------------------------------------------------------------
(* Wrong: the scan begins whoever holds the lock.                           *)
GetLock_Never(t) == \E pool \in Pools, cnt \in 1 .. MaxCnt, zero \in BOOLEAN :
  /\ ppc[t] = "idle"
  /\ pool_lock' = [pool_lock EXCEPT ![pool] = t]
  /\ group' = [group EXCEPT ![t] = [pool |-> pool, start |-> PoolBase(pool), cnt |-> cnt, k |-> 0, zero |-> zero]]
  /\ ppc' = [ppc EXCEPT ![t] = "scan"]
  /\ UNCHANGED <<used_map, held, content>>

GetLock(t) == \E pool \in Pools, cnt \in 1 .. MaxCnt, zero \in BOOLEAN :
  /\ ppc[t] = "idle"
  /\ pool_lock[pool] = NoCaller
  /\ pool_lock' = [pool_lock EXCEPT ![pool] = t]
  /\ group' = [group EXCEPT ![t] = [pool |-> pool, start |-> PoolBase(pool), cnt |-> cnt, k |-> 0, zero |-> zero]]
  /\ ppc' = [ppc EXCEPT ![t] = "scan"]
  /\ UNCHANGED <<used_map, held, content>>

(* One bit of bitmap_scan: a set bit moves the scan to the next group.      *)
ScanBit(t) ==
  LET g == group[t]
  IN  /\ ppc[t] = "scan"
      /\ g.start + g.cnt <= PoolEnd(g.pool)
      /\ g.k < g.cnt
      /\ group' = [group EXCEPT ![t] = IF g.start + g.k \in used_map
                                       THEN [g EXCEPT !.start = @ + 1, !.k = 0] ELSE [g EXCEPT !.k = @ + 1]]
      /\ UNCHANGED <<used_map, pool_lock, held, content, ppc>>

ScanFound(t) ==
  /\ ppc[t] = "scan"
  /\ group[t].start + group[t].cnt <= PoolEnd(group[t].pool)
  /\ group[t].k = group[t].cnt
  /\ group' = [group EXCEPT ![t].k = 0]
  /\ ppc' = [ppc EXCEPT ![t] = "flip"]
  /\ UNCHANGED <<used_map, pool_lock, held, content>>

(* BITMAP_ERROR: a null pointer, or a panic with PAL_ASSERT.                *)
ScanFails(t) ==
  /\ ppc[t] = "scan"
  /\ group[t].start + group[t].cnt > PoolEnd(group[t].pool)
  /\ pool_lock' = [pool_lock EXCEPT ![group[t].pool] = NoCaller]
  /\ ppc' = [ppc EXCEPT ![t] = "idle"]
  /\ group' = [group EXCEPT ![t] = NoGroup]
  /\ UNCHANGED <<used_map, held, content>>

FlipBit(t) ==
  /\ ppc[t] = "flip"
  /\ group[t].k < group[t].cnt
  /\ used_map' = used_map \cup {group[t].start + group[t].k}
  /\ group' = [group EXCEPT ![t].k = @ + 1]
  /\ UNCHANGED <<pool_lock, held, content, ppc>>

GetUnlock(t) ==
  /\ ppc[t] = "flip"
  /\ group[t].k = group[t].cnt
  /\ pool_lock' = [pool_lock EXCEPT ![group[t].pool] = NoCaller]
  /\ ppc' = [ppc EXCEPT ![t] = "got"]
  /\ UNCHANGED <<used_map, held, content, group>>

(* memset for PAL_ZERO, after the lock is released.                         *)
ZeroPages(t) ==
  /\ ppc[t] = "got"
  /\ content' = [page \in Pages |-> IF group[t].zero /\ page \in Whole(group[t]) THEN "zeros" ELSE content[page]]
  /\ ppc' = [ppc EXCEPT ![t] = "return"]
  /\ UNCHANGED <<used_map, pool_lock, held, group>>

GetReturn(t) ==
  /\ ppc[t] = "return"
  /\ held' = held \cup Whole(group[t])
  /\ group' = [group EXCEPT ![t] = NoGroup]
  /\ ppc' = [ppc EXCEPT ![t] = "idle"]
  /\ UNCHANGED <<used_map, pool_lock, content>>

(* The owner stores something in its page.                                  *)
UsePage == \E page \in held :
  /\ content' = [content EXCEPT ![page] = "other"]
  /\ UNCHANGED <<used_map, pool_lock, held, ppc, group>>

(* palloc_free_multiple finds the pool of the first page.                   *)
FreeCall(t) == \E start \in held, cnt \in 1 .. MaxCnt, pool \in Pools :
  /\ ppc[t] = "idle"
  /\ page_from_pool(pool, start)
  /\ start .. start + cnt - 1 \subseteq held \cap PagesOf(pool)
  /\ held' = held \ (start .. start + cnt - 1)
  /\ group' = [group EXCEPT ![t] = [pool |-> pool, start |-> start, cnt |-> cnt, k |-> 0, zero |-> FALSE]]
  /\ ppc' = [ppc EXCEPT ![t] = "fill"]
  /\ UNCHANGED <<used_map, pool_lock, content>>

FillPages(t) ==
  /\ ppc[t] = "fill"
  /\ content' = [page \in Pages |-> IF page \in Whole(group[t]) THEN "other" ELSE content[page]]
  /\ ppc' = [ppc EXCEPT ![t] = "clear"]
  /\ UNCHANGED <<used_map, pool_lock, held, group>>

ClearBit(t) ==
  /\ ppc[t] = "clear"
  /\ group[t].k < group[t].cnt
  /\ used_map' = used_map \ {group[t].start + group[t].k}
  /\ group' = [group EXCEPT ![t].k = @ + 1]
  /\ UNCHANGED <<pool_lock, held, content, ppc>>

FreeReturn(t) ==
  /\ ppc[t] = "clear"
  /\ group[t].k = group[t].cnt
  /\ group' = [group EXCEPT ![t] = NoGroup]
  /\ ppc' = [ppc EXCEPT ![t] = "idle"]
  /\ UNCHANGED <<used_map, pool_lock, held, content>>

PallocStep(t) ==
  \/ ScanBit(t) \/ ScanFound(t) \/ ScanFails(t) \/ FlipBit(t) \/ GetUnlock(t)
  \/ ZeroPages(t) \/ GetReturn(t) \/ FillPages(t) \/ ClearBit(t) \/ FreeReturn(t)

PallocNext == (\E t \in Callers : GetLock(t) \/ FreeCall(t) \/ PallocStep(t)) \/ UsePage

PallocSpec == palloc_init /\ [][PallocNext]_pvars
-----------------------------------------------------------------------------
(* The pages thread T alone may touch: those it is getting, and those it is *)
(* freeing until their bits are clear.                                      *)
Mine(t) ==
  IF ppc[t] \in {"flip", "got", "return", "fill"} THEN Whole(group[t])
  ELSE IF ppc[t] = "clear" THEN Left(group[t]) ELSE {}

(* No page is handed out twice: a page belongs to the kernel, to one call   *)
(* that gets it or to one that frees it, although freeing takes no lock.    *)
PagesOwnedOnce ==
  \A t \in Callers : Mine(t) \cap held = {} /\ \A u \in Callers \ {t} : Mine(t) \cap Mine(u) = {}

(* The bitmap is exact: the bit of a page is set while somebody owns it,    *)
(* and clear when nobody does, so that no page is lost.                     *)
Marked(t) == IF ppc[t] = "flip" THEN Done(group[t]) ELSE Mine(t)
MapIsExact == used_map = held \cup UNION {Marked(t) : t \in Callers}

(* A page asked for with PAL_ZERO is still zero when the call returns,      *)
(* whatever calls that free pages do meanwhile.                             *)
ZeroedOnReturn ==
  \A t \in Callers : ppc[t] = "return" /\ group[t].zero => \A page \in Whole(group[t]) : content[page] = "zeros"

(* No page is handed out twice, lost, or given out dirty, although          *)
(* palloc_free_multiple clears bits without the lock.                       *)
PagesExact == PagesOwnedOnce /\ MapIsExact /\ ZeroedOnReturn
=============================================================================
