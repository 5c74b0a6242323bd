---------------------------- MODULE PallocProofs ----------------------------
(***************************************************************************)
(* Proofs about the page allocator, for any number of pages and of callers. *)
(***************************************************************************)
EXTENDS Palloc, TLAPS

PageGroups == [pool : Pools, start : Nat, cnt : Nat, k : Nat, zero : BOOLEAN]

PallocTypes ==
  /\ held \subseteq Pages
  /\ pool_lock \in [Pools -> Callers \cup {NoCaller}]
  /\ content \in [Pages -> {"zeros", "other"}]
  /\ ppc \in [Callers -> {"idle", "scan", "flip", "got", "return", "fill", "clear"}]
  /\ group \in [Callers -> PageGroups]

\* The group of a call lies in its pool, from the scan that found it on.  The
\* scan is made under the lock of the pool, so that the bits it has seen clear
\* stay clear.
GroupSound(t) ==
  /\ ppc[t] # "idle" => group[t].k <= group[t].cnt /\ PoolBase(group[t].pool) <= group[t].start
  /\ ppc[t] \in {"scan", "flip"} => pool_lock[group[t].pool] = t
  /\ ppc[t] = "scan" /\ group[t].k > 0 => group[t].start + group[t].cnt <= PoolEnd(group[t].pool)
  /\ ppc[t] = "scan" => Done(group[t]) \cap used_map = {}
  /\ ppc[t] \notin {"idle", "scan"} => group[t].start + group[t].cnt <= PoolEnd(group[t].pool)
  /\ ppc[t] = "fill" => group[t].k = 0

PallocInv == PallocTypes /\ (\A t \in Callers : GroupSound(t)) /\ PagesExact

\* The pools have no page in common.
LEMMA PoolsApart ==
  /\ \A pool \in Pools : PoolBase(pool) \in Nat /\ PoolEnd(pool) \in Int
  /\ \A a, b \in Pools : \A page \in Int :
       page_from_pool(a, page) /\ page_from_pool(b, page) => a = b
  /\ \A page : page \in Pages <=> page \in Int /\ \E pool \in Pools : page_from_pool(pool, page)
  <1>1. user_pages \in Nat /\ user_pages <= free_pages /\ kernel_pages \in Nat
    BY PallocAssumption DEF user_pages, kernel_pages
  <1>2. \A pool \in Pools : PoolBase(pool) \in Nat /\ PoolEnd(pool) \in Int
    BY <1>1, PallocAssumption DEF PoolBase, PoolEnd, Pools
  <1>3. \A a, b \in Pools : \A page \in Int : page_from_pool(a, page) /\ page_from_pool(b, page) => a = b
    BY <1>1, PallocAssumption DEF PoolBase, PoolEnd, Pools, page_from_pool
  <1>4. \A page : page \in Pages <=> page \in Int /\ \E pool \in Pools : page_from_pool(pool, page)
    BY <1>2 DEF Pages, PagesOf, page_from_pool
  <1> QED
    BY <1>2, <1>3, <1>4, Zenon

\* The other calls stay where they are.
Rest(t) == \A u \in Callers \ {t} : group'[u] = group[u] /\ ppc'[u] = ppc[u]

\* The pages of a call, by where it is.
OwnedBy(t, page) ==
  /\ page \in Mine(t) <=>
       /\ page \in Int
       /\ \/ ppc[t] \in {"flip", "got", "return", "fill"} /\ group[t].start <= page
          \/ ppc[t] = "clear" /\ group[t].start + group[t].k <= page
       /\ page < group[t].start + group[t].cnt
  /\ page \in Marked(t) <=>
       IF ppc[t] = "flip"
       THEN page \in Int /\ group[t].start <= page /\ page < group[t].start + group[t].k
       ELSE page \in Mine(t)

\* Before a step.
LEMMA Owns ==
  ASSUME PallocTypes, NEW t \in Callers
  PROVE  \A page : OwnedBy(t, page)
  <1>1. group[t] \in PageGroups
    BY Zenon DEF PallocTypes
  <1> QED
    BY <1>1 DEF OwnedBy, Mine, Marked, Whole, Left, Done, PageGroups

\* And after it.
LEMMA OwnsAfter ==
  ASSUME PallocTypes', NEW t \in Callers
  PROVE  \A page : OwnedBy(t, page)'
  <1>1. group'[t] \in PageGroups
    BY Zenon DEF PallocTypes
  <1> QED
    BY <1>1 DEF OwnedBy, Mine, Marked, Whole, Left, Done, PageGroups

\* A call owns pages of its own pool only.
LEMMA OwnPool ==
  ASSUME PallocTypes, NEW t \in Callers, GroupSound(t), NEW page \in Mine(t)
  PROVE  page_from_pool(group[t].pool, page) /\ page \in Int /\ page \in Pages /\ group[t].pool \in Pools
  <1>1. group[t].pool \in Pools /\ group[t].start \in Nat /\ group[t].k \in Nat /\ group[t].cnt \in Nat
    BY Zenon DEF PallocTypes, PageGroups
  <1>2. page \in Int /\ group[t].start <= page /\ page < group[t].start + group[t].cnt /\ ppc[t] \notin {"idle", "scan"}
    BY <1>1, Owns DEF OwnedBy
  <1>3. page_from_pool(group[t].pool, page)
    BY <1>1, <1>2, PoolsApart DEF GroupSound, page_from_pool
  <1> QED
    BY <1>1, <1>2, <1>3, PoolsApart, Zenon

\* What the owners have, set by set.
LEMMA Owners ==
  ASSUME PallocInv
  PROVE  /\ \A page : page \in used_map <=> page \in held \/ \E u \in Callers : page \in Marked(u)
         /\ \A t \in Callers : \A page \in Mine(t) :
              page \notin held /\ \A u \in Callers \ {t} : page \notin Mine(u)
         /\ \A t \in Callers : \A page \in Marked(t) : page \in Mine(t)
  <1>1. \A t \in Callers : \A page \in Marked(t) : page \in Mine(t)
    <2> SUFFICES ASSUME NEW t \in Callers, NEW page \in Marked(t) PROVE page \in Mine(t)
      BY Zenon
    <2>1. group[t].k \in Nat /\ group[t].cnt \in Nat /\ group[t].start \in Nat /\ (ppc[t] = "flip" => group[t].k <= group[t].cnt)
      BY Zenon DEF PallocInv, PallocTypes, PageGroups, GroupSound
    <2> QED
      BY <2>1, Owns DEF OwnedBy, PallocInv
  <1> QED
    BY <1>1 DEF PallocInv, PagesExact, MapIsExact, PagesOwnedOnce

\* The pages stay owned once and the bitmap exact when they do for the pages
\* of the call that moves.
LEMMA OwnersStep ==
  ASSUME NEW t \in Callers, Rest(t),
         \A page \in Mine(t)' : page \notin held' /\ \A u \in Callers \ {t} : page \notin Mine(u),
         \A u \in Callers \ {t} : \A page \in Mine(u) : page \notin held',
         \A u \in Callers \ {t} : \A v \in Callers \ {t, u} : Mine(u) \cap Mine(v) = {},
         \A page : page \in used_map' <=>
           page \in held' \/ page \in Marked(t)' \/ \E u \in Callers \ {t} : page \in Marked(u)
  PROVE  PagesOwnedOnce' /\ MapIsExact'
  <1>1. \A u \in Callers \ {t} : Mine(u)' = Mine(u) /\ Marked(u)' = Marked(u)
    BY DEF Rest, Mine, Marked
  <1>2. PagesOwnedOnce'
    BY <1>1 DEF PagesOwnedOnce
  <1>3. \A page : page \in used_map' <=> page \in held' \/ \E u \in Callers : page \in Marked(u)'
    BY <1>1
  <1>4. MapIsExact'
    BY <1>3, Zenon DEF MapIsExact
  <1> QED
    BY <1>2, <1>4, Zenon

\* A zeroed page stays so when only pages of other owners are written.
LEMMA ZeroStep ==
  ASSUME ZeroedOnReturn, NEW t \in Callers, Rest(t), ppc'[t] # "return",
         \A u \in Callers \ {t} : \A page \in Mine(u) : content'[page] = content[page]
  PROVE  ZeroedOnReturn'
  <1> SUFFICES ASSUME NEW u \in Callers, ppc'[u] = "return", group'[u].zero, NEW page \in Whole(group'[u])
               PROVE  content'[page] = "zeros"
    BY Zenon DEF ZeroedOnReturn
  <1>1. u # t /\ ppc[u] = "return" /\ group'[u] = group[u]
    BY Zenon DEF Rest
  <1>2. page \in Mine(u)
    BY <1>1, Zenon DEF Mine
  <1> QED
    BY <1>1, <1>2, Zenon DEF ZeroedOnReturn

\* A call keeps its group sound while nobody else takes the lock of its pool
\* or sets a bit it has seen clear.
LEMMA OthersSound ==
  ASSUME PallocInv, NEW t \in Callers, Rest(t),
         \A u \in Callers \ {t} : ppc[u] \in {"scan", "flip"} => pool_lock'[group[u].pool] = u,
         \A u \in Callers \ {t} : ppc[u] = "scan" => Done(group[u]) \cap used_map' = {}
  PROVE  \A u \in Callers \ {t} : GroupSound(u)'
  BY DEF PallocInv, Rest, GroupSound

\* Two calls that scan have different pools.
LEMMA ScanApart ==
  ASSUME PallocInv, NEW t \in Callers, NEW u \in Callers \ {t},
         ppc[t] \in {"scan", "flip"}, ppc[u] \in {"scan", "flip"}
  PROVE  group[t].pool # group[u].pool
  BY Zenon DEF PallocInv, GroupSound

-----------------------------------------------------------------------------
(* The steps of palloc_get_multiple and palloc_free_multiple.              *)

\* The lock and the scan: no page changes hands.
LEMMA ScanStep ==
  ASSUME PallocInv, NEW t \in Callers, GetLock(t) \/ ScanBit(t) \/ ScanFails(t)
  PROVE  PallocInv'
  <1>1. /\ PallocTypes /\ \A u \in Callers : GroupSound(u)
        /\ group[t] \in PageGroups
    BY Zenon DEF PallocInv, PallocTypes
  <1>2. /\ Rest(t) /\ UNCHANGED <<used_map, held, content>>
        /\ ppc[t] \in {"idle", "scan"} /\ ppc'[t] \in {"idle", "scan"}
    BY <1>1 DEF GetLock, ScanBit, ScanFails, PallocTypes, Rest
  <1>3. PallocTypes'
    <2>1. CASE GetLock(t)
      BY <1>1, <2>1, PoolsApart DEF GetLock, PallocTypes, PageGroups
    <2>2. CASE ScanBit(t)
      <3>1. ASSUME NEW n \in Nat, NEW k \in Nat
            PROVE  [group[t] EXCEPT !.start = n, !.k = k] \in PageGroups /\ [group[t] EXCEPT !.k = k] \in PageGroups
        BY <1>1, Zenon DEF PageGroups
      <3>2. group[t].start \in Nat /\ group[t].k \in Nat
        BY <1>1, Zenon DEF PageGroups
      <3>3. [group[t] EXCEPT !.start = @ + 1, !.k = 0] \in PageGroups /\ [group[t] EXCEPT !.k = @ + 1] \in PageGroups
        <4>1. group[t].start + 1 \in Nat /\ group[t].k + 1 \in Nat /\ 0 \in Nat
          BY <3>2
        <4> QED
          BY <3>1, <4>1, Zenon
      <3> QED
        BY <1>1, <2>2, <3>3, Zenon DEF ScanBit, PallocTypes
    <2>3. CASE ScanFails(t)
      BY <1>1, <2>3, Zenon DEF ScanFails, PallocTypes, PageGroups, NoGroup, Pools
    <2> QED
      BY <2>1, <2>2, <2>3, Zenon
  <1>4. \A u \in Callers \ {t} : ppc[u] \in {"scan", "flip"} => pool_lock'[group[u].pool] = u
    <2> SUFFICES ASSUME NEW u \in Callers \ {t}, ppc[u] \in {"scan", "flip"} PROVE pool_lock'[group[u].pool] = u
      BY Zenon
    <2>1. pool_lock[group[u].pool] = u /\ group[u].pool \in Pools
      BY <1>1, Zenon DEF GroupSound, PallocTypes, PageGroups
    <2>2. CASE GetLock(t)
      BY <1>1, <2>1, <2>2, PallocAssumption, Zenon DEF GetLock, PallocTypes
    <2>3. CASE ScanBit(t)
      BY <2>1, <2>3, Zenon DEF ScanBit
    <2>4. CASE ScanFails(t)
      BY <1>1, <2>1, <2>4, ScanApart, Zenon DEF ScanFails, PallocTypes
    <2> QED
      BY <2>2, <2>3, <2>4, Zenon
  <1>5. GroupSound(t)'
    <2>1. CASE GetLock(t)
      BY <1>1, <2>1, PoolsApart DEF GetLock, PallocTypes, PageGroups, GroupSound, Done
    <2>2. CASE ScanBit(t)
      <3>1. group[t].start \in Nat /\ group[t].k \in Nat /\ group[t].cnt \in Nat /\ group[t].pool \in Pools
        BY <1>1, Zenon DEF PageGroups
      <3>2. ppc[t] = "scan" /\ ppc'[t] = "scan" /\ pool_lock' = pool_lock /\ used_map' = used_map
        BY <2>2, Zenon DEF ScanBit
      <3>3. CASE group[t].start + group[t].k \in used_map
        <4>1. /\ group'[t].start = group[t].start + 1 /\ group'[t].k = 0 /\ group'[t].cnt = group[t].cnt
              /\ group'[t].pool = group[t].pool
          BY <1>1, <2>2, <3>3, Zenon DEF ScanBit, PallocTypes, PageGroups
        <4> QED
          BY <1>1, <3>1, <3>2, <4>1, PoolsApart DEF GroupSound, Done
      <3>4. CASE group[t].start + group[t].k \notin used_map
        <4>1. /\ group'[t].start = group[t].start /\ group'[t].k = group[t].k + 1 /\ group'[t].cnt = group[t].cnt
              /\ group'[t].pool = group[t].pool
              /\ group[t].start + group[t].cnt <= PoolEnd(group[t].pool) /\ group[t].k < group[t].cnt
          BY <1>1, <2>2, <3>4, Zenon DEF ScanBit, PallocTypes, PageGroups
        <4>2. \A page \in Done(group'[t]) : page \in Done(group[t]) \/ page = group[t].start + group[t].k
          BY <3>1, <4>1 DEF Done
        <4>3. Done(group'[t]) \cap used_map = {}
          BY <1>1, <3>2, <3>4, <4>2, Zenon DEF GroupSound
        <4> QED
          BY <1>1, <3>1, <3>2, <4>1, <4>3 DEF GroupSound
      <3> QED
        BY <3>3, <3>4, Zenon
    <2>3. CASE ScanFails(t)
      BY <1>1, <2>3, Zenon DEF ScanFails, PallocTypes, GroupSound
    <2> QED
      BY <2>1, <2>2, <2>3, Zenon
  <1>6. \A u \in Callers : GroupSound(u)'
    BY <1>1, <1>2, <1>4, <1>5, OthersSound DEF GroupSound
  <1>7. Mine(t) = {} /\ Mine(t)' = {} /\ Marked(t) = {} /\ Marked(t)' = {}
    BY <1>2, Zenon DEF Mine, Marked
  <1>8. PagesOwnedOnce' /\ MapIsExact'
    BY <1>2, <1>7, Owners, OwnersStep
  <1>9. ZeroedOnReturn'
    BY <1>2, ZeroStep, Zenon DEF PallocInv, PagesExact
  <1> QED
    BY <1>3, <1>6, <1>8, <1>9, Zenon DEF PallocInv, PagesExact

\* The scan has found a group: nobody else is about to take a page of it.
LEMMA ScanFoundStep ==
  ASSUME PallocInv, NEW t \in Callers, ScanFound(t)
  PROVE  PallocInv'
  <1>1. /\ PallocTypes /\ \A u \in Callers : GroupSound(u)
        /\ group[t] \in PageGroups
    BY Zenon DEF PallocInv, PallocTypes
  <1>2. group[t].start \in Nat /\ group[t].k \in Nat /\ group[t].cnt \in Nat /\ group[t].pool \in Pools
    BY <1>1, Zenon DEF PageGroups
  <1>3. /\ Rest(t) /\ UNCHANGED <<used_map, pool_lock, held, content>>
        /\ ppc[t] = "scan" /\ ppc'[t] = "flip"
        /\ group[t].k = group[t].cnt /\ group[t].start + group[t].cnt <= PoolEnd(group[t].pool)
        /\ group'[t].start = group[t].start /\ group'[t].cnt = group[t].cnt /\ group'[t].k = 0
        /\ group'[t].pool = group[t].pool /\ group'[t] \in PageGroups
    BY <1>1, Zenon DEF ScanFound, PallocTypes, PageGroups, Rest
  <1>4. PallocTypes'
    BY <1>1, Zenon DEF ScanFound, PallocTypes, PageGroups
  <1>5. \A u \in Callers : GroupSound(u)'
    <2>1. \A u \in Callers \ {t} : GroupSound(u)'
      BY <1>1, <1>3, OthersSound DEF GroupSound
    <2>2. GroupSound(t)'
      BY <1>1, <1>2, <1>3 DEF GroupSound
    <2> QED
      BY <2>1, <2>2, Zenon
  <1>6. Mine(t) = {} /\ Marked(t) = {} /\ Marked(t)' = {}
    <2>1. Done(group'[t]) = {}
      BY <1>2, <1>3 DEF Done
    <2> QED
      BY <1>3, <2>1, Zenon DEF Mine, Marked
  <1>7. ASSUME NEW page \in Mine(t)' PROVE page \notin held /\ \A u \in Callers \ {t} : page \notin Mine(u)
    <2>1. page \in Done(group[t]) /\ page \in Int
      BY <1>2, <1>3, <1>7 DEF Mine, Whole, Done
    <2>2. page \notin used_map
      BY <1>1, <1>3, <2>1, Zenon DEF GroupSound
    <2>3. page_from_pool(group[t].pool, page)
      BY <1>1, <1>2, <1>3, <2>1, PoolsApart DEF GroupSound, page_from_pool, Done
    <2> SUFFICES ASSUME NEW u \in Callers \ {t}, page \in Mine(u) PROVE FALSE
      BY <2>2, Owners, Zenon
    <2>4. page \notin Marked(u)
      BY <2>2, Owners, Zenon
    <2>5. ppc[u] = "flip"
      BY <2>4, Zenon DEF Marked
    <2>6. group[u].pool = group[t].pool
      BY <1>1, <1>2, <2>1, <2>3, OwnPool, PoolsApart, Zenon
    <2> QED
      BY <1>3, <2>5, <2>6, ScanApart, Zenon
  <1>8. PagesOwnedOnce' /\ MapIsExact'
    BY <1>3, <1>6, <1>7, Owners, OwnersStep
  <1>9. ZeroedOnReturn'
    BY <1>3, ZeroStep, Zenon DEF PallocInv, PagesExact
  <1> QED
    BY <1>4, <1>5, <1>8, <1>9, Zenon DEF PallocInv, PagesExact

\* The bits of the group are set one by one, and the lock is released.
LEMMA FlipStep ==
  ASSUME PallocInv, NEW t \in Callers, FlipBit(t) \/ GetUnlock(t)
  PROVE  PallocInv'
  <1>1. /\ PallocTypes /\ \A u \in Callers : GroupSound(u)
        /\ group[t] \in PageGroups
    BY Zenon DEF PallocInv, PallocTypes
  <1>2. group[t].start \in Nat /\ group[t].k \in Nat /\ group[t].cnt \in Nat /\ group[t].pool \in Pools
    BY <1>1, Zenon DEF PageGroups
  <1>3. /\ Rest(t) /\ UNCHANGED <<held, content>> /\ ppc[t] = "flip" /\ ppc'[t] \in {"flip", "got"}
        /\ group'[t].start = group[t].start /\ group'[t].cnt = group[t].cnt /\ group'[t].pool = group[t].pool
    BY <1>1 DEF FlipBit, GetUnlock, PallocTypes, PageGroups, Rest
  <1>4. \/ /\ ppc'[t] = "flip" /\ pool_lock' = pool_lock /\ group[t].k < group[t].cnt /\ group'[t].k = group[t].k + 1
           /\ used_map' = used_map \cup {group[t].start + group[t].k}
        \/ /\ ppc'[t] = "got" /\ group[t].k = group[t].cnt /\ group'[t].k = group[t].k /\ used_map' = used_map
           /\ pool_lock' = [pool_lock EXCEPT ![group[t].pool] = NoCaller]
    BY <1>1 DEF FlipBit, GetUnlock, PallocTypes, PageGroups
  <1>5. PallocTypes'
    <2>1. CASE FlipBit(t)
      BY <1>1, <2>1 DEF FlipBit, PallocTypes, PageGroups
    <2>2. CASE GetUnlock(t)
      BY <1>1, <2>2, Zenon DEF GetUnlock, PallocTypes
    <2> QED
      BY <2>1, <2>2, Zenon
  <1>6. \A page : page \in Mine(t)' <=> page \in Mine(t)
    BY <1>1, <1>2, <1>3, <1>5, Owns, OwnsAfter, Zenon DEF OwnedBy
  <1>7. \A u \in Callers \ {t} : ppc[u] = "scan" => Done(group[u]) \cap used_map' = {}
    <2> SUFFICES ASSUME NEW u \in Callers \ {t}, ppc[u] = "scan", NEW page \in Done(group[u]), page \in used_map'
                 PROVE  FALSE
      BY Zenon
    <2>1. page \notin used_map
      BY <1>1, Zenon DEF GroupSound
    <2>2. page = group[t].start + group[t].k /\ group[t].k < group[t].cnt
      BY <1>4, <2>1, Zenon
    <2>3. page \in Mine(t)
      BY <1>1, <1>2, <1>3, <2>2, Owns DEF OwnedBy
    <2>4. group[u].start \in Nat /\ group[u].k \in Nat /\ group[u].cnt \in Nat /\ group[u].pool \in Pools
      BY <1>1, Zenon DEF PallocTypes, PageGroups
    <2>5. page_from_pool(group[u].pool, page) /\ page \in Int
      BY <1>1, <2>4, PoolsApart DEF GroupSound, Done, page_from_pool
    <2>6. group[u].pool = group[t].pool
      BY <1>1, <2>3, <2>4, <2>5, OwnPool, PoolsApart
    <2> QED
      BY <1>3, <2>6, ScanApart, Zenon
  <1>8. \A u \in Callers \ {t} : ppc[u] \in {"scan", "flip"} => pool_lock'[group[u].pool] = u
    BY <1>1, <1>2, <1>3, <1>4, ScanApart DEF GroupSound, PallocTypes, PageGroups
  <1>9. \A u \in Callers : GroupSound(u)'
    <2>1. GroupSound(t)'
      BY <1>1, <1>2, <1>3, <1>4 DEF GroupSound
    <2> QED
      BY <1>3, <1>7, <1>8, <2>1, OthersSound, Zenon
  <1>10. \A page : page \in used_map' <=>
           page \in held' \/ page \in Marked(t)' \/ \E u \in Callers \ {t} : page \in Marked(u)
    <2>1. \A page : page \in used_map' /\ page \notin used_map => page = group[t].start + group[t].k /\ page \in Marked(t)'
      BY <1>2, <1>3, <1>4, <1>5, OwnsAfter DEF OwnedBy
    <2>2. \A page : page \in Marked(t) => page \in Marked(t)'
      BY <1>1, <1>2, <1>3, <1>4, <1>5, Owns, OwnsAfter DEF OwnedBy
    <2>3. \A page : page \in Marked(t)' => page \in Marked(t) \/ page \in used_map'
      BY <1>1, <1>2, <1>3, <1>4, <1>5, Owns, OwnsAfter DEF OwnedBy
    <2>4. \A page : page \in used_map => page \in used_map'
      BY <1>4, Zenon
    <2> QED
      BY <1>3, <2>1, <2>2, <2>3, <2>4, Owners, Zenon
  <1>11. PagesOwnedOnce' /\ MapIsExact'
    BY <1>3, <1>6, <1>10, Owners, OwnersStep
  <1>12. ZeroedOnReturn'
    BY <1>3, ZeroStep, Zenon DEF PallocInv, PagesExact
  <1> QED
    BY <1>5, <1>9, <1>11, <1>12, Zenon DEF PallocInv, PagesExact

\* The pages are zeroed and handed to the caller.
LEMMA GetStep ==
  ASSUME PallocInv, NEW t \in Callers, ZeroPages(t) \/ GetReturn(t)
  PROVE  PallocInv'
  <1>1. /\ PallocTypes /\ \A u \in Callers : GroupSound(u)
        /\ group[t] \in PageGroups
    BY Zenon DEF PallocInv, PallocTypes
  <1>2. /\ Rest(t) /\ UNCHANGED <<used_map, pool_lock>> /\ Mine(t) = Whole(group[t]) /\ Marked(t) = Mine(t)
    BY <1>1, Zenon DEF ZeroPages, GetReturn, PallocTypes, Rest, Mine, Marked
  <1>3. \A page \in Mine(t) : page \in Pages
    BY <1>1, OwnPool, Zenon
  <1>4. \A u \in Callers \ {t} : GroupSound(u)'
    BY <1>1, <1>2, OthersSound DEF GroupSound
  <1>5. CASE ZeroPages(t)
    <2>1. PallocTypes' /\ GroupSound(t)' /\ Mine(t)' = Mine(t) /\ Marked(t)' = Marked(t) /\ held' = held
      BY <1>1, <1>5, Zenon DEF ZeroPages, PallocTypes, GroupSound, Mine, Marked
    <2>2. PagesOwnedOnce' /\ MapIsExact'
      BY <1>2, <2>1, Owners, OwnersStep
    <2>3. ZeroedOnReturn'
      <3> SUFFICES ASSUME NEW u \in Callers, ppc'[u] = "return", group'[u].zero, NEW page \in Whole(group'[u])
                   PROVE  content'[page] = "zeros"
        BY Zenon DEF ZeroedOnReturn
      <3>1. group' = group /\ \A p \in Pages : content'[p] = IF group[t].zero /\ p \in Whole(group[t]) THEN "zeros" ELSE content[p]
        BY <1>5, Zenon DEF ZeroPages
      <3>2. CASE u = t
        BY <1>2, <1>3, <3>1, <3>2, Zenon
      <3>3. CASE u # t
        <4>1. ppc[u] = "return" /\ content[page] = "zeros" /\ page \in Mine(u)
          BY <1>2, <3>1, <3>3, Zenon DEF Rest, PallocInv, PagesExact, ZeroedOnReturn, Mine
        <4>2. page \in Pages
          BY <1>1, <4>1, OwnPool, Zenon
        <4> QED
          BY <3>1, <4>1, <4>2, Zenon
      <3> QED
        BY <3>2, <3>3, Zenon
    <2> QED
      BY <1>4, <2>1, <2>2, <2>3, Zenon DEF PallocInv, PagesExact
  <1>6. CASE GetReturn(t)
    <2>1. /\ held' = held \cup Mine(t) /\ ppc'[t] = "idle" /\ content' = content /\ Mine(t)' = {} /\ Marked(t)' = {}
      BY <1>1, <1>2, <1>6, Zenon DEF GetReturn, PallocTypes, Mine, Marked
    <2>2. PallocTypes' /\ GroupSound(t)'
      BY <1>1, <1>2, <1>3, <1>6, <2>1, Zenon DEF GetReturn, PallocTypes, GroupSound, NoGroup, PageGroups, Pools
    <2>3. PagesOwnedOnce' /\ MapIsExact'
      BY <1>2, <2>1, Owners, OwnersStep
    <2>4. ZeroedOnReturn'
      BY <1>2, <2>1, ZeroStep, Zenon DEF PallocInv, PagesExact
    <2> QED
      BY <1>4, <2>2, <2>3, <2>4, Zenon DEF PallocInv, PagesExact
  <1> QED
    BY <1>5, <1>6, Zenon

\* palloc_free_multiple takes the pages and overwrites them.
LEMMA FreeStep ==
  ASSUME PallocInv, NEW t \in Callers, FreeCall(t) \/ FillPages(t) \/ FreeReturn(t)
  PROVE  PallocInv'
  <1>1. /\ PallocTypes /\ \A u \in Callers : GroupSound(u)
        /\ group[t] \in PageGroups
    BY Zenon DEF PallocInv, PallocTypes
  <1>2. group[t].start \in Nat /\ group[t].k \in Nat /\ group[t].cnt \in Nat /\ group[t].pool \in Pools
    BY <1>1, Zenon DEF PageGroups
  <1>3. Rest(t) /\ UNCHANGED <<used_map, pool_lock>>
    BY <1>1 DEF FreeCall, FillPages, FreeReturn, PallocTypes, Rest
  <1>4. \A u \in Callers \ {t} : GroupSound(u)'
    BY <1>1, <1>3, OthersSound DEF GroupSound
  <1>5. CASE FreeCall(t)
    <2>1. PICK start \in held, cnt \in 1 .. MaxCnt, pool \in Pools :
             /\ ppc[t] = "idle" /\ page_from_pool(pool, start)
             /\ start .. start + cnt - 1 \subseteq held \cap PagesOf(pool)
             /\ held' = held \ (start .. start + cnt - 1)
             /\ group' = [group EXCEPT ![t] = [pool |-> pool, start |-> start, cnt |-> cnt, k |-> 0, zero |-> FALSE]]
             /\ ppc' = [ppc EXCEPT ![t] = "fill"]
             /\ content' = content
      BY <1>5, Zenon DEF FreeCall
    <2>2. start \in Nat /\ cnt \in Nat /\ cnt > 0 /\ PoolBase(pool) <= start
      BY <1>1, <2>1, PoolsApart, PallocAssumption DEF PallocTypes, page_from_pool
    <2>3. start + cnt - 1 \in start .. start + cnt - 1
      BY <2>2
    <2>4. start + cnt <= PoolEnd(pool)
      BY <2>1, <2>2, <2>3, PoolsApart DEF PagesOf
    <2>5. PallocTypes' /\ ppc'[t] = "fill"
      BY <1>1, <1>3, <2>1, <2>2 DEF PallocTypes, PageGroups
    <2>6. GroupSound(t)'
      BY <1>1, <2>1, <2>2, <2>4, <2>5 DEF PallocTypes, GroupSound
    <2>7. Mine(t) = {} /\ Marked(t) = {} /\ Mine(t)' = start .. start + cnt - 1 /\ Marked(t)' = Mine(t)'
      BY <1>1, <2>1, Zenon DEF PallocTypes, Mine, Marked, Whole
    <2>8. \A page \in Mine(t)' : page \in held /\ page \notin held'
      BY <2>1, <2>7, Zenon
    <2>9. \A page : page \in held <=> page \in held' \/ page \in Mine(t)'
      BY <2>1, <2>7, Zenon
    <2>10. PagesOwnedOnce' /\ MapIsExact'
      <3>1. /\ \A page \in Mine(t)' : page \notin held' /\ \A u \in Callers \ {t} : page \notin Mine(u)
            /\ \A u \in Callers \ {t} : \A page \in Mine(u) : page \notin held'
            /\ \A u \in Callers \ {t} : \A v \in Callers \ {t, u} : Mine(u) \cap Mine(v) = {}
        BY <2>8, <2>9, Owners, Zenon
      <3>2. \A page : page \in used_map' <=>
              page \in held' \/ page \in Marked(t)' \/ \E u \in Callers \ {t} : page \in Marked(u)
        BY <1>3, <2>7, <2>9, Owners
      <3> QED
        BY <1>3, <3>1, <3>2, OwnersStep, Zenon
    <2>11. ZeroedOnReturn'
      BY <1>3, <2>1, <2>5, ZeroStep, Zenon DEF PallocInv, PagesExact
    <2> QED
      BY <1>4, <2>5, <2>6, <2>10, <2>11, Zenon DEF PallocInv, PagesExact
  <1>6. CASE FillPages(t)
    <2>1. /\ ppc[t] = "fill" /\ ppc'[t] = "clear" /\ group' = group /\ held' = held
          /\ \A page \in Pages : content'[page] = IF page \in Whole(group[t]) THEN "other" ELSE content[page]
      BY <1>1, <1>6, Zenon DEF FillPages, PallocTypes
    <2>2. PallocTypes' /\ GroupSound(t)'
      BY <1>1, <1>6, <2>1, Zenon DEF FillPages, PallocTypes, GroupSound
    <2>3. Mine(t) = Whole(group[t]) /\ Mine(t)' = Mine(t) /\ Marked(t) = Mine(t) /\ Marked(t)' = Mine(t)
      BY <1>1, <1>2, <2>1 DEF GroupSound, Mine, Marked, Whole, Left
    <2>4. PagesOwnedOnce' /\ MapIsExact'
      BY <1>3, <2>1, <2>3, Owners, OwnersStep
    <2>5. \A u \in Callers \ {t} : \A page \in Mine(u) : content'[page] = content[page]
      BY <1>1, <2>1, <2>3, OwnPool, Owners
    <2>6. ZeroedOnReturn'
      BY <1>3, <2>1, <2>5, ZeroStep, Zenon DEF PallocInv, PagesExact
    <2> QED
      BY <1>4, <2>2, <2>4, <2>6, Zenon DEF PallocInv, PagesExact
  <1>7. CASE FreeReturn(t)
    <2>1. ppc[t] = "clear" /\ ppc'[t] = "idle" /\ group[t].k = group[t].cnt /\ held' = held /\ content' = content
      BY <1>1, <1>7, Zenon DEF FreeReturn, PallocTypes
    <2>2. PallocTypes' /\ GroupSound(t)'
      BY <1>1, <1>7, <2>1, Zenon DEF FreeReturn, PallocTypes, GroupSound, NoGroup, PageGroups, Pools
    <2>3. Mine(t) = {} /\ Mine(t)' = {} /\ Marked(t) = {} /\ Marked(t)' = {}
      BY <1>2, <2>1 DEF Mine, Marked, Left
    <2>4. PagesOwnedOnce' /\ MapIsExact'
      BY <1>3, <2>1, <2>3, Owners, OwnersStep
    <2>5. ZeroedOnReturn'
      BY <1>3, <2>1, ZeroStep, Zenon DEF PallocInv, PagesExact
    <2> QED
      BY <1>4, <2>2, <2>4, <2>5, Zenon DEF PallocInv, PagesExact
  <1> QED
    BY <1>5, <1>6, <1>7, Zenon

\* palloc_free_multiple clears a bit without the lock: the page is its own.
LEMMA ClearStep ==
  ASSUME PallocInv, NEW t \in Callers, ClearBit(t)
  PROVE  PallocInv'
  <1> DEFINE p == group[t].start + group[t].k
  <1>1. /\ PallocTypes /\ \A u \in Callers : GroupSound(u)
        /\ group[t] \in PageGroups
    BY Zenon DEF PallocInv, PallocTypes
  <1>2. group[t].start \in Nat /\ group[t].k \in Nat /\ group[t].cnt \in Nat /\ group[t].pool \in Pools
    BY <1>1, Zenon DEF PageGroups
  <1>3. /\ Rest(t) /\ UNCHANGED <<pool_lock, held, content, ppc>> /\ ppc[t] = "clear" /\ group[t].k < group[t].cnt
        /\ used_map' = used_map \ {p}
        /\ group'[t].start = group[t].start /\ group'[t].cnt = group[t].cnt /\ group'[t].k = group[t].k + 1
        /\ group'[t].pool = group[t].pool
    BY <1>1, Zenon DEF ClearBit, PallocTypes, PageGroups, Rest
  <1>4. PallocTypes'
    BY <1>1 DEF ClearBit, PallocTypes, PageGroups
  <1>5. \A u \in Callers : GroupSound(u)'
    <2>1. GroupSound(t)'
      BY <1>1, <1>2, <1>3 DEF GroupSound
    <2>2. \A u \in Callers \ {t} : GroupSound(u)'
      BY <1>1, <1>3, OthersSound DEF GroupSound
    <2> QED
      BY <2>1, <2>2, Zenon
  <1>6. \A page : page \in Mine(t)' <=> page \in Mine(t) /\ page # p
    BY <1>1, <1>2, <1>3, <1>4, Owns, OwnsAfter DEF OwnedBy
  <1>7. p \in Mine(t) /\ Marked(t) = Mine(t) /\ Marked(t)' = Mine(t)'
    BY <1>1, <1>2, <1>3, Owns DEF OwnedBy, Marked
  <1>8. PagesOwnedOnce' /\ MapIsExact'
    <2>1. \A page : page \in used_map' <=>
            page \in held' \/ page \in Marked(t)' \/ \E u \in Callers \ {t} : page \in Marked(u)
      BY <1>3, <1>6, <1>7, Owners
    <2> QED
      BY <1>3, <1>6, <2>1, Owners, OwnersStep
  <1>9. ZeroedOnReturn'
    BY <1>3, ZeroStep, Zenon DEF PallocInv, PagesExact
  <1> QED
    BY <1>4, <1>5, <1>8, <1>9, Zenon DEF PallocInv, PagesExact

\* Every step keeps the invariant.
LEMMA PallocInvStep ==
  PallocInv /\ [PallocNext]_pvars => PallocInv'
  <1> SUFFICES ASSUME PallocInv, [PallocNext]_pvars PROVE PallocInv'
    BY Zenon
  <1>1. CASE UNCHANGED pvars
    BY <1>1 DEF pvars, PallocInv, PallocTypes, GroupSound, PagesExact, PagesOwnedOnce, MapIsExact, ZeroedOnReturn, Mine, Marked
  <1>2. CASE UsePage
    <2>1. PICK page \in held : content' = [content EXCEPT ![page] = "other"]
      BY <1>2, Zenon DEF UsePage
    <2>2. UNCHANGED <<used_map, pool_lock, held, ppc, group>>
      BY <1>2, Zenon DEF UsePage
    <2>3. PallocTypes' /\ (\A t \in Callers : GroupSound(t)')
      BY <2>1, <2>2 DEF PallocInv, PallocTypes, GroupSound
    <2>4. PagesOwnedOnce' /\ MapIsExact'
      BY <2>2 DEF PallocInv, PagesExact, PagesOwnedOnce, MapIsExact, Mine, Marked
    <2>5. ZeroedOnReturn'
      <3> SUFFICES ASSUME NEW u \in Callers, ppc[u] = "return", group[u].zero, NEW p \in Whole(group[u])
                   PROVE  content'[p] = "zeros"
        BY <2>2, Zenon DEF ZeroedOnReturn
      <3>1. p \in Mine(u) /\ content[p] = "zeros"
        BY Zenon DEF Mine, PallocInv, PagesExact, ZeroedOnReturn
      <3>2. p # page /\ p \in Pages
        BY <3>1, Owners, OwnPool, Zenon DEF PallocInv
      <3> QED
        BY <2>1, <3>1, <3>2, Zenon DEF PallocInv, PallocTypes
    <2> QED
      BY <2>3, <2>4, <2>5, Zenon DEF PallocInv, PagesExact
  <1>3. CASE \E t \in Callers : GetLock(t) \/ FreeCall(t) \/ PallocStep(t)
    BY <1>3, ScanStep, ScanFoundStep, FlipStep, GetStep, FreeStep, ClearStep, Zenon DEF PallocStep
  <1> QED
    BY <1>1, <1>2, <1>3, Zenon DEF PallocNext

\* At boot no page is in use.
LEMMA PallocBegin ==
  palloc_init => PallocInv
  <1> SUFFICES ASSUME palloc_init PROVE PallocInv
    BY Zenon
  <1>1. PallocTypes /\ \A t \in Callers : GroupSound(t)
    BY Zenon DEF palloc_init, PallocTypes, NoGroup, PageGroups, Pools, GroupSound
  <1>2. \A t \in Callers : Mine(t) = {} /\ Marked(t) = {}
    BY Zenon DEF palloc_init, Mine, Marked
  <1>3. PagesOwnedOnce /\ MapIsExact /\ ZeroedOnReturn
    BY <1>2, Zenon DEF palloc_init, PagesOwnedOnce, MapIsExact, ZeroedOnReturn
  <1> QED
    BY <1>1, <1>3, Zenon DEF PallocInv, PagesExact

\* palloc.c hands out no page twice, loses none and returns none dirty, although
\* palloc_free_multiple clears the bits of its pages one by one without the lock.
THEOREM PagesAlwaysExact ==
  PallocSpec => []PagesExact
  <1>1. PallocInv => PagesExact
    BY Zenon DEF PallocInv
  <1> QED
    BY <1>1, PallocBegin, PallocInvStep, PTL DEF PallocSpec

=============================================================================
