------------------------------- MODULE Malloc -------------------------------
(***************************************************************************)
(* The block allocator of threads/malloc.c.  A block is the address of its *)
(* first byte; page P holds the addresses from P * PGSIZE on.  Every       *)
(* access to a descriptor is made under its lock and every access to the   *)
(* page bitmap under that of Palloc, so that a call is one step.  The      *)
(* kernel may have MaxBlocks blocks at a time.                             *)
(***************************************************************************)
EXTENDS Integers, Sequences, FiniteSets, FiniteSetsExt

CONSTANTS PGSIZE, ArenaSize, MinBlock,
          ArenaPages,          \* pages of the kernel pool
          MallocSizes,         \* sizes that are asked for
          CallocFactors,       \* numbers and sizes of elements given to calloc
          SizeBits,            \* bits of size_t
          MaxBlocks

VARIABLES mem,       \* arenas by page, free list of each descriptor, free pages
          blocks,    \* the blocks the kernel has, with the size it asked for
          moved      \* the last realloc that moved a block

mvars == <<mem, blocks, moved>>

NullBlock == 0
NoMove == [old |-> 0, new |-> 0, copied |-> 0, room |-> 0]
BigBlock == 0                       \* the null descriptor of a big block

desc_cnt == Cardinality({i \in 0 .. 9 : MinBlock * 2 ^ i < PGSIZE \div 2})
descs == 1 .. desc_cnt
DescSize(d) == MinBlock * 2 ^ (d - 1)
blocks_per_arena(d) == (PGSIZE - ArenaSize) \div DescSize(d)

PageOf(b) == b \div PGSIZE
block_to_arena(m, b) == m.arenas[PageOf(b)]
arena_to_block(page, d, idx) == page * PGSIZE + ArenaSize + idx * DescSize(d)
BlocksIn(page, d) == {arena_to_block(page, d, i) : i \in 0 .. blocks_per_arena(d) - 1}

(* palloc_get_multiple: the first group of CNT free pages.                  *)
Groups(m, cnt) == {p \in ArenaPages : p .. p + cnt - 1 \subseteq m.pages}
TakePages(m, cnt, desc, free_cnt) ==
  LET p == Min(Groups(m, cnt))
  IN  [m EXCEPT !.pages = @ \ (p .. p + cnt - 1), !.arenas[p] = [desc |-> desc, free_cnt |-> free_cnt]]
NewPage(m, cnt) == Min(Groups(m, cnt))

GivePages(m, p, cnt) ==
  [m EXCEPT !.pages = @ \cup (p .. p + cnt - 1), !.arenas[p] = [desc |-> BigBlock, free_cnt |-> 0]]

malloc_init ==
  [arenas |-> [p \in ArenaPages |-> [desc |-> BigBlock, free_cnt |-> 0]],
   free |-> [d \in descs |-> <<>>], pages |-> ArenaPages]

-----------------------------------------------------------------------------
Satisfies(d, size) == DescSize(d) >= size

(* The new arena of an empty descriptor; its blocks join the free list.     *)
Refill(m, d) ==
  LET p == NewPage(m, 1)
      n == blocks_per_arena(d)
  IN  [TakePages(m, 1, d, n) EXCEPT !.free[d] = @ \o [i \in 1 .. n |-> arena_to_block(p, d, i - 1)]]

PopBlock(m, d) ==
  LET b == Head(m.free[d])
  IN  [m |-> [m EXCEPT !.free[d] = Tail(@), !.arenas[PageOf(b)].free_cnt = @ - 1], b |-> b]

(* The pages of a big block: the sums are taken in size_t and may wrap.     *)
PageCnt(size) == ((size + ArenaSize + PGSIZE - 1) % 2 ^ SizeBits) \div PGSIZE

malloc(m, size) ==
  LET fits == {d \in descs : Satisfies(d, size)}
      d == Min(fits)
      page_cnt == PageCnt(size)
  IN  IF size = 0 THEN [m |-> m, b |-> NullBlock]
      ELSE IF fits = {}
      THEN IF page_cnt = 0 \/ Groups(m, page_cnt) = {} THEN [m |-> m, b |-> NullBlock]
           ELSE [m |-> TakePages(m, page_cnt, BigBlock, page_cnt), b |-> NewPage(m, page_cnt) * PGSIZE + ArenaSize]
      ELSE IF m.free[d] # <<>> THEN PopBlock(m, d)
      ELSE IF m.pages = {} THEN [m |-> m, b |-> NullBlock]
      ELSE PopBlock(Refill(m, d), d)

Unused(free_cnt, d) == free_cnt >= blocks_per_arena(d)

(* Wrong: the blocks of an arena that goes back stay on the free list.      *)
DropArena_List(m, p, d) == GivePages(m, p, 1)

DropArena(m, p, d) ==
  GivePages([m EXCEPT !.free[d] = SelectSeq(@, LAMBDA b : b \notin BlocksIn(p, d))], p, 1)

free(m, b) ==
  LET p == PageOf(b)
      a == block_to_arena(m, b)
      pushed == [m EXCEPT !.free[a.desc] = <<b>> \o @, !.arenas[p].free_cnt = @ + 1]
  IN  IF b = NullBlock THEN m
      ELSE IF a.desc = BigBlock THEN GivePages(m, p, a.free_cnt)
      ELSE IF Unused(a.free_cnt + 1, a.desc) THEN DropArena(pushed, p, a.desc)
      ELSE pushed

(* The product is taken in size_t.                                          *)
CallocSize(a, b) == (a * b) % 2 ^ SizeBits
calloc(m, a, b) ==
  IF CallocSize(a, b) < a \/ CallocSize(a, b) < b THEN [m |-> m, b |-> NullBlock] ELSE malloc(m, CallocSize(a, b))

block_size(m, b) ==
  LET a == block_to_arena(m, b)
  IN  IF a.desc # BigBlock THEN DescSize(a.desc) ELSE PGSIZE * a.free_cnt - (b % PGSIZE)

-----------------------------------------------------------------------------
Own(b, size) == IF b = NullBlock THEN {} ELSE {[at |-> b, size |-> size]}

MallocCall == \E size \in MallocSizes :
  LET r == malloc(mem, size)
  IN  /\ Cardinality(blocks) < MaxBlocks
      /\ mem' = r.m /\ blocks' = blocks \cup Own(r.b, size)
      /\ moved' = NoMove

CallocCall == \E c \in CallocFactors \X CallocFactors :
  LET r == calloc(mem, c[1], c[2])
  IN  /\ Cardinality(blocks) < MaxBlocks
      /\ mem' = r.m /\ blocks' = blocks \cup Own(r.b, c[1] * c[2])
      /\ moved' = NoMove

FreeBlock == \E x \in blocks :
  mem' = free(mem, x.at) /\ blocks' = blocks \ {x} /\ moved' = NoMove

(* The bytes between a block and the next one, or the end of its pages.     *)
Room(m, b) ==
  LET a == block_to_arena(m, b)
      next == IF a.desc = BigBlock THEN (PageOf(b) + a.free_cnt) * PGSIZE
              ELSE Min({c \in BlocksIn(PageOf(b), a.desc) : c > b} \cup {(PageOf(b) + 1) * PGSIZE})
  IN  next - b

(* malloc first, then the copy, then free.                                  *)
ReallocCall == \E x \in blocks, size \in MallocSizes :
  LET r == malloc(mem, size)
      copied == Min({size, block_size(r.m, x.at)})
  IN  IF size = 0 THEN mem' = free(mem, x.at) /\ blocks' = blocks \ {x} /\ moved' = NoMove
      ELSE IF r.b = NullBlock THEN UNCHANGED <<mem, blocks>> /\ moved' = NoMove
      ELSE /\ mem' = free(r.m, x.at)
           /\ blocks' = (blocks \ {x}) \cup Own(r.b, size)
           /\ moved' = [old |-> Min({x.size, block_size(mem, x.at)}), new |-> size, copied |-> copied, room |-> Room(mem, x.at)]

MallocStart == mem = malloc_init /\ blocks = {} /\ moved = NoMove

MallocNext == MallocCall \/ CallocCall \/ FreeBlock \/ ReallocCall

MallocSpec == MallocStart /\ [][MallocNext]_mvars
-----------------------------------------------------------------------------
Bytes(x) == x.at .. x.at + block_size(mem, x.at) - 1

(* The bytes of two blocks never overlap, and lie in pages that were taken  *)
(* from the page allocator, behind the header of the arena.                 *)
BlocksAreApart ==
  \A x \in blocks :
    /\ \A y \in blocks \ {x} : Bytes(x) \cap Bytes(y) = {}
    /\ x.at % PGSIZE >= ArenaSize
    /\ \A byte \in Bytes(x) : PageOf(byte) \in ArenaPages \ mem.pages

(* The count of an arena is the number of its blocks on the free list, the  *)
(* list names every free block once, and an arena without a block in use is *)
(* back in the page allocator.                                              *)
ArenaCountsExact ==
  \A d \in descs :
    LET list == mem.free[d]
        listed == {list[i] : i \in DOMAIN list}
    IN  /\ Cardinality(listed) = Len(list)
        /\ \A b \in listed : PageOf(b) \notin mem.pages /\ b \notin {x.at : x \in blocks}
        /\ \A p \in ArenaPages \ mem.pages :
             mem.arenas[p].desc = d =>
               /\ mem.arenas[p].free_cnt = Cardinality({b \in listed : PageOf(b) = p})
               /\ mem.arenas[p].free_cnt < blocks_per_arena(d)

(* realloc copies what the caller had, as far as the new block goes, and    *)
(* nothing from behind the end of the old block.                            *)
ReallocKeepsData ==
  moved # NoMove => moved.copied >= Min({moved.old, moved.new}) /\ moved.copied <= moved.room

(* "A new block of at least SIZE bytes" (malloc), "A times B bytes ... make  *)
(* sure it fits in size_t" (calloc).                                        *)
BlocksLargeEnough == \A x \in blocks : block_size(mem, x.at) >= x.size

(* A block has the bytes that were asked for unless these and the header of *)
(* the arena are more than size_t can count: then malloc's sum wraps, or    *)
(* calloc's product does and its test does not notice.                      *)
ShortOnlyOnOverflow ==
  \A x \in blocks : (block_size(mem, x.at) >= x.size) = (x.size + ArenaSize < 2 ^ SizeBits)

(* When the kernel has freed everything, every page is back.                *)
NoPageLost == blocks = {} => mem.pages = ArenaPages

(* Along any sequence of calls blocks stay apart, are as large as asked for  *)
(* short of an overflow and keep their data, and arenas go back to the page *)
(* allocator exactly when they are empty.                                   *)
BlocksExact ==
  /\ BlocksAreApart
  /\ ShortOnlyOnOverflow
  /\ ArenaCountsExact
  /\ ReallocKeepsData
  /\ NoPageLost
=============================================================================
