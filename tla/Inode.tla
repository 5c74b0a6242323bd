------------------------------- MODULE Inode -------------------------------
(***************************************************************************)
(* Inodes of filesys/inode.c: the blocks of a file, found through direct,  *)
(* indirect and doubly indirect pointers, file growth, and the open        *)
(* inodes, each with a copy of its disk inode.  A struct inode is named by *)
(* its sector.  Memory allocation succeeds.                                *)
(***************************************************************************)
EXTENDS FreeMap

DirectLimit == DIRECT_PTRS
IndirectLimit == DirectLimit + INDIRECT_BLOCK_PTRS
DoublyIndirectLimit == IndirectLimit + INDIRECT_BLOCK_PTRS * INDIRECT_BLOCK_PTRS

DIV_ROUND_UP(n, step) == (n + step - 1) \div step
bytes_to_sectors(size) == DIV_ROUND_UP(size, BLOCK_SECTOR_SIZE)

(* for (i = lo; i <= hi; i++) s = body (s, i)                               *)
ForEach(lo, hi, s, body(_, _)) == FoldLeft(body, s, [k \in 1 .. hi - lo + 1 |-> lo + k - 1])

(* The sector of block INDEX of a file, as its pointers say.                *)
BlockSector(fs, d, index) ==
  LET second(p, i) == PtrsOf(fs.disk[p])[i]
      k == index - IndirectLimit
  IN  CASE index < DirectLimit -> d.direct_ptrs[index]
        [] index \in DirectLimit .. IndirectLimit - 1 ->
             second(d.indirect_ptr, index - DirectLimit)
        [] index \in IndirectLimit .. DoublyIndirectLimit - 1 ->
             second(second(d.doubly_indirect_ptr, k \div INDIRECT_BLOCK_PTRS),
                    k % INDIRECT_BLOCK_PTRS)
        [] OTHER -> -1

byte_to_sector(fs, d, pos) ==
  IF pos > d.length \/ pos < 0 THEN -1 ELSE BlockSector(fs, d, pos \div BLOCK_SECTOR_SIZE)

-----------------------------------------------------------------------------
(* Growth.                                                                  *)

(* Allocates and zeroes a sector for each pointer from START to STOP, and
   stops at the first that the free map cannot give.                        *)
AllocatePtrs(fs, ptrs, start, stop) ==
  LET store(s, i, a) ==
        IF ~s.ok \/ ~a.ok THEN [s EXCEPT !.ok = FALSE]
        ELSE [ok |-> TRUE, fs |-> cache_write_at(a.fs, a.sector, empty),
              ptrs |-> [s.ptrs EXCEPT ![i] = a.sector]]
  IN  ForEach(start, stop, [ok |-> TRUE, fs |-> fs, ptrs |-> ptrs],
              LAMBDA s, i : store(s, i, free_map_allocate(s.fs)))

allocate_indirect_block(fs, ptrs, start, stop) ==
  IF start < 0 \/ stop >= INDIRECT_BLOCK_PTRS
  THEN [ok |-> FALSE, fs |-> Fault(fs, "allocate_indirect_block"), ptrs |-> ptrs]
  ELSE AllocatePtrs(fs, ptrs, start, stop)

inode_alloc(fs, d) ==
  LET second(a, b) ==
        IF ~b.ok THEN [ok |-> FALSE, fs |-> b.fs, d |-> [d EXCEPT !.indirect_ptr = a.sector]]
        ELSE [ok |-> TRUE, fs |-> cache_write_at(b.fs, b.sector, empty),
              d |-> [d EXCEPT !.indirect_ptr = a.sector, !.doubly_indirect_ptr = b.sector]]
      first(a) == IF ~a.ok THEN [ok |-> FALSE, fs |-> a.fs, d |-> d]
                  ELSE second(a, free_map_allocate(cache_write_at(a.fs, a.sector, empty)))
  IN  first(free_map_allocate(fs))

Lesser(m, n) == IF m < n THEN m ELSE n

ExtendDirect(s, curr, new) ==
  LET grown(a) == [ok |-> a.ok, fs |-> a.fs, d |-> [s.d EXCEPT !.direct_ptrs = a.ptrs]]
  IN  IF curr >= DirectLimit THEN s
      ELSE grown(AllocatePtrs(s.fs, s.d.direct_ptrs, curr, Lesser(new, DirectLimit) - 1))

(* Writes pointer block P with the pointers that were allocated.  On failure
   the sectors stay marked and the pointers to them are lost.               *)
StorePtrs(s, p, a) ==
  [s EXCEPT !.ok = a.ok,
            !.fs = IF a.ok THEN cache_write_at(a.fs, p, PtrBlock(a.ptrs)) ELSE a.fs]

(* Wrong: skips the first pointer of the indirect block.                    *)
ExtendIndirect_Skip(s, curr, new) ==
  IF ~s.ok \/ curr >= IndirectLimit \/ new <= DirectLimit THEN s
  ELSE StorePtrs(s, s.d.indirect_ptr,
         AllocatePtrs(s.fs, PtrsOf(s.fs.disk[s.d.indirect_ptr]), curr - DirectLimit + 1,
                      Lesser(new, IndirectLimit) - DirectLimit - 1))

ExtendIndirect(s, curr, new) ==
  IF ~s.ok \/ curr >= IndirectLimit \/ new <= DirectLimit THEN s
  ELSE StorePtrs(s, s.d.indirect_ptr,
         AllocatePtrs(s.fs, PtrsOf(s.fs.disk[s.d.indirect_ptr]), curr - DirectLimit,
                      Lesser(new, IndirectLimit) - DirectLimit - 1))

ExtendDoublyIndirect(s, curr, new) ==
  LET level(n) == DIV_ROUND_UP(n - IndirectLimit, INDIRECT_BLOCK_PTRS) - 1
      last(n) == ((n - IndirectLimit) % INDIRECT_BLOCK_PTRS) - 1
      min_first_level == level(curr) + 1
      max_first_level == level(new)
      fill(t, i, q) ==
        StorePtrs(t, q, allocate_indirect_block(t.fs, PtrsOf(t.fs.disk[q]),
                     IF i = min_first_level THEN last(curr) + 1 ELSE 0,
                     IF i = max_first_level THEN last(new) ELSE INDIRECT_BLOCK_PTRS))
      filled(a) == ForEach(min_first_level, max_first_level, [s EXCEPT !.ok = a.ok, !.fs = a.fs],
                           LAMBDA t, i : IF ~t.ok THEN t ELSE fill(t, i, a.ptrs[i]))
      ended(a, all) == IF ~all.ok THEN all
                       ELSE StorePtrs(all, s.d.doubly_indirect_ptr, [a EXCEPT !.fs = all.fs])
      grown(a) == ended(a, filled(a))
  IN  IF ~s.ok \/ curr >= DoublyIndirectLimit \/ new <= IndirectLimit THEN s
      ELSE grown(allocate_indirect_block(s.fs, PtrsOf(s.fs.disk[s.d.doubly_indirect_ptr]),
                                         min_first_level, max_first_level))

max_inode_size ==
  (DIRECT_PTRS + INDIRECT_BLOCK_PTRS + INDIRECT_BLOCK_PTRS * DIRECT_PTRS) * BLOCK_SECTOR_SIZE

inode_extend(fs, d, length) ==
  LET curr == bytes_to_sectors(d.length)
      new == bytes_to_sectors(length)
      direct == ExtendDirect([ok |-> TRUE, fs |-> fs, d |-> d], curr, new)
      indirect == ExtendIndirect(direct, Max({curr, Lesser(new, DirectLimit)}), new)
      ended(s) == IF s.ok THEN [s EXCEPT !.d.length = length] ELSE s
  IN  IF new = curr THEN [ok |-> TRUE, fs |-> fs, d |-> d]
      ELSE IF new < curr \/ length > max_inode_size \/ length < d.length
           THEN [ok |-> FALSE, fs |-> fs, d |-> d]
      ELSE ended(ExtendDoublyIndirect(indirect, Max({curr, Lesser(new, IndirectLimit)}), new))

(* The disk inode is written even when a sector for it is missing.          *)
inode_create(fs, sector, length, directory) ==
  LET written(ok, e) == [ok |-> ok /\ e.ok, fs |-> cache_write_at(e.fs, sector, InodeBlock(e.d))]
      extended(a) == written(a.ok, inode_extend(a.fs, a.d, length))
  IN  extended(inode_alloc(fs, [ZeroInode EXCEPT !.directory = directory]))

-----------------------------------------------------------------------------
(* Deallocation.                                                            *)

(* The sectors inode_dealloc releases, in order.  Every pointer to a data
   block is set to 0 just before the release that reads it.  The count of
   blocks left is unsigned: an empty file never brings it back to 0.        *)
DeallocOrder(fs, d) ==
  LET n == bytes_to_sectors(d.length)
      zeros(k) == [i \in 1 .. k |-> 0]
      in_direct == IF n = 0 THEN DIRECT_PTRS ELSE Lesser(n, DIRECT_PTRS)
      in_indirect == Lesser(n - DirectLimit, INDIRECT_BLOCK_PTRS)
      left == n - IndirectLimit
      second == PtrsOf(fs.disk[d.doubly_indirect_ptr])
      level(s, i) ==
        LET k == left - i * INDIRECT_BLOCK_PTRS
        IN  IF k <= 0 THEN s
            ELSE s \o zeros(Lesser(k, INDIRECT_BLOCK_PTRS)) \o <<second[i]>>
                   \o IF k <= INDIRECT_BLOCK_PTRS THEN <<d.doubly_indirect_ptr>> ELSE <<>>
  IN  zeros(in_direct)
      \o (IF n > DirectLimit THEN zeros(in_indirect) ELSE <<>>)
      \o (IF n > DirectLimit /\ n <= IndirectLimit THEN <<d.indirect_ptr>> ELSE <<>>)
      \o (IF n > IndirectLimit THEN ForEach(0, INDIRECT_BLOCK_PTRS - 1, <<>>, level) ELSE <<>>)

inode_dealloc(fs, d) ==
  FoldLeft(LAMBDA s, sector : IF s.fault = "none" THEN free_map_release(s, sector) ELSE s,
           fs, DeallocOrder(fs, d))

-----------------------------------------------------------------------------
(* Open inodes.                                                             *)

(* A sector that holds no inode is read as one all the same.                *)
inode_open(fs, sector) ==
  IF fs.open[sector].open_cnt > 0 THEN [fs EXCEPT !.open[sector].open_cnt = @ + 1]
  ELSE IF fs.disk[sector].kind # "inode" THEN Fault(fs, "no inode")
  ELSE [fs EXCEPT !.open[sector] = [NotOpen EXCEPT !.open_cnt = 1, !.data = fs.disk[sector].d]]

(* Wrong: the new reference is not counted.                                 *)
inode_reopen_Uncounted(fs, sector) ==
  IF fs.open[sector].open_cnt = 0 THEN Fault(fs, "dangling") ELSE fs

(* A struct inode whose open_cnt fell to 0 is freed: a pointer to it dangles. *)
inode_reopen(fs, sector) ==
  IF fs.open[sector].open_cnt = 0 THEN Fault(fs, "dangling")
  ELSE [fs EXCEPT !.open[sector].open_cnt = @ + 1]

inode_close(fs, sector) ==
  LET ino == fs.open[sector]
      closed == [fs EXCEPT !.open[sector] = NotOpen]
  IN  IF ino.open_cnt = 0 THEN Fault(fs, "dangling")
      ELSE IF ino.open_cnt > 1 THEN [fs EXCEPT !.open[sector].open_cnt = @ - 1]
      ELSE IF ~ino.removed THEN closed
      ELSE inode_dealloc(free_map_release(closed, sector), ino.data)

inode_remove(fs, sector) == [fs EXCEPT !.open[sector].removed = TRUE]

(* Wrong: the count of denials is left alone.                               *)
inode_deny_write_Not(fs, sector) == fs

inode_deny_write(fs, sector) ==
  IF fs.open[sector].deny_write_cnt + 1 > fs.open[sector].open_cnt
  THEN Fault(fs, "inode_deny_write")
  ELSE [fs EXCEPT !.open[sector].deny_write_cnt = @ + 1]

inode_allow_write(fs, sector) ==
  IF fs.open[sector].deny_write_cnt \notin 1 .. fs.open[sector].open_cnt
  THEN Fault(fs, "inode_allow_write")
  ELSE [fs EXCEPT !.open[sector].deny_write_cnt = @ - 1]

inode_length(fs, sector) == fs.open[sector].data.length
inode_is_dir(fs, sector) == fs.open[sector].data.directory

(* Only the copy in memory learns the parent.                               *)
inode_set_parent(fs, sector, parent) == [fs EXCEPT !.open[sector].data.parent_node = parent]
inode_get_parent(fs, sector) == fs.open[sector].data.parent_node

-----------------------------------------------------------------------------
(* Reading and writing.                                                     *)

(* Unit POS of the file whose disk inode is D.                              *)
UnitAt(fs, d, pos) ==
  UnitsOf(fs.disk[byte_to_sector(fs, d, pos)])[pos % BLOCK_SECTOR_SIZE]

(* What the call copies out: SIZE units from OFFSET on, cut at the end.     *)
inode_read_at(fs, sector, size, offset) ==
  LET d == fs.open[sector].data
      n == Max({0, Lesser(size, d.length - offset)})
  IN  [i \in 1 .. n |-> UnitAt(fs, d, offset + i - 1)]

(* Patches the part of BUFFER that falls into block INDEX.                  *)
WriteBlock(fs, d, buffer, offset, end, index) ==
  LET base == index * BLOCK_SECTOR_SIZE
      sector == byte_to_sector(fs, d, Max({base, offset}))
      old == UnitsOf(fs.disk[sector])
      new == [k \in 0 .. BLOCK_SECTOR_SIZE - 1 |->
                IF base + k \in offset .. end - 1 THEN buffer[base + k - offset + 1] ELSE old[k]]
  IN  cache_write_at(fs, sector, DataBlock(new))

(* Wrong: the grown inode is not written back to the disk.                  *)
SaveGrown_Memory(fs, sector, d) == [fs EXCEPT !.open[sector].data = d]

(* The inode a write has grown, in memory and on disk.                      *)
SaveGrown(fs, sector, d) ==
  cache_write_at([fs EXCEPT !.open[sector].data = d], sector, InodeBlock(d))

inode_write_at(fs, sector, buffer, offset) ==
  LET d0 == fs.open[sector].data
      length == offset + Len(buffer)
      copy(base, d, end) ==
        IF end <= offset THEN [n |-> 0, fs |-> base]
        ELSE [n |-> end - offset,
              fs |-> ForEach(offset \div BLOCK_SECTOR_SIZE, (end - 1) \div BLOCK_SECTOR_SIZE, base,
                             LAMBDA s, i : WriteBlock(s, d, buffer, offset, end, i))]
      grow(e, d) == IF ~e.ok THEN [n |-> 0, fs |-> [e.fs EXCEPT !.open[sector].data = e.d]]
                    ELSE copy(SaveGrown(e.fs, sector, d), d, length)
      extended(e) == grow(e, [e.d EXCEPT !.length = length])
  IN  IF fs.open[sector].deny_write_cnt > 0 THEN [n |-> 0, fs |-> fs]
      ELSE IF byte_to_sector(fs, d0, length - 1) # -1 THEN copy(fs, d0, Lesser(length, d0.length))
      ELSE extended(inode_extend(fs, d0, length))

=============================================================================
