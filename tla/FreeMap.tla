------------------------------ MODULE FreeMap ------------------------------
(***************************************************************************)
(* The free map of filesys/free-map.c, and the record that the operators   *)
(* of the file system modules pass along:                                  *)
(*   map     the sectors whose bit is set in free_map                      *)
(*   disk    the device as the buffer cache shows it (module SectorStore)  *)
(*   open    the struct inode of each sector; open_cnt = 0: not open       *)
(*   fault   "none", or why the kernel has stopped                         *)
(* An operator that models a C function returns the record after the call; *)
(* where the function returns a value too, a record [ok, fs, ...] of both. *)
(***************************************************************************)
EXTENDS Integers, FiniteSetsExt, SequencesExt

CONSTANTS
  NumSectors,           \* size of the file system device
  BLOCK_SECTOR_SIZE,    \* bytes per sector; a byte is called a unit below
  DIRECT_PTRS,          \* direct pointers of a disk inode
  INDIRECT_BLOCK_PTRS   \* pointers of an indirect block

ASSUME LayoutAssumption ==
  /\ {NumSectors, BLOCK_SECTOR_SIZE, DIRECT_PTRS, INDIRECT_BLOCK_PTRS} \subseteq Nat \ {0}
  /\ NumSectors > 8

Sectors == 0 .. NumSectors - 1
FREE_MAP_SECTOR == 0
ROOT_DIR_SECTOR == 1

(* What a sector holds.  A sector of zeros reads as data and as pointers.   *)
NoPtrs == [i \in 0 .. INDIRECT_BLOCK_PTRS - 1 |-> 0]
ZeroUnits == [i \in 0 .. BLOCK_SECTOR_SIZE - 1 |-> 0]
empty == [kind |-> "zero"]
PtrBlock(ptrs) == [kind |-> "ptrs", ptrs |-> ptrs]
DataBlock(units) == [kind |-> "data", units |-> units]
InodeBlock(d) == [kind |-> "inode", d |-> d]
MapBlock(map) == [kind |-> "map", map |-> map]
PtrsOf(c) == IF c.kind = "ptrs" THEN c.ptrs ELSE NoPtrs
UnitsOf(c) == IF c.kind = "data" THEN c.units ELSE ZeroUnits

inode_disk == [directory : BOOLEAN, parent_node : Sectors, length : Nat,
               direct_ptrs : [0 .. DIRECT_PTRS - 1 -> Sectors],
               indirect_ptr : Sectors, doubly_indirect_ptr : Sectors]
ZeroInode == [directory |-> FALSE, parent_node |-> 0, length |-> 0,
              direct_ptrs |-> [i \in 0 .. DIRECT_PTRS - 1 |-> 0],
              indirect_ptr |-> 0, doubly_indirect_ptr |-> 0]
NotOpen == [open_cnt |-> 0, removed |-> FALSE, deny_write_cnt |-> 0, data |-> ZeroInode]

(* ASSERT and PANIC: the first fault stays.                                 *)
Fault(fs, why) == IF fs.fault = "none" THEN [fs EXCEPT !.fault = why] ELSE fs

cache_write_at(fs, sector, content) == [fs EXCEPT !.disk[sector] = content]

-----------------------------------------------------------------------------

free_map_init == {FREE_MAP_SECTOR, ROOT_DIR_SECTOR}

(* bitmap_write to free_map_file: the whole map, to the data sector of the
   open free map inode.  The pointer is NULL, and nothing is written, until
   free_map_create has made the file.                                       *)
free_map_write(fs) ==
  IF fs.open[FREE_MAP_SECTOR].open_cnt = 0 THEN fs
  ELSE cache_write_at(fs, fs.open[FREE_MAP_SECTOR].data.direct_ptrs[0], MapBlock(fs.map))

(* One sector; the callers never ask for more.                              *)
free_map_allocate(fs) ==
  LET free == Sectors \ fs.map
      sector == Min(free)
  IN  IF free = {} THEN [ok |-> FALSE, fs |-> fs, sector |-> 0]
      ELSE [ok |-> TRUE, sector |-> sector,
            fs |-> free_map_write([fs EXCEPT !.map = @ \cup {sector}])]

free_map_release(fs, sector) ==
  IF sector \notin fs.map THEN Fault(fs, "free_map_release")
  ELSE free_map_write([fs EXCEPT !.map = @ \ {sector}])

=============================================================================
