----------------------------- MODULE Directory -----------------------------
(***************************************************************************)
(* Directories of filesys/directory.c and path names of filesys/filesys.c. *)
(* A directory entry is two units of the directory file: the name, or 0    *)
(* when in_use is false, and the sector of the inode.  A path is a record  *)
(* of its parts and of whether it starts with a slash; module Strings has  *)
(* the functions that split the string.  A struct dir is named by its      *)
(* inode's sector, its pos is kept by the descriptor that owns it.         *)
(***************************************************************************)
EXTENDS Inode

EntrySize == 2
DOT == 0        \* the part "."
DOTDOT == -1    \* the part ".."
NoInode == -1   \* a null inode pointer

dirname(path) == Front(path.parts)
basename(path) == Last(path.parts)

(* The entries a loop over inode_read_at sees, up to the first short read.  *)
EntryCount(fs, dir) == inode_length(fs, dir) \div EntrySize
Entry(fs, dir, k) == inode_read_at(fs, dir, EntrySize, k * EntrySize)
Slots(fs, dir) == 0 .. EntryCount(fs, dir) - 1

(* The slot of NAME, or -1.                                                 *)
lookup(fs, dir, name) ==
  LET hits == {k \in Slots(fs, dir) : Entry(fs, dir, k)[1] = name}
  IN  IF hits = {} THEN -1 ELSE Min(hits)

dir_lookup(fs, dir, name) ==
  LET found(k, sector) ==
        IF k = -1 THEN [ok |-> FALSE, fs |-> fs, inode |-> NoInode]
        ELSE [ok |-> TRUE, fs |-> inode_open(fs, sector), inode |-> sector]
      at(k) == found(k, Entry(fs, dir, k)[2])
  IN  IF fs.open[dir].open_cnt = 0 THEN [ok |-> FALSE, fs |-> Fault(fs, "dangling"), inode |-> NoInode]
      ELSE IF name = DOT THEN [ok |-> TRUE, fs |-> inode_reopen(fs, dir), inode |-> dir]
      ELSE at(lookup(fs, dir, name))

dir_create(fs, sector, entry_cnt) == inode_create(fs, sector, entry_cnt * EntrySize, TRUE)

(* Wrong: takes the first slot, in use or not.                              *)
FreeSlot_First(fs, dir) == 0

(* The first slot that is not in use, or the one at the end of the file.    *)
FreeSlot(fs, dir) ==
  Min({k \in Slots(fs, dir) : Entry(fs, dir, k)[1] = 0} \cup {EntryCount(fs, dir)})

(* The inode is opened for inode_set_parent and never closed.               *)
dir_add(fs, dir, name, sector) ==
  LET added(w) ==
        IF w.n # EntrySize THEN [ok |-> FALSE, fs |-> w.fs]
        ELSE [ok |-> TRUE, fs |-> inode_set_parent(inode_open(w.fs, sector), sector, dir)]
  IN  IF fs.open[dir].open_cnt = 0 THEN [ok |-> FALSE, fs |-> Fault(fs, "dangling")]
      ELSE IF lookup(fs, dir, name) # -1 THEN [ok |-> FALSE, fs |-> fs]
      ELSE added(inode_write_at(fs, dir, <<name, sector>>, FreeSlot(fs, dir) * EntrySize))

(* There is no test for entries left in a directory that is removed.        *)
dir_remove(fs, dir, name) ==
  LET erased(w, sector) ==
        IF w.n # EntrySize THEN [ok |-> FALSE, fs |-> inode_close(w.fs, sector)]
        ELSE [ok |-> TRUE, fs |-> inode_close(inode_remove(w.fs, sector), sector)]
      erase(k, sector) ==
        erased(inode_write_at(inode_open(fs, sector), dir, <<0, sector>>, k * EntrySize), sector)
      at(k) == IF k = -1 THEN [ok |-> FALSE, fs |-> fs] ELSE erase(k, Entry(fs, dir, k)[2])
  IN  at(lookup(fs, dir, name))

(* The next entry in use at or after POS; POS moves past it, or to the end. *)
dir_readdir(fs, dir, pos) ==
  LET used == {k \in Slots(fs, dir) : k * EntrySize >= pos /\ Entry(fs, dir, k)[1] # 0}
  IN  IF used = {} THEN [ok |-> FALSE, pos |-> Max({pos, EntryCount(fs, dir) * EntrySize}), name |-> 0]
      ELSE [ok |-> TRUE, pos |-> (Min(used) + 1) * EntrySize, name |-> Entry(fs, dir, Min(used))[1]]

-----------------------------------------------------------------------------
(* Path names.  CWD is the working directory of the caller.                 *)

(* The inode a walk starts from, with a reference of its own.               *)
rel_to_abs(fs, cwd, path) ==
  IF path.abs THEN [fs |-> inode_open(fs, ROOT_DIR_SECTOR), inode |-> ROOT_DIR_SECTOR]
  ELSE [fs |-> inode_reopen(fs, cwd), inode |-> cwd]

(* One turn of the walk: part I of the directory name.  A part that is a
   regular file leaves the walk where it was, with the reference given up; a
   missing last part ends it there.                                         *)
WalkPart(s, parts, i) ==
  LET enter(l, closed) ==
        [s EXCEPT !.fs = closed, !.inode = IF inode_is_dir(closed, l.inode) THEN l.inode ELSE @]
      step(l) == IF l.ok THEN enter(l, inode_close(l.fs, s.inode))
                 ELSE [s EXCEPT !.fs = l.fs, !.done = TRUE, !.ok = (i = Len(parts))]
  IN  IF s.done \/ s.fs.fault # "none" THEN s ELSE step(dir_lookup(s.fs, s.inode, parts[i]))

(* The last component is basename (path).                                   *)
try_get_dir(fs, cwd, path) ==
  LET parts == IF path.parts = <<>> THEN <<>> ELSE dirname(path)
      walk(start) ==
        ForEach(1, Len(parts), [ok |-> TRUE, done |-> FALSE, fs |-> start.fs, inode |-> start.inode],
                LAMBDA s, i : WalkPart(s, parts, i))
  IN  walk(rel_to_abs(fs, cwd, path))

(* Does CHILD's copy of the link name PARENT?  The inode stays open.        *)
is_parent_dir(fs, child, parent) ==
  [ok |-> inode_get_parent(fs, child) = parent,
   fs |-> IF fs.open[child].open_cnt = 0 THEN Fault(fs, "dangling")
          ELSE inode_open(fs, inode_get_parent(fs, child))]

=============================================================================
