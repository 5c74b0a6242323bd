------------------------------ MODULE Filesys ------------------------------
(***************************************************************************)
(* The file system as programs use it: filesys/filesys.c, filesys/file.c   *)
(* and the file system calls of userprog/syscall.c, on directories, inodes *)
(* and the free map.  A call is one step: all but those that only look at  *)
(* a descriptor, readdir, chdir and the open of a program in load () hold  *)
(* file_sys_lock from beginning to end.  The kernel stops at a failed      *)
(* assertion and at a use of a freed or null inode: fs.fault says where.   *)
(* A user address is valid; module Loader has the page directories.        *)
(***************************************************************************)
EXTENDS Directory, FiniteSets

CONSTANTS
  Procs,        \* processes; the first runs from the start
  FilePaths,    \* paths given to create and open
  DirPaths,     \* paths given to mkdir and chdir
  InitialSizes, \* sizes given to create
  Sizes,        \* sizes of reads and writes
  Positions,    \* positions given to seek
  Values,       \* what a program writes
  RootEntries,  \* the entries do_format makes room for
  MaxFds,       \* bound: descriptors a process opens
  MaxSize,      \* bound: where a write may end
  MaxOpens      \* bound: references to one inode

ASSUME InputsAssumption ==
  /\ Procs \subseteq Nat /\ Procs # {}
  /\ InitialSizes \cup Sizes \cup Positions \cup Values \subseteq Nat
  /\ {RootEntries, MaxFds, MaxSize, MaxOpens} \subseteq Nat

VARIABLES
  fs,           \* free map, disk, open inodes (module FreeMap)
  alive,        \* processes that run
  working_dir,  \* thread->working_dir
  file_table,   \* thread->file_table; entry i has descriptor i + 1
  exec_file     \* thread->exec_file

vars == <<fs, alive, working_dir, file_table, exec_file>>

FirstProc == Min(Procs)
FirstFd == 2
fd_count(p) == FirstFd + Len(file_table[p])

-----------------------------------------------------------------------------
(* filesys.c.                                                               *)

NoneOpen(disk) == [map |-> free_map_init, disk |-> disk, fault |-> "none",
                   open |-> [s \in Sectors |-> NotOpen]]

free_map_create(f) ==
  LET c == inode_create(f, FREE_MAP_SECTOR, 1, FALSE)
  IN  free_map_write(inode_open(c.fs, FREE_MAP_SECTOR))

do_format(f) ==
  inode_close(dir_create(free_map_create(f), ROOT_DIR_SECTOR, RootEntries).fs, FREE_MAP_SECTOR)

free_map_open(f) ==
  LET load(g, c) == IF c.kind # "map" THEN Fault(g, "free_map_open") ELSE [g EXCEPT !.map = c.map]
      read(g) == IF g.fault # "none" THEN g
                 ELSE load(g, g.disk[g.open[FREE_MAP_SECTOR].data.direct_ptrs[0]])
  IN  read(inode_open(f, FREE_MAP_SECTOR))

(* The root is opened as the working directory of the kernel's first thread,
   and reopened for the process it starts.                                  *)
filesys_init(disk, format) ==
  LET f == IF format THEN do_format(NoneOpen(disk)) ELSE NoneOpen(disk)
  IN  inode_reopen(free_map_open(inode_open(f, ROOT_DIR_SECTOR)), ROOT_DIR_SECTOR)

filesys_create(f, cwd, path, size, is_dir) ==
  LET failed(g, t, a) == [ok |-> FALSE, fs |-> inode_close(free_map_release(g, a.sector), t.inode)]
      added(t, a, d) == IF ~d.ok THEN failed(d.fs, t, a)
                        ELSE [ok |-> TRUE, fs |-> inode_close(d.fs, t.inode)]
      created(t, a, c) == IF ~c.ok THEN failed(c.fs, t, a)
                          ELSE added(t, a, dir_add(c.fs, t.inode, basename(path), a.sector))
      allocated(t, a) == IF ~a.ok THEN [ok |-> FALSE, fs |-> inode_close(t.fs, t.inode)]
                         ELSE created(t, a, inode_create(a.fs, a.sector, size, is_dir))
      walked(t) == IF ~t.ok \/ t.fs.fault # "none" THEN [ok |-> FALSE, fs |-> t.fs]
                   ELSE allocated(t, free_map_allocate(t.fs))
      start(g) == IF ~path.abs /\ f.open[cwd].removed THEN [ok |-> FALSE, fs |-> g]
                  ELSE walked(try_get_dir(g, cwd, path))
  IN  start(rel_to_abs(f, cwd, path).fs)

(* The last component is looked for in the root before the path is walked.  *)
filesys_open(f, cwd, path) ==
  LET null(g) == [ok |-> FALSE, fs |-> g, inode |-> NoInode]
      close(l, dir) == [l EXCEPT !.fs = inode_close(l.fs, dir)]
      walked(t) == IF ~t.ok \/ t.fs.fault # "none" THEN null(t.fs)
                   ELSE close(dir_lookup(t.fs, t.inode, basename(path)), t.inode)
      in_root(l) == IF l.ok THEN close(l, ROOT_DIR_SECTOR)
                    ELSE IF ~path.abs /\ cwd = NoInode THEN null(l.fs)
                    ELSE walked(try_get_dir(l.fs, cwd, path))
      start(r) ==
        IF path.parts = <<>>
          THEN [ok |-> TRUE, fs |-> inode_close(r, ROOT_DIR_SECTOR), inode |-> ROOT_DIR_SECTOR]
        ELSE IF path.abs \/ path.parts # <<DOT>>
          THEN in_root(dir_lookup(r, ROOT_DIR_SECTOR, basename(path)))
        ELSE IF f.open[cwd].removed THEN null(r)
        ELSE [ok |-> TRUE, inode |-> cwd, fs |-> inode_close(inode_reopen(r, cwd), ROOT_DIR_SECTOR)]
  IN  start(inode_open(f, ROOT_DIR_SECTOR))

filesys_chdir(f, cwd, path) ==
  LET stays(g) == [ok |-> FALSE, fs |-> g, inode |-> cwd]
      enter(l) == IF l.ok THEN [l EXCEPT !.fs = inode_close(l.fs, cwd)] ELSE stays(l.fs)
      walked(t) == IF t.fs.fault # "none" \/ ~t.ok THEN stays(Fault(t.fs, "dir_lookup"))
                   ELSE enter(dir_lookup(t.fs, t.inode, basename(path)))
      up == inode_get_parent(f, cwd)
  IN  IF path.abs \/ path.parts # <<DOTDOT>> THEN walked(try_get_dir(f, cwd, path))
      ELSE IF f.open[cwd].open_cnt = 0 THEN stays(Fault(f, "dangling"))
      ELSE [ok |-> TRUE, fs |-> inode_open(f, up), inode |-> up]

(* The inode looked up at the start stays open, and is not tested for NULL. *)
filesys_remove(f, cwd, path) ==
  LET fails(g) == [ok |-> FALSE, fs |-> g]
      removed(d, dir) == [d EXCEPT !.fs = inode_close(d.fs, dir)]
      remove(g, dir) == removed(dir_remove(g, dir, basename(path)), dir)
      asked(q, dir) == IF q.ok \/ q.fs.fault # "none" THEN fails(q.fs) ELSE remove(q.fs, dir)
      found(l, dir) ==
        IF ~l.ok THEN fails(Fault(l.fs, "inode_is_dir"))
        ELSE IF l.fs.fault # "none" THEN fails(l.fs)
        ELSE IF inode_is_dir(l.fs, l.inode) /\ l.inode # cwd
          THEN asked(is_parent_dir(l.fs, cwd, l.inode), dir)
        ELSE remove(l.fs, dir)
      walked(t) == IF t.fs.fault # "none" \/ ~t.ok THEN fails(Fault(t.fs, "dir_lookup"))
                   ELSE found(dir_lookup(t.fs, t.inode, basename(path)), t.inode)
  IN  IF path.parts = <<>> THEN fails(f) ELSE walked(try_get_dir(f, cwd, path))

-----------------------------------------------------------------------------
(* The system calls.                                                        *)

Running == fs.fault = "none"
(* Bound: references to one inode; most calls leave one behind.             *)
Within == \A s \in Sectors : fs.open[s].open_cnt <= MaxOpens

Call(p) == Running /\ Within /\ p \in alive

SysCreate(p, path, size) ==
  /\ Call(p)
  /\ fs' = filesys_create(fs, working_dir[p], path, size, FALSE).fs
  /\ UNCHANGED <<alive, working_dir, file_table, exec_file>>

SysMkdir(p, path) ==
  /\ Call(p)
  /\ fs' = filesys_create(fs, working_dir[p], path, 0, TRUE).fs
  /\ UNCHANGED <<alive, working_dir, file_table, exec_file>>

SysRemove(p, path) ==
  /\ Call(p)
  /\ fs' = filesys_remove(fs, working_dir[p], path).fs
  /\ UNCHANGED <<alive, working_dir, file_table, exec_file>>

SysChdir(p, path) ==
  LET moves(c) == fs' = c.fs /\ working_dir' = [working_dir EXCEPT ![p] = c.inode]
  IN  /\ Call(p)
      /\ moves(filesys_chdir(fs, working_dir[p], path))
      /\ UNCHANGED <<alive, file_table, exec_file>>

(* A directory gets a struct dir of its own, and the struct file is dropped. *)
open_fd(f, inode) ==
  IF inode_is_dir(f, inode)
  THEN [fs |-> inode_reopen(f, inode), entry |-> [file |-> NoInode, dir |-> inode, pos |-> 0]]
  ELSE [fs |-> f, entry |-> [file |-> inode, dir |-> NoInode, pos |-> 0]]

SysOpen(p, path) ==
  LET adds(e) == fs' = e.fs /\ file_table' = [file_table EXCEPT ![p] = Append(@, e.entry)]
      opened(o) == IF o.ok /\ o.fs.fault = "none" THEN adds(open_fd(o.fs, o.inode))
                   ELSE fs' = o.fs /\ UNCHANGED file_table
  IN  /\ Call(p) /\ Len(file_table[p]) < MaxFds
      /\ opened(filesys_open(fs, working_dir[p], path))
      /\ UNCHANGED <<alive, working_dir, exec_file>>

(* Descriptors a program may pass: two that it does not have included.      *)
Fds(p) == 0 .. fd_count(p) + 1

(* fd_to_file and fd_to_dir walk a copy of the list's head and tail, so they
   do not stop at the tail they meet.  There they read a descriptor 0 with a
   null file and a stray dir, from the members of struct thread around
   file_table; for another descriptor the assertion of list_next fails.     *)
HasFd(p, fd) == fd \in FirstFd .. fd_count(p) - 1
fd_to_file(p, fd) == IF HasFd(p, fd) THEN file_table[p][fd - 1].file ELSE NoInode
fd_to_dir(p, fd) == IF HasFd(p, fd) THEN file_table[p][fd - 1].dir ELSE NoInode
WalksOff(p, fd) == ~HasFd(p, fd) /\ fd # 0

(* thread_exit: only the program's own file is closed; what the descriptors
   and the working directory refer to stays open.                           *)
Exits(p) ==
  /\ alive' = alive \ {p}
  /\ fs' = IF exec_file[p] = NoInode THEN fs
           ELSE inode_close(inode_allow_write(fs, exec_file[p]), exec_file[p])
  /\ exec_file' = [exec_file EXCEPT ![p] = NoInode]
  /\ file_table' = [file_table EXCEPT ![p] = <<>>]
  /\ working_dir' = [working_dir EXCEPT ![p] = ROOT_DIR_SECTOR]

Stops(why) == fs' = Fault(fs, why) /\ UNCHANGED <<alive, working_dir, file_table, exec_file>>

SysRead(p, fd, size) ==
  LET data == inode_read_at(fs, fd_to_file(p, fd), size, file_table[p][fd - 1].pos)
  IN  /\ Call(p)
      /\ IF fd = 1 \/ fd > fd_count(p) THEN Exits(p)
         ELSE IF WalksOff(p, fd) THEN Stops("descriptor")
         ELSE IF fd_to_file(p, fd) = NoInode THEN UNCHANGED vars
         ELSE /\ file_table' = [file_table EXCEPT ![p][fd - 1].pos = @ + Len(data)]
              /\ UNCHANGED <<fs, alive, working_dir, exec_file>>

(* Wrong: the last unit of the buffer is left out.                          *)
file_write_Short(p, fd, size, value) ==
  inode_write_at(fs, fd_to_file(p, fd), [i \in 1 .. size - 1 |-> value], file_table[p][fd - 1].pos)

file_write(p, fd, size, value) ==
  inode_write_at(fs, fd_to_file(p, fd), [i \in 1 .. size |-> value], file_table[p][fd - 1].pos)

(* Descriptor 1 writes to the console (module Console).                     *)
SysWrite(p, fd, size, value) ==
  LET moves(w) == fs' = w.fs /\ file_table' = [file_table EXCEPT ![p][fd - 1].pos = @ + w.n]
  IN  /\ Call(p) /\ fd # 1
      /\ HasFd(p, fd) => file_table[p][fd - 1].pos + size <= MaxSize
      /\ IF fd = 0 \/ fd > fd_count(p) THEN Exits(p)
         ELSE IF WalksOff(p, fd) THEN Stops("descriptor")
         ELSE IF fd_to_file(p, fd) = NoInode THEN UNCHANGED vars
         ELSE moves(file_write(p, fd, size, value)) /\ UNCHANGED <<alive, working_dir, exec_file>>

SysSeek(p, fd, pos) ==
  /\ Call(p)
  /\ IF fd > fd_count(p) THEN Exits(p)
     ELSE IF WalksOff(p, fd) THEN Stops("descriptor")
     ELSE IF fd_to_file(p, fd) = NoInode THEN Exits(p)
     ELSE /\ file_table' = [file_table EXCEPT ![p][fd - 1].pos = pos]
          /\ UNCHANGED <<fs, alive, working_dir, exec_file>>

(* filesize and tell assert that they found a file; isdir and inumber do not
   look descriptor 0 up.                                                    *)
SysFilesize(p, fd) ==
  /\ Call(p)
  /\ IF WalksOff(p, fd) \/ fd_to_file(p, fd) = NoInode THEN Stops("descriptor") ELSE UNCHANGED vars

SysIsdir(p, fd) ==
  /\ Call(p)
  /\ IF WalksOff(p, fd) THEN Stops("descriptor") ELSE UNCHANGED vars

SysReaddir(p, fd) ==
  LET r == dir_readdir(fs, fd_to_dir(p, fd), file_table[p][fd - 1].pos)
  IN  /\ Call(p)
      /\ IF WalksOff(p, fd) THEN Stops("descriptor")
         ELSE IF fd_to_dir(p, fd) = NoInode THEN Stops("descriptor")
         ELSE /\ file_table' = [file_table EXCEPT ![p][fd - 1].pos = r.pos]
              /\ UNCHANGED <<fs, alive, working_dir, exec_file>>

SysExit(p) == Call(p) /\ Exits(p)

(* exec: the child opens its program with no working directory yet, denies
   writes to it and, if it is a program, takes the directory of its parent. *)
SysExec(p, q, path) ==
  LET starts(o) ==
        /\ o.ok /\ o.fs.fault = "none"
        /\ fs' = inode_reopen(inode_deny_write(o.fs, o.inode), working_dir[p])
        /\ alive' = alive \cup {q}
        /\ working_dir' = [working_dir EXCEPT ![q] = working_dir[p]]
        /\ exec_file' = [exec_file EXCEPT ![q] = o.inode]
      fails(o) ==
        /\ fs' = IF o.ok /\ o.fs.fault = "none"
                 THEN inode_close(inode_allow_write(inode_deny_write(o.fs, o.inode), o.inode), o.inode)
                 ELSE o.fs
        /\ UNCHANGED <<alive, working_dir, exec_file>>
      loads(o) == starts(o) \/ fails(o)
  IN  /\ Call(p) /\ q \in Procs \ alive
      /\ loads(filesys_open(fs, NoInode, path))
      /\ UNCHANGED file_table

(* halt flushes the cache; the machine starts again from the disk.          *)
Reboot ==
  /\ Running
  /\ fs' = filesys_init(fs.disk, FALSE)
  /\ alive' = {FirstProc}
  /\ working_dir' = [p \in Procs |-> ROOT_DIR_SECTOR]
  /\ file_table' = [p \in Procs |-> <<>>]
  /\ exec_file' = [p \in Procs |-> NoInode]

Init ==
  /\ fs = filesys_init([s \in Sectors |-> empty], TRUE)
  /\ alive = {FirstProc}
  /\ working_dir = [p \in Procs |-> ROOT_DIR_SECTOR]
  /\ file_table = [p \in Procs |-> <<>>]
  /\ exec_file = [p \in Procs |-> NoInode]

Next ==
  \/ \E p \in Procs :
       \/ \E path \in FilePaths :
            \/ \E size \in InitialSizes : SysCreate(p, path, size)
            \/ \E q \in Procs : SysExec(p, q, path)
       \/ \E path \in DirPaths : SysMkdir(p, path) \/ SysChdir(p, path)
       \/ \E path \in FilePaths \cup DirPaths : SysRemove(p, path) \/ SysOpen(p, path)
       \/ \E fd \in Fds(p) :
            \/ \E size \in Sizes : SysRead(p, fd, size)
            \/ \E size \in Sizes, value \in Values : SysWrite(p, fd, size, value)
            \/ \E pos \in Positions : SysSeek(p, fd, pos)
            \/ SysFilesize(p, fd) \/ SysIsdir(p, fd) \/ SysReaddir(p, fd)
       \/ SysExit(p)
  \/ Reboot

Spec == Init /\ [][Next]_vars

-----------------------------------------------------------------------------
(* What exists.                                                             *)

(* The inode as the next caller sees it: the open copy or the one on disk.  *)
InodeNow(s) == IF fs.open[s].open_cnt > 0 THEN fs.open[s].data ELSE fs.disk[s].d
IsInode(s) == fs.open[s].open_cnt > 0 \/ fs.disk[s].kind = "inode"
Contents(s) ==
  LET d == InodeNow(s)
  IN  SubSeq([i \in 1 .. d.length |-> UnitAt(fs, d, i - 1)], 1, d.length)

(* The entries in use of directory S: name and sector.                      *)
EntriesIn(s) ==
  LET d == InodeNow(s)
      all == {<<k, UnitAt(fs, d, 2 * k), UnitAt(fs, d, 2 * k + 1)>> : k \in 0 .. (d.length \div 2) - 1}
  IN  {e \in all : e[2] # 0}
IsDir(s) == IsInode(s) /\ InodeNow(s).directory
Kids(s) == IF IsDir(s) THEN {e[3] : e \in EntriesIn(s)} ELSE {}

(* The inodes in use: open, or reached from the root through at most two
   directories, which is as deep as the paths of a run go.                  *)
Live ==
  LET opened == {s \in Sectors : fs.open[s].open_cnt > 0} \cup {FREE_MAP_SECTOR, ROOT_DIR_SECTOR}
      below(S) == UNION {Kids(s) : s \in S}
      first == below(opened)
  IN  opened \cup first \cup below(first \ opened)
Files == {s \in Live : IsInode(s) /\ ~InodeNow(s).directory /\ s # FREE_MAP_SECTOR}
Tree == UNION {{<<s, e[2], e[3]>> : e \in EntriesIn(s)} : s \in {x \in Live : IsDir(x)}}

(* The sectors of inode S, each with what it is used for.                   *)
Uses(s) ==
  LET d == InodeNow(s)
      n == bytes_to_sectors(d.length)
      levels == DIV_ROUND_UP(n - IndirectLimit, INDIRECT_BLOCK_PTRS)
  IN  {<<s, "inode", 0, s>>, <<s, "indirect", 0, d.indirect_ptr>>,
       <<s, "doubly", 0, d.doubly_indirect_ptr>>}
      \cup {<<s, "data", i, BlockSector(fs, d, i)>> : i \in 0 .. n - 1}
      \cup {<<s, "second", i, PtrsOf(fs.disk[d.doubly_indirect_ptr])[i]>> : i \in 0 .. levels - 1}
AllUses == UNION {Uses(s) : s \in {x \in Live : IsInode(x)}}

-----------------------------------------------------------------------------
(* Properties.                                                              *)

(* The state keeps its types: the free map has bits for the sectors of the
   device only, every process that runs has a working directory, and an open
   inode holds an inode.                                                    *)
FsTypeOK ==
  /\ fs.map \subseteq Sectors
  /\ \A s \in Sectors : fs.open[s].data \in inode_disk /\ fs.open[s].open_cnt \in Nat
  /\ alive \subseteq Procs
  /\ working_dir \in [Procs -> Sectors]
  /\ exec_file \in [Procs -> Sectors \cup {NoInode}]
  /\ \A p \in Procs : Len(file_table[p]) <= MaxFds

(* No sector serves two purposes: after any creations, removals, growths and
   failed growths of files that need one block below the doubly indirect
   pointer at most, the inode, index and data sectors of the files and
   directories in use are pairwise different, and none of them is missing
   (inode_extend, inode_alloc, free_map_allocate).  In longer files blocks
   do go missing: see BlocksMapped.                                         *)
SectorsOwnedOnce ==
  \A u, v \in AllUses : /\ u[4] = v[4] => u = v
                        /\ u[4] = 0 => u[1] = FREE_MAP_SECTOR /\ u[2] = "inode"

(* A sector in use is marked in the free map, so nobody else can get it.    *)
OwnedAreMarked == \A u \in AllUses : u[4] \in fs.map

(* No sector has two owners, and whatever has an owner is marked in the     *)
(* free map, so no allocation can give it away again.                       *)
SectorsSound == FsTypeOK /\ SectorsOwnedOnce /\ OwnedAreMarked

(* The free map file holds the free map: what a restart will read.          *)
FreeMapDurable == fs.disk[fs.open[FREE_MAP_SECTOR].data.direct_ptrs[0]] = MapBlock(fs.map)

(* The copy of a disk inode that an open inode keeps agrees with the disk on
   the length and on every block below it, so a restart finds the same file
   (inode_write_at writes the inode back only when it has grown it).  The
   parent is left out: only the copy in memory has it (ParentLinksHold).    *)
CopiesAgree ==
  \A s \in Sectors : fs.open[s].open_cnt > 0 =>
    LET d == fs.open[s].data
        e == fs.disk[s].d
    IN  /\ fs.disk[s].kind = "inode"
        /\ e.length = d.length /\ e.directory = d.directory
        /\ \A i \in 0 .. bytes_to_sectors(d.length) - 1 :
              BlockSector(fs, d, i) = BlockSector(fs, e, i)

(* What a restart would read from the disk is what the kernel has in        *)
(* memory: the free map, and the lengths, kinds and blocks of open inodes.  *)
RestartAgrees == FreeMapDurable /\ CopiesAgree

(* "Set dest_inode's data disk_node parent directory to parent_inode": the
   parent of a directory is the directory that has the entry for it, so that
   ".." leads back up, after a restart too (inode_set_parent, filesys_chdir). *)
ParentLinksHold == \A e \in Tree : IsDir(e[3]) => InodeNow(e[3]).parent_node = e[1]

(* The references programs hold: descriptors, working directories, programs
   that run, and the root and free map of the kernel itself.                *)
Holders(s) ==
  Cardinality({p \in alive : working_dir[p] = s})
  + Cardinality({p \in alive : exec_file[p] = s})
  + Cardinality({x \in alive \X (1 .. MaxFds) : x[2] <= Len(file_table[x[1]])
                   /\ s \in {file_table[x[1]][x[2]].file, file_table[x[1]][x[2]].dir}})
  + (IF s \in {FREE_MAP_SECTOR, ROOT_DIR_SECTOR} THEN 1 ELSE 0)

(* open_cnt, the "Number of openers", counts at least these: no call gives up
   a reference that is not its own, so no inode is freed while a program can
   still use it.  It holds for paths that lead through directories; a walk
   that meets a regular file on its way closes a directory twice
   (try_get_dir).                                                           *)
HeldAreOpen == \A s \in Sectors : fs.open[s].open_cnt >= Holders(s)

(* Names are unique in a directory, and every entry names an inode that was
   written before it: a walk never meets a sector that holds something else. *)
EntriesResolve ==
  \A s \in {x \in Live : IsDir(x)} :
    \A e, f \in EntriesIn(s) : (e[2] = f[2] => e = f) /\ IsInode(e[3])

(* A step changes the tree of directories by one new entry, for an inode that
   nothing referred to, or it takes entries away; a create that fails for
   want of space halfway, or a walk that gives up, changes nothing.  After
   it names are unique and every entry resolves.                            *)
TreeSteps ==
  [][fs'.disk # fs.disk =>
       /\ EntriesResolve'
       /\ \E old \in {Tree}, new \in {Tree'} :
            \/ new \subseteq old
            \/ \E e \in new : new = old \cup {e} /\ e[3] \notin Live]_vars

(* Nobody writes to a program while it runs (file_deny_write in load).      *)
ProgramsUnwritten ==
  [][\A p \in Procs :
       exec_file[p] # NoInode /\ exec_file'[p] = exec_file[p] /\ fs'.disk # fs.disk
         => Contents(exec_file[p])' = Contents(exec_file[p])]_vars

(* Every byte below the length of a file has a sector: byte_to_sector
   "returns the block device sector that contains byte offset POS", not the
   null pointer of a block that inode_extend skipped.                       *)
BlocksMapped ==
  \A s \in Files : \A i \in 0 .. bytes_to_sectors(InodeNow(s).length) - 1 :
    BlockSector(fs, InodeNow(s), i) \notin {-1, 0}

(* "Returns -1 if INODE does not contain data for a byte at offset POS": so
   for the offset just past the end of a file (byte_to_sector).             *)
EndRefused == \A s \in Files : byte_to_sector(fs, InodeNow(s), InodeNow(s).length) = -1

(* One of the things the comments of inode.c say holds: every block below the
   length has a sector (BlocksMapped) and the end has none (EndRefused), a
   directory knows its parent (ParentLinksHold), and open_cnt is the "Number of
   openers" (HeldAreOpen).  A state in which it is false refutes each of them. *)
InodeCommentHolds == BlocksMapped \/ EndRefused \/ ParentLinksHold \/ HeldAreOpen

(* The data of the files is kept as FileStore says: through growth across the
   levels of pointers, failed growth, removal while open, and a restart.
   FileStore allows for byte_to_sector, which returns a sector for the offset
   just past the end too, so that inode_write_at drops a last unit there
   (EndRefused).                                                            *)
Store == INSTANCE FileStore WITH
  Ids <- Sectors, Units <- Values, MaxLength <- max_inode_size,
  files <- [s \in Files |-> Contents(s)]
ImplementsFiles == Store!Spec

=============================================================================
