------------------------------- MODULE Loader -------------------------------
(***************************************************************************)
(* Loading and unloading the address space of a process: load() and its    *)
(* helpers and process_exit() of userprog/process.c over the page          *)
(* directories of userprog/pagedir.c.  Several processes load and exit on  *)
(* one CPU; the timer may switch between any two steps, and either page    *)
(* pool may run out at any allocation.                                     *)
(*                                                                         *)
(* An address is a number below AddrSpace, a page directory is the set of  *)
(* its page tables and of its present entries, and a page holds PGSIZE     *)
(* bytes.  The executable file holds byte i + 1 at offset i, so no byte of *)
(* it looks like zero fill.  Page 0 stands for the null pointer.           *)
(***************************************************************************)
EXTENDS Integers, Sequences, FiniteSets, FiniteSetsExt

CONSTANTS
  LoadProcs,        \* the processes
  KernelPages,      \* pages of the kernel pool
  UserPages,        \* pages of the user pool
  init_page_dir,    \* the kernel's own page directory, in no pool
  LOAD_PGSIZE,      \* bytes in a page
  PTPages,          \* user pages one page table covers
  UserVPages,       \* user virtual pages: PHYS_BASE is the end of the last
  AddrSpace,        \* 2^32: addresses wrap here
  FileLen,          \* length of an executable
  Programs          \* Programs[p]: executables p may run: [found, valid, phdrs]

ASSUME LoaderAssumption ==
  /\ KernelPages \cap UserPages = {}
  /\ init_page_dir \notin KernelPages \cup UserPages
  /\ 0 \notin KernelPages \cup UserPages \cup {init_page_dir}
  /\ PTPages > 0 /\ UserVPages % PTPages = 0
  /\ AddrSpace > UserVPages * LOAD_PGSIZE

VARIABLES
  lcur,             \* the process on the CPU
  cr3,              \* the active page directory
  kfree, ufree,     \* free pages of the two pools
  pd,               \* pd[p]: the directory p loads into and destroys
  lp                \* lp[p]: locals of load() and process_exit()

loader_vars == <<lcur, cr3, kfree, ufree, pd, lp>>

PHYS_BASE == UserVPages * LOAD_PGSIZE
pg_round_down(a) == a - (a % LOAD_PGSIZE)
pg_round_up(a) == pg_round_down(a + LOAD_PGSIZE - 1)
is_user_vaddr(a) == a < PHYS_BASE

VPages == 0 .. UserVPages - 1
PdNo(v) == v \div PTPages
NoMap == [kpage |-> 0, writable |-> FALSE, bytes |-> <<>>]
EmptyDir == [tables |-> [r \in 0 .. PdNo(UserVPages - 1) |-> 0],
             ptes   |-> [v \in VPages |-> NoMap]]

Outside == [pc |-> "out", prog |-> <<>>, pagedir |-> 0, dir |-> 0, file |-> FALSE,
            pos |-> 0, seg |-> 0, upage |-> 0, read |-> 0, zero |-> 0,
            kpage |-> 0, bytes |-> <<>>]

LoaderInit ==
  /\ lcur \in LoadProcs
  /\ cr3 = init_page_dir
  /\ kfree = KernelPages
  /\ ufree = UserPages
  /\ pd = [p \in LoadProcs |-> EmptyDir]
  /\ lp = [p \in LoadProcs |-> Outside]

(* validate_segment(). *)
validate_segment(ph) ==
  LET end == (ph.vaddr + ph.memsz) % AddrSpace IN
    /\ ph.offset % LOAD_PGSIZE = ph.vaddr % LOAD_PGSIZE
    /\ ph.offset <= FileLen
    /\ ph.memsz >= ph.filesz
    /\ ph.memsz # 0
    /\ is_user_vaddr(ph.vaddr)
    /\ is_user_vaddr(end)
    /\ end >= ph.vaddr
    /\ ph.vaddr >= LOAD_PGSIZE

(***************************************************************************)
(* The steps of load().  Each is taken by the process on the CPU.          *)
(***************************************************************************)
LoadAt(p, l) == lcur = p /\ lp[p].pc = l
LoadGoto(p, l) == lp' = [lp EXCEPT ![p].pc = l]

(* The way out, with what process_exit() reads and no other local. *)
LoadExit(p) ==
  lp' = [lp EXCEPT ![p] = [Outside EXCEPT !.pc = "exit", !.pagedir = lp[p].pagedir,
                                          !.dir = lp[p].dir, !.file = lp[p].file]]

(* t->pagedir = pagedir_create (), from the kernel pool. *)
load_create(p) ==
  /\ LoadAt(p, "out")
  /\ \E prog \in Programs[p] :
       IF kfree = {}
       THEN LoadExit(p) /\ UNCHANGED kfree
       ELSE /\ lp' = [lp EXCEPT ![p].prog = prog, ![p].pc = "activate",
                                ![p].pagedir = Min(kfree), ![p].dir = Min(kfree)]
            /\ kfree' = kfree \ {Min(kfree)}
  /\ pd' = [pd EXCEPT ![p] = EmptyDir]
  /\ UNCHANGED <<lcur, cr3, ufree>>

ActiveDir(q) == IF lp[q].pagedir = 0 THEN init_page_dir ELSE lp[q].pagedir

(* process_activate(). *)
load_activate(p) ==
  /\ LoadAt(p, "activate")
  /\ cr3' = ActiveDir(p)
  /\ LoadGoto(p, "open")
  /\ UNCHANGED <<lcur, kfree, ufree, pd>>

(* The executable is opened, write-protected and kept in exec_file. *)
load_open(p) ==
  /\ LoadAt(p, "open")
  /\ IF lp[p].prog.found
     THEN lp' = [lp EXCEPT ![p].file = TRUE, ![p].pc = "header"]
     ELSE LoadExit(p)
  /\ UNCHANGED <<lcur, cr3, kfree, ufree, pd>>

(* The ELF header is read and verified. *)
load_header(p) ==
  /\ LoadAt(p, "header")
  /\ IF lp[p].prog.valid THEN LoadGoto(p, "phdr") ELSE LoadExit(p)
  /\ UNCHANGED <<lcur, cr3, kfree, ufree, pd>>

(* Wrong: a normal segment reads filesz bytes, without its page offset. *)
ReadBytes_NoOffset(ph) == ph.filesz

(* read_bytes of a loadable segment, and with it zero_bytes. *)
ReadBytes(ph) ==
  IF ph.filesz > 0 THEN (ph.vaddr % LOAD_PGSIZE) + ph.filesz ELSE 0

ZeroBytes(ph) ==
  pg_round_up((ph.vaddr % LOAD_PGSIZE) + ph.memsz) - ReadBytes(ph)

(* The next program header: ignored, refused, or the arguments of          *)
(* load_segment(), which starts with a seek.                               *)
load_phdr(p) ==
  /\ LoadAt(p, "phdr")
  /\ LET l  == lp[p]
         ph == l.prog.phdrs[l.seg + 1] IN
       IF l.seg = Len(l.prog.phdrs) THEN LoadGoto(p, "stack")
       ELSE IF ph.type = "ignored" THEN lp' = [lp EXCEPT ![p].seg = @ + 1]
       ELSE IF ph.type = "load" /\ validate_segment(ph)
       THEN lp' = [lp EXCEPT ![p] =
                     [l EXCEPT !.seg = @ + 1, !.pc = "get",
                               !.pos = pg_round_down(ph.offset),
                               !.upage = ph.vaddr \div LOAD_PGSIZE,
                               !.read = ReadBytes(ph), !.zero = ZeroBytes(ph)]]
       ELSE LoadExit(p)
  /\ UNCHANGED <<lcur, cr3, kfree, ufree, pd>>

(* The loop of load_segment(): get a page ... *)
segment_get(p) ==
  /\ LoadAt(p, "get")
  /\ IF lp[p].read = 0 /\ lp[p].zero = 0
     THEN LoadGoto(p, "phdr") /\ UNCHANGED ufree
     ELSE IF ufree = {}
     THEN LoadExit(p) /\ UNCHANGED ufree
     ELSE /\ lp' = [lp EXCEPT ![p].kpage = Min(ufree), ![p].pc = "read"]
          /\ ufree' = ufree \ {Min(ufree)}
  /\ UNCHANGED <<lcur, cr3, kfree, pd>>

PageRead(l) == Min({l.read, LOAD_PGSIZE})

(* ... read part of it from the file and zero the rest ... *)
segment_read(p) ==
  /\ LoadAt(p, "read")
  /\ LET l == lp[p]
         n == PageRead(l) IN
       IF l.pos + n > FileLen
       THEN /\ ufree' = ufree \cup {l.kpage}
            /\ LoadExit(p)
       ELSE /\ lp' = [lp EXCEPT ![p].pc = "install",
                 ![p].bytes = [i \in 0 .. LOAD_PGSIZE - 1 |->
                                 IF i < n THEN l.pos + i + 1 ELSE 0],
                 ![p].pos = @ + n]
            /\ UNCHANGED ufree
  /\ UNCHANGED <<lcur, cr3, kfree, pd>>

(***************************************************************************)
(* install_page(): pagedir_get_page(), then pagedir_set_page() with        *)
(* lookup_page(), which creates the page table.  done is the caller after  *)
(* success; on failure it frees the page and load() fails.                 *)
(***************************************************************************)
InstallFails(p) ==
  /\ ufree' = ufree \cup {lp[p].kpage}
  /\ LoadExit(p)
  /\ UNCHANGED <<kfree, pd>>

install_page(p, v, writable, done) ==
  LET l     == lp[p]
      table == pd[p].tables[PdNo(v)]
      entry == [kpage |-> l.kpage, writable |-> writable, bytes |-> l.bytes] IN
    IF pd[p].ptes[v].kpage # 0 \/ (table = 0 /\ kfree = {})
    THEN InstallFails(p)
    ELSE /\ IF table # 0
            THEN /\ pd' = [pd EXCEPT ![p].ptes[v] = entry]
                 /\ UNCHANGED kfree
            ELSE /\ pd' = [pd EXCEPT ![p].ptes[v] = entry,
                                     ![p].tables[PdNo(v)] = Min(kfree)]
                 /\ kfree' = kfree \ {Min(kfree)}
         /\ lp' = [lp EXCEPT ![p] = [done EXCEPT !.kpage = 0, !.bytes = <<>>]]
         /\ UNCHANGED ufree

(* ... and add it to the address space. *)
segment_install(p) ==
  /\ LoadAt(p, "install")
  /\ LET l == lp[p]
         ph == l.prog.phdrs[l.seg] IN
       install_page(p, l.upage, ph.writable,
                    [l EXCEPT !.pc = "get", !.upage = @ + 1,
                              !.read = @ - PageRead(l),
                              !.zero = @ - (LOAD_PGSIZE - PageRead(l))])
  /\ UNCHANGED <<lcur, cr3>>

(* setup_stack(): a zeroed page ... *)
setup_stack_get(p) ==
  /\ LoadAt(p, "stack")
  /\ IF ufree = {}
     THEN LoadExit(p) /\ UNCHANGED ufree
     ELSE /\ lp' = [lp EXCEPT ![p].kpage = Min(ufree), ![p].pc = "stackinstall",
                              ![p].bytes = [i \in 0 .. LOAD_PGSIZE - 1 |-> 0]]
          /\ ufree' = ufree \ {Min(ufree)}
  /\ UNCHANGED <<lcur, cr3, kfree, pd>>

(* ... installed at the top of user memory, after which load() succeeds. *)
setup_stack_install(p) ==
  /\ LoadAt(p, "stackinstall")
  /\ install_page(p, UserVPages - 1, TRUE, [lp[p] EXCEPT !.pc = "running"])
  /\ UNCHANGED <<lcur, cr3>>

(* The process runs until it exits, by a call or by a fault. *)
ProcessLeaves(p) ==
  /\ LoadAt(p, "running")
  /\ LoadExit(p)
  /\ UNCHANGED <<lcur, cr3, kfree, ufree, pd>>

(***************************************************************************)
(* process_exit().                                                         *)
(***************************************************************************)
(* file_close (cur->exec_file), which allows writes again.  A process      *)
(* without a page directory is done.                                       *)
exit_close(p) ==
  /\ LoadAt(p, "exit")
  /\ lp' = [lp EXCEPT ![p].file = FALSE,
                      ![p].pc = IF lp[p].pagedir = 0 THEN "gone" ELSE "clear"]
  /\ UNCHANGED <<lcur, cr3, kfree, ufree, pd>>

(* Wrong: cur->pagedir keeps the directory that is about to be destroyed. *)
exit_clear_Late(p) ==
  /\ LoadAt(p, "clear")
  /\ LoadGoto(p, "base")
  /\ UNCHANGED <<lcur, cr3, kfree, ufree, pd>>

(* cur->pagedir = NULL ... *)
exit_clear(p) ==
  /\ LoadAt(p, "clear")
  /\ lp' = [lp EXCEPT ![p].pagedir = 0, ![p].pc = "base"]
  /\ UNCHANGED <<lcur, cr3, kfree, ufree, pd>>

(* ... pagedir_activate (NULL) ... *)
exit_activate(p) ==
  /\ LoadAt(p, "base")
  /\ cr3' = init_page_dir
  /\ LoadGoto(p, "destroy")
  /\ UNCHANGED <<lcur, kfree, ufree, pd>>

(* ... and pagedir_destroy(): the pages of the first table that is         *)
(* present, then the table ...                                             *)
destroy_table(p) ==
  LET present == {r \in DOMAIN pd[p].tables : pd[p].tables[r] # 0}
      r       == Min(present)
      under   == {v \in VPages : PdNo(v) = r /\ pd[p].ptes[v].kpage # 0} IN
    /\ LoadAt(p, "destroy") /\ present # {}
    /\ ufree' = ufree \cup {pd[p].ptes[v].kpage : v \in under}
    /\ kfree' = kfree \cup {pd[p].tables[r]}
    /\ pd' = [pd EXCEPT ![p].tables[r] = 0,
                        ![p].ptes = [v \in VPages |->
                                       IF v \in under THEN NoMap ELSE @[v]]]
    /\ UNCHANGED <<lcur, cr3, lp>>

(* ... and at last the directory itself. *)
destroy_dir(p) ==
  /\ LoadAt(p, "destroy") /\ \A r \in DOMAIN pd[p].tables : pd[p].tables[r] = 0
  /\ kfree' = kfree \cup {lp[p].dir}
  /\ lp' = [lp EXCEPT ![p].dir = 0, ![p].pc = "gone"]
  /\ UNCHANGED <<lcur, cr3, ufree, pd>>

(* The thread is gone; its place is taken by a new process. *)
ProcessEnds(p) ==
  /\ LoadAt(p, "gone")
  /\ lp' = [lp EXCEPT ![p] = Outside]
  /\ UNCHANGED <<lcur, cr3, kfree, ufree, pd>>

(* The scheduler runs another process: thread_schedule_tail() calls        *)
(* process_activate().                                                     *)
LoaderSwitch(q) ==
  /\ q # lcur
  /\ lcur' = q
  /\ cr3' = ActiveDir(q)
  /\ UNCHANGED <<kfree, ufree, pd, lp>>

LoaderNext ==
  \E p \in LoadProcs :
    \/ load_create(p)
    \/ load_activate(p)
    \/ load_open(p)
    \/ load_header(p)
    \/ load_phdr(p)
    \/ segment_get(p)
    \/ segment_read(p)
    \/ segment_install(p)
    \/ setup_stack_get(p)
    \/ setup_stack_install(p)
    \/ ProcessLeaves(p)
    \/ exit_close(p)
    \/ exit_clear(p)
    \/ exit_activate(p)
    \/ destroy_table(p)
    \/ destroy_dir(p)
    \/ ProcessEnds(p)
    \/ LoaderSwitch(p)

LoaderSpec == LoaderInit /\ [][LoaderNext]_loader_vars

(***************************************************************************)
(* Properties.                                                             *)
(***************************************************************************)
KernelOwned(p) ==
  ({lp[p].dir} \cup {pd[p].tables[r] : r \in DOMAIN pd[p].tables}) \ {0}
UserOwned(p) ==
  ({lp[p].kpage} \cup {pd[p].ptes[v].kpage : v \in VPages}) \ {0}

(* Every page of both pools is free or belongs to exactly one process, on  *)
(* every path through load() and process_exit(): no failure leaks a page,  *)
(* and no page is freed while it is mapped.                                *)
PagesAccounted ==
  /\ kfree \cup UNION {KernelOwned(p) : p \in LoadProcs} = KernelPages
  /\ ufree \cup UNION {UserOwned(p) : p \in LoadProcs} = UserPages
  /\ \A p \in LoadProcs :
       /\ KernelOwned(p) \cap kfree = {} /\ UserOwned(p) \cap ufree = {}
       /\ \A q \in LoadProcs \ {p} :
            /\ KernelOwned(p) \cap KernelOwned(q) = {}
            /\ UserOwned(p) \cap UserOwned(q) = {}

(* "Correct ordering here is crucial": wherever the timer switches, the    *)
(* active page directory is never one that is being taken apart or was     *)
(* freed, and a process in user mode runs in its own.                      *)
ActiveDirLive ==
  /\ cr3 \notin kfree
  /\ \A p \in LoadProcs :
       /\ lp[p].pc = "destroy" => cr3 # lp[p].dir
       /\ LoadAt(p, "running") => cr3 = lp[p].dir

(* Whatever way load() ends, no page is lost or shared and the processor    *)
(* never walks a page directory that was freed.                             *)
MemoryAccounted == PagesAccounted /\ ActiveDirLive

(* A process that runs finds each byte of its segments: bytes of the file, *)
(* zeros behind them, and the access the program header asks for; and a    *)
(* zeroed stack page on top.                                               *)
ImageIsLoaded ==
  \A p \in LoadProcs :
    lp[p].pc = "running" =>
      LET Page(a) == pd[p].ptes[a \div LOAD_PGSIZE]
          Byte(a) == Page(a).bytes[a % LOAD_PGSIZE]
          stack   == pd[p].ptes[UserVPages - 1] IN
        /\ stack.writable /\ \A i \in DOMAIN stack.bytes : stack.bytes[i] = 0
        /\ \A k \in DOMAIN lp[p].prog.phdrs :
             LET ph == lp[p].prog.phdrs[k] IN
               ph.type = "load" =>
                 \A i \in 0 .. ph.memsz - 1 :
                   /\ Page(ph.vaddr + i).writable = ph.writable
                   /\ Byte(ph.vaddr + i) =
                        IF i < ph.filesz THEN ph.offset + i + 1 ELSE 0

AcceptedSegmentsFit ==
  \A o \in 0 .. LOAD_PGSIZE - 1, a, m \in 0 .. AddrSpace - 1, f \in {0, 1, LOAD_PGSIZE} :
    validate_segment([type |-> "load", offset |-> o, vaddr |-> a, filesz |-> f,
                      memsz |-> m, writable |-> FALSE])
      => a >= LOAD_PGSIZE /\ a + m <= PHYS_BASE

(* validate_segment() lets no segment reach page 0 or the kernel's part of *)
(* the address space, the ones that wrap around its end included.          *)
SegmentsInUserSpace == cr3 = init_page_dir => AcceptedSegmentsFit

(* A program that load() accepts has every byte of its segments at its      *)
(* address, all of it below the kernel.                                     *)
SegmentsArrive == ImageIsLoaded /\ SegmentsInUserSpace
=============================================================================
