# TLA+ models and proofs of the Pintos kernel

This directory models the kernel under `src/pintos/src`: the scheduler and the
synchronization primitives, processes, the buffer cache, the file system, the
memory allocators, program loading, the interrupt-driven devices and the library
the kernel is built on. TLC checks the models on small instances; TLAPS proves
the invariants of the scheduler, the primitives, the processes, the buffer cache,
the page allocator, the IDE driver, the console and the display, and two
refinements, for every number of threads, locks, processes, blocks, sectors,
pages and rows.

    tlc -workers 2 -config Synch_safety.cfg MCSynch     # a run
    tlapm SynchWakeups.tla                              # the proofs of a module

`PROJECT.json` lists the components, the runs, the source lines behind every
definition, the hazards, the findings and the theorems.

## 1. The system

One CPU, kernel threads with a timer interrupt, a user process per thread, one
disk. Code with interrupts off is atomic; everything else can be preempted
between any two instructions.

| Part | State | What makes it hard |
|---|---|---|
| Threads (`threads/thread.c`) | status, run queue, all_list, idle thread | preemption anywhere; a dead thread's page is freed by its successor and reused |
| Synchronization (`threads/synch.c`) | semaphore values, waiter lists, holders, condition waiters | a woken thread can find the value taken; ups from interrupt handlers |
| Processes (`userprog/process.c`) | exec_info, wait_status, children lists | handshakes either side may win; loading that fails at any point |
| Loading (`process.c`, `pagedir.c`) | page directories, pages, the active directory | memory that runs out anywhere; the switch of address spaces |
| Buffer cache (`filesys/buffer.c`) | 64 blocks, clock hand, counters, cache_lock | eviction and I/O inside a call; power failures |
| Inodes, free map (`inode.c`, `free-map.c`) | open inodes, block pointers, sector bitmap | growth that fails halfway; structures on disk that must agree |
| Directories, paths (`directory.c`, `filesys.c`) | entries, parent pointers, working directories | removal of what is open or is a working directory |
| Allocators (`palloc.c`, `malloc.c`) | page bitmaps, arenas, free lists | bits cleared without the pool lock; arenas that come and go |
| Devices (`devices/*.c`) | interrupt queues, IDE channel, keyboard state, display | races between handlers and threads |
| Library (`lib/*`, `lib/kernel/*`) | lists, hash tables, bitmaps; pure functions | pointer surgery; word boundaries; limits of the types |

The parts use each other downwards: system calls use processes and the file
system; the file system uses the cache; the cache uses locks and the IDE driver;
locks use semaphores, and semaphores block and unblock threads.

## 2. Modules

| Modules | Model | Abstract specification |
|---|---|---|
| `Threads` | `thread.c`: statuses, run queue, boot, idle thread, timer slice, page reuse | |
| `Synch` | `synch.c` over the scheduler's variables, `allocate_tid`, the boot handshake | `Threads`, whose variables it extends |
| `Process` | exec, wait and exit of `process.c`; the pointers of the children lists; `run_task` | |
| `Loader`, `Arguments` | `load`, `load_segment`, `setup_stack`, `pagedir.c`, the end of `process_exit`; the argument strings | |
| `BufferCache` | `buffer.c` | `SectorStore`, an atomic write-back array of sectors |
| `FreeMap`, `Inode`, `Directory`, `Filesys` | the file system and its system calls | `FileStore`, files as sequences of bytes |
| `Palloc`, `Malloc` | page pools; arenas, descriptors and big blocks | |
| `Serial`, `Ide`, `Kbd`, `Vga`, `Console` | `intq.c`, `serial.c`, `input.c`; `ide.c`; `kbd.c`; `vga.c`; `console.c` and panics | |
| `KernelList` | `list.c` on pointers | `SequenceLists`, what each call does to sequences |
| `HashTable`, `Bitmap` | `hash.c`, `bitmap.c` | a set; a sequence of bits |
| `Strings`, `Stdio`, `Stdlib`, `Library` | `string.c`, `stdio.c`, `stdlib.c`, `arithmetic.c` as operators | reference definitions |
| `Ustar`, `Fsutil` | archive headers; append and extract | |
| `MC*` | the instances for TLC | |
| `SynchProofs`, `SynchLocks`, `SynchWakeups`, `ProcessProofs`, `BufferCacheProofs`, `BufferCacheTheorems`, `PallocProofs`, `DeviceProofs` | inductive invariants and theorems | |

Operators whose comment starts with "Wrong" are plausible mistakes, kept beside
the definition they vary; no specification uses them. Each one makes one of the
checked properties fail.

**Threads.** `status[t]` is `t->status`, with `FREE` for a page that holds no
thread; `current` is `running_thread ()`. `thread_block`, `thread_unblock`,
`thread_yield`, `thread_exit` and `timer_interrupt` are one step each, because
the code runs them with interrupts off. `schedule` includes
`thread_schedule_tail`: the page of a dying thread becomes `FREE` in the switch.
Who blocks and who unblocks is open; the guards are what the code asserts of its
callers. Boot is modelled: until `idle ()` has run, `idle_thread` is NULL and an
empty run queue would switch to NULL, which `TypeOK` excludes.

**Synch.** A step is a stretch of code with interrupts off or one shared access
with interrupts on. `pc`, `at`, `after` and `ret` say where a thread is, which
semaphore it is at, and what follows. A semaphore wakes the front of its waiter
list and another thread may take the value first, so a woken thread tests again.
`cond_wait`'s private semaphore is named by the thread itself. Device interrupts
raise the semaphores in `Semas`. A thread exits only when it holds no lock, as
every caller of `thread_exit` but one does: a system call that rejects a user
pointer while it holds file_sys_lock (`syscall.c:76`) keeps the lock for ever.
The checks of user pointers are outside the models, so this is recorded as a
hazard and no run shows it.

**Process.** Tids are handed out in order, as `allocate_tid` does. The children
lists are pointers (`next`, `prev` over heads, tails and elements) because
`start_process` and `process_execute` both link the element of a `wait_status`.
`loc` names the points at which a process can be interrupted with shared state
half updated. A list operation is one step; the walk in `try_get_wait_st` is a
step per element. `Stale` marks nodes inside the `struct thread` of a dead
process; touching one, freeing a page twice or failing an assertion sets `fault`
and stops the model, since what follows is a panic or undefined. `OwnOnly`
restricts programs to waiting for processes they have started.

**BufferCache.** A function per member of `struct cache_block`, the globals, the
device, and for each thread its position, operation, sector, buffer and loop
index. A stretch under `cache_lock` that does not sleep is one step;
`block_read` and `block_write` end a step, and the power may fail before each.
Sector contents are version numbers in the order of the writes. `View(s)` is the
current version of a sector, the cached one if there is one, else the one on
disk; it is the refinement mapping to `SectorStore`'s `store`, and `disk` maps
to `stable`.

**File system.** `Inode`, `FreeMap` and `Directory` hold the operations as
operators on the disk and the table of open inodes; `Filesys` makes the system
calls of them, with growth that fails when the disk is full, and `Reboot`, which
forgets what is only in memory. The pointer layout is scaled down (one direct
pointer, two per indirect block) so that files reach the doubly indirect block
with their fourth sector. `FileStore` has two descriptions of a write:
`WriteResults` is what it should leave, `CutResults` what it may leave given that
`byte_to_sector` accepts the offset at the end of the file. `Filesys` implements
the second; that the first fails is what `EndRefused` of the run `fs_comments`
says.

**Hardware.** `Palloc` interleaves the words of `bitmap_scan_and_flip` with
`palloc_free_page`, which takes no lock. `Serial` has both queues, the polled
and the queued mode and threads that sleep in them; `Ide` two disks on one
channel with spurious interrupts and errors; `Malloc` counts sizes in a `size_t`
of six bits, so that `calloc`'s products and `malloc`'s sums wrap; `Loader` two processes over two
pools of pages that run out, with every failure of `load` and switches between
address spaces; `Console` nested messages and panics in the middle of one.

**Library.** Pure functions are operators checked against reference definitions
on all small inputs. Words are scaled down: division uses 4-bit halves, bitmaps
2-bit elements. `ImplementsSequences` compares every call of `KernelList`, in
every state, with the operator of `SequenceLists` for that call: the sequence
seen after the call is the operator applied to the sequence seen before it.
`Fsutil` writes the end marker of an archive as the code does, with a last byte
from behind the buffer that may be anything.

## 3. Runs

| Run | Instance | Shows |
|---|---|---|
| `kernel_live` | the scheduler with five pages and `TIME_SLICE` 4; the primitives with one worker; four processes, `OwnOnly` | the run queue holds exactly the ready threads, each once, never idle; under fair scheduling every ready thread runs, a raised semaphore is taken, exec and wait come back |
| `synch_safety` | main, idle, two workers; a device semaphore, two locks, one condition | lock accounting, no lost wake-up or signal, no element in two lists; `Synch` implements `Threads` |
| `process_safety` | main and three processes, any tid waited for; beside them two processes that load from seven pages | the load handshake; a status is delivered after the exit and to one wait; no failure of load leaks a page, and the segments arrive |
| `cache_safety` | two threads, two blocks, three sectors, two writes, three lookups, resets, power failures | one copy per sector, clean blocks match the disk, reads are current, flush is durable, the disk never goes back |
| `cache_store` | the same without reset | the cache implements `SectorStore`; cache_lock is always released |
| `fs` | 16 sectors, two processes, one file and one directory name, files of up to four sectors | sectors have one owner, a restart finds what was saved, the tree changes one entry at a time, running programs are not written, `Filesys` implements `FileStore` |
| `machine` | each part in turn, on a few pages, bytes, commands, keys and rows | pages and blocks have one owner, bytes keep their order, no sleeper is forgotten, no command takes another's completion, a panic never waits |
| `library` | all inputs up to small sizes | lists are sequences, the hash table is a set, bitmaps, strings, numbers, sorting and archives agree with their references |

Four runs expect a violation; each shows that the code differs from what the
repository says of it. Three of them refute several statements at once: their
property is the disjunction of the statements, so that the state TLC ends in
refutes each one. So that one failure is not the consequence of another,
`fs_comments` lets the file grow past its sectors only after the comments on names
have failed, and `documented` takes its parts one after the other.

| Run | Says | Does |
|---|---|---|
| `cache_reset_race` | `reports/project3.md`: no potential for race conditions | `cache_reset` flushes and invalidates in two critical sections; a write in between is dropped |
| `process_wait` | `list.c`: `list_next` asserts a head or interior element | the walk of `try_get_wait_st`, for a process the caller did start, runs past the tail of another process's list |
| | `process.c`: a tid that is not a child returns -1 at once | the caller's own tid, or a sibling's, can be found and blocks it |
| `fs_comments` | `inode.c`: `byte_to_sector` returns the sector of the byte | growth that exactly fills a second-level block allocates nothing and raises the length |
| | `inode.c`: -1 for an offset without data | the offset at the end has a sector; a write that ends there comes back short |
| | `inode.c`: `inode_set_parent` sets the disk node's parent | only the copy in memory is set; a restart loses it |
| | `inode.c`: `open_cnt` is the number of openers | a path through a regular file closes its directory twice |
| `documented` | `string.c`: `memmove` returns DST | it returns the end of the block when DST is below SRC |
| | `string.c`: `strlcat` always writes a terminator | not when DST is already SIZE long |
| | `arithmetic.c`: `umod64` returns the remainder | its low half |
| | `bitmap.c`: a scan for no bits returns 0 | it returns START |
| | `malloc.c`: `calloc` makes sure that the size fits | a product that wraps past both factors is accepted |
| | `fsutil.c`: an archive ends in two sectors of zeros | one sector, whose last byte is not the buffer's |
| | `intq.c`: `wait` asserts an empty or a full queue | a second sleeper gets the lock after the queue has changed |

The passing properties next to these say how far the code goes. `BlocksExact`:
a block is too small exactly when what was asked for does not fit `size_t`.
`StringsAgree` and `AlgorithmsAgree`: `memmove`'s result, `strlcat`'s exception
and the remainders are characterised in full. `NoByteLost` holds up to a failed
assertion of `wait`. `RestartAgrees` leaves the parent out, `HeldAreOpen` is
checked on paths that lead through directories, and `SectorsSound` on growths
that do not fill a second-level block.

### Bounds

Two cache blocks over three sectors force eviction, with the hand wrapping;
`MaxWrites` and `MaxLookups` bound the history, and three lookups are enough for
two threads to miss and evict each other. Two workers and two locks give
contention and barging; `MaxValue` bounds how far an interrupt raises a
semaphore, `MaxTid` how many threads are created, more than there are pages, so
that pages are reused. Four processes give a parent, a child, a grandchild and
siblings. Sixteen sectors fill up after a few growths, and three bytes to a
sector make writes that begin and end inside one; `MaxSize`, `MaxFds` and
`MaxOpens` bound the files. `MaxSize` is 12 in `fs`, one direct sector, two
indirect and one doubly indirect; a fifth sector would fill a second-level block,
which `fs_comments` does. A serial queue of three places holds two bytes, so that
order and wrapping matter, and two readers and two writers contend for its locks.
Factors 0, 1, 5 and 13 give `calloc` products that fit, that wrap and are noticed
and that wrap unnoticed. In `process_safety`, `machine` and `library` several
parts that share no state are checked in one run: `part` picks the one that moves. Symmetry is
used for interchangeable workers, readers and writers, in safety runs only. With
the pages of `synch_safety` two threads are never in `allocate_tid` together;
that they get different tids then rests on the theorem `LocksAlwaysExclude`. The
runs without deadlock checking are those of systems that may stop: all processes have ended or wait
for themselves, the kernel has panicked, a bound is reached.

### Fairness

`Threads`: the timer ticks. `Synch`: the timer ticks and the running thread
takes its next step inside an operation; starting an operation, and device
interrupts, are not fair. `BufferCache` and `Process`: each thread inside the
kernel eventually takes its next step, which is `ReadyRuns` of `Threads` plus a
device that answers; calls from programs, exits and power failures need not
happen. Weak fairness suffices throughout.

## 4. Proofs

TLAPS proves the theorems below for every value of the constants. What it uses
of them is what the modules assume: the sentinels (`NoThread`, `NoPrinter`, ...)
are outside the sets they extend; the initial and the idle thread are two
different threads; there is a cache block, a sector, a row, a column; semaphores,
locks and threads have different names; a glyph is not a control character;
bounds are natural numbers. TLC evaluates the assumptions on the instances of
the runs.

| Module | Theorem | Property |
|---|---|---|
| `SynchProofs` | `SchedulerAlwaysSafe` | `SchedulerSafe` |
| | `PrimitivesImplementThreads` | `ImplementsThreads` (refinement of `Threads`) |
| `SynchLocks` | `LocksAlwaysExclude` | `LocksExclude` |
| | `SignalsNeverLost` | `SignalKept` |
| `SynchWakeups` | `ElemAlwaysExclusive` | `ElemExclusive` |
| | `WakeupsNeverLost` | `NoLostWakeup` |
| `ProcessProofs` | `HandshakeAlwaysHolds` | `ExecHandshake` |
| | `WaitAlwaysDelivers` | `WaitDelivers` |
| `BufferCacheTheorems` | `TypeCorrect` | `TypeOK` |
| | `OneCleanCopy` | `CacheCoherent` |
| | `ReadsAreCurrent` | `ReadReturnsLatest` |
| | `FlushIsDurable` | `FlushMakesDurable` |
| | `DiskGrows` | `DiskNeverGoesBack` (action property) |
| | `CacheImplementsStore` | `ImplementsStore` (refinement of `SectorStore`), when nobody resets |
| `PallocProofs` | `PagesAlwaysExact` | `PagesExact` |
| `DeviceProofs` | `CommandsAlwaysApart` | `CommandsApart` |
| | `ConsoleAlwaysSafe` | `ConsoleSafe` |
| | `DisplayIsAlwaysTail` | `DisplayIsTail` |

No safety property is inductive as it stands. The strengthenings:

**Scheduler** (`SchedInv`). `SchedulerSafe` needs that `schedule` finds a thread
when the run queue is empty. `IdleInv` supplies it: the idle thread never exits,
and until `idle ()` has run it has never been blocked, so it is in the queue or
on the CPU.

**Primitives** (`CallInv`). `Shape` ties a thread's continuation to the operation
it is in, and `BootInv` says how far the boot is: before the idle thread exists,
only the initial thread runs. From these every step that blocks, wakes, creates
or ends a thread meets the guards of `thread.c` (`Allowed`), which is the
refinement; the initial states map to initial states, and each step is one of
`Threads` or leaves its variables alone.

**Locks** (`LockInv`, `TidInv`). The assignment of `lock->holder` and the
semaphore's value change in different steps. `Excl` counts the thread between
`sema_down` and the assignment, or between the reset and `sema_up`, as inside:
the value is one and nobody is inside, or zero and exactly one is. `TidInv` uses
the exclusion by `tid_lock` to show that a tid that was drawn nobody else has.

**Conditions** (`CondInv`). A thread in `cond_wait` is on the list of its
condition, or some thread has taken it off and is about to up its semaphore, or
has upped it. The lock of the condition keeps these apart.

**Wake-ups** (`ElemInv`). A thread on a semaphore's list is asleep there and on
no list twice (`QueueInv`); one that is being created is on no list and one
thread's to wake (`NewInv`). `NoLostWakeup` counts: while a thread sleeps, each
unit of the value has a woken thread on its way.

**Processes** (`ProcInv`). `HandInv` follows the `exec_info` from the parent's
stack to the child's verdict. `StatusInv` says when a `wait_status` is upped and
by whom it is dropped, `LinkInv` that only linked elements can be found, and
`TakenInv` that one `process_wait` takes an exit, after it happened.

**Buffer cache** (`IInv`). `UniqueBlock` survives an installation only because
the sector is still uncached since the miss (`MissInv`), which holds because
nobody else was in the critical section (`LockInv`). While `block_read` sleeps,
the block under the hand is valid but not filled (`HandInv`). `FlushInv` says the
blocks the flush loop has passed are clean. `VersionInv` and `NewerInv` order the
copies of a sector: disk, cached copy, last write. `ReadInv` ties a returning
reader's buffer to a block. For the refinement, `View` is followed through every
step: installing, evicting and flushing leave it alone, a write changes it for
one sector, and a power failure brings it back to the disk.

**Page allocator** (`PallocInv`). `GroupSound` says that a scan holds the pool's
lock, and so the bits it has seen clear are still clear when they are set:
`palloc_free_multiple`, which takes no lock, only clears bits, and only of pages
that its caller alone owns.

**IDE** (`IdeInv`). `DriveFor` says, for each point of a call, what the drive
that serves it can be doing; `CallsSound` that at most one call is past
`lock_acquire`. `CountSound` bounds the semaphore by the completions that are
owed and the interrupts that came unasked; `Awaited` says that the completion a
call waits for is counted, raised or still to be raised. The first gives that no
call takes another's completion, the second that none is lost.

**Console** (`ConInv`). Until a panic the depth is the number of messages the
holder is in beyond the first, these are its outermost ones, and every other
thread is at most at the beginning of its only message (`Nested`). A panic turns
the lock off before it prints.

**Display** (`VgaInv`). The screen shows the last rows of the paper on which
everything was written (`Shows`); a scroll of the one is a new row of the other.

### Only model-checked

- Liveness (`ReadyRuns`, `WakeupServed`, `ExecReturns`, `WaitReturns`,
  `LockIsReleased`): the prover has no rule for fairness.
- `Library`, `Strings`, `Stdio`, `Stdlib`, `HashTable`, `Bitmap`, `KernelList`,
  `Ustar`, `Fsutil`: recursive algorithms on sequences and bits. What a recursive
  definition computes for every input needs induction over the input.
- `Filesys` with `Inode`, `FreeMap` and `Directory`: the loops over the pointers
  of an inode are folds over a state, and what a fold keeps, for any number of
  pointers, needs that induction too.
- `Malloc` and `Loader` (counts of blocks and pages; a read that goes over a page
  at a time), `Kbd` (a case distinction over a fixed table of keys, which the run
  covers).
- `Serial`: `NoByteLost` counts bytes modulo a word.

## 5. Not modelled

`PROJECT.json` lists every part with the reason. Outside the models are: the
block layer and partition tables (one call forwarded to the driver), segments and
the task state segment, boot code and the parsing of the kernel command line
except for `run_task`, the speaker, the real-time clock and the programmable
timer's calibration, the assembly of the context switch, fixed-point arithmetic
(unused by the scheduler), random numbers, user programs and host tools. Of the
system call handler, the checks of user pointers and file_sys_lock are left out; of the IDE driver,
the identification of the drives at boot and the time limits; of the timer, the calibration and the
sleeping by yields. Interrupts appear as the handlers' steps, enabled when the
code has interrupts on.
