-------------------------------- MODULE Ide --------------------------------
(***************************************************************************)
(* One ATA channel of devices/ide.c: the lock, the expecting_interrupt     *)
(* flag and the completion semaphore that ide_read() and ide_write() share *)
(* with interrupt_handler(), and the two disks behind the channel.         *)
(* The two channels of the driver share no state, so one of them stands    *)
(* for both.                                                               *)
(*                                                                         *)
(* The controller and its disks are hardware: they are modelled from the   *)
(* registers the driver reads and writes.  A disk reports a read when its  *)
(* data register is full, and a write once it has taken the data.  Up to   *)
(* MaxSpurious interrupts arrive that no command asked for, and up to      *)
(* MaxFailures commands end with neither BSY nor DRQ set.                  *)
(***************************************************************************)
EXTENDS Integers, FiniteSets

CONSTANTS
  IdeThreads,     \* the threads that call the block layer
  NoThread,       \* nobody: not a thread
  Disks,          \* dev_no of the disks on the channel
  IdeSectors,     \* sector numbers that are used
  MaxOps,         \* bound: operations per thread
  MaxSpurious,    \* bound: interrupts that no command asked for
  MaxFailures     \* bound: commands that fail

ASSUME IdeAssumption == NoThread \notin IdeThreads

VARIABLES
  chan,           \* [lock, expecting, sema]: struct channel
  reg,            \* the registers: [dev, sec, cmd, bsy, drq, irq, data]
  platter,        \* platter[d][s]: what the medium holds
  req,            \* req[t]: the operation a thread is in, and where
  done,           \* done[t]: operations a thread has finished
  noise,          \* [spurious, failures]: counts of the bounded events
  halted          \* PANIC was called

ide_vars == <<chan, reg, platter, req, done, noise, halted>>

Blank == <<>>

(* The data thread t writes with its n-th operation. *)
DataOf(t, n) == <<t, n>>

NoRequest == [op |-> "none", disk |-> 0, sec |-> 0, data |-> Blank, pc |-> "out"]

ide_init ==
  /\ chan = [lock |-> NoThread, expecting |-> FALSE, sema |-> 0]
  /\ reg = [dev |-> 0, sec |-> 0, cmd |-> "none", bsy |-> FALSE,
            drq |-> FALSE, irq |-> FALSE, data |-> Blank]
  /\ platter = [d \in Disks |-> [s \in IdeSectors |-> Blank]]
  /\ req = [t \in IdeThreads |-> NoRequest]
  /\ done = [t \in IdeThreads |-> 0]
  /\ noise = [spurious |-> 0, failures |-> 0]
  /\ halted = FALSE

(***************************************************************************)
(* The driver.                                                             *)
(***************************************************************************)
IdeGoto(t, l) == req' = [req EXCEPT ![t].pc = l]

(* A thread asks the block layer for a sector. *)
IdeCall(t) ==
  /\ req[t].pc = "out" /\ done[t] < MaxOps
  /\ \E op \in {"read", "write"}, d \in Disks, s \in IdeSectors :
       req' = [req EXCEPT ![t] =
                 [op |-> op, disk |-> d, sec |-> s, pc |-> "acquire",
                  data |-> IF op = "write" THEN DataOf(t, done[t]) ELSE Blank]]
  /\ UNCHANGED <<chan, reg, platter, done, noise, halted>>

(* lock_acquire (&c->lock). *)
ide_acquire(t) ==
  /\ req[t].pc = "acquire" /\ chan.lock = NoThread
  /\ chan' = [chan EXCEPT !.lock = t]
  /\ IdeGoto(t, "select")
  /\ UNCHANGED <<reg, platter, done, noise, halted>>

(* select_sector() after the drive became idle, which it is taken to do    *)
(* within the 1000 tries of wait_until_idle().  That loop reads the status *)
(* register, which withdraws an interrupt not yet delivered.               *)
select_sector(t) ==
  /\ req[t].pc = "select" /\ ~reg.bsy /\ ~reg.drq
  /\ reg' = [reg EXCEPT !.irq = FALSE, !.dev = req[t].disk, !.sec = req[t].sec]
  /\ IdeGoto(t, "issue")
  /\ UNCHANGED <<chan, platter, done, noise, halted>>

(* Wrong: a read polls the drive and never waits for its completion. *)
issue_pio_command_Poll(t) ==
  /\ req[t].pc = "issue"
  /\ chan' = [chan EXCEPT !.expecting = TRUE]
  /\ reg' = [reg EXCEPT !.cmd = req[t].op, !.bsy = TRUE]
  /\ IdeGoto(t, "busy")
  /\ UNCHANGED <<platter, done, noise, halted>>

(* issue_pio_command(): a read waits for the completion interrupt first, a *)
(* write for the drive to ask for the data.                                *)
issue_pio_command(t) ==
  /\ req[t].pc = "issue"
  /\ chan' = [chan EXCEPT !.expecting = TRUE]
  /\ reg' = [reg EXCEPT !.cmd = req[t].op, !.bsy = TRUE]
  /\ IdeGoto(t, IF req[t].op = "read" THEN "completion" ELSE "busy")
  /\ UNCHANGED <<platter, done, noise, halted>>

(* sema_down (&c->completion_wait). *)
completion_wait(t) ==
  /\ req[t].pc = "completion" /\ chan.sema > 0
  /\ chan' = [chan EXCEPT !.sema = @ - 1]
  /\ IdeGoto(t, IF req[t].op = "read" THEN "busy" ELSE "release")
  /\ UNCHANGED <<reg, platter, done, noise, halted>>

(* wait_while_busy(): the drive cleared BSY, and DRQ tells whether data    *)
(* can be moved.  If not, or if the drive stays busy to the end of the     *)
(* wait, both callers PANIC.                                               *)
wait_while_busy(t) ==
  /\ req[t].pc = "busy"
  /\ reg.bsy => noise.failures < MaxFailures
  /\ IF ~reg.bsy /\ reg.drq
     THEN IdeGoto(t, "transfer") /\ UNCHANGED halted
     ELSE halted' = TRUE /\ UNCHANGED req
  /\ UNCHANGED <<chan, reg, platter, done, noise>>

(* input_sector(): the data register is read to its end, which clears DRQ. *)
input_sector(t) ==
  /\ req[t].pc = "transfer" /\ req[t].op = "read"
  /\ req' = [req EXCEPT ![t].pc = "release", ![t].data = reg.data]
  /\ reg' = [reg EXCEPT !.drq = FALSE, !.cmd = "none"]
  /\ UNCHANGED <<chan, platter, done, noise, halted>>

(* output_sector(): the drive takes the data and is busy with it. *)
output_sector(t) ==
  /\ req[t].pc = "transfer" /\ req[t].op = "write"
  /\ reg' = [reg EXCEPT !.drq = FALSE, !.bsy = TRUE, !.data = req[t].data]
  /\ IdeGoto(t, "completion")
  /\ UNCHANGED <<chan, platter, done, noise, halted>>

(* lock_release (&c->lock), and the call returns. *)
ide_release(t) ==
  /\ req[t].pc = "release"
  /\ chan' = [chan EXCEPT !.lock = NoThread]
  /\ done' = [done EXCEPT ![t] = @ + 1]
  /\ req' = [req EXCEPT ![t] = NoRequest]
  /\ UNCHANGED <<reg, platter, noise, halted>>

(***************************************************************************)
(* The interrupt handler, on delivery of the channel's interrupt.          *)
(***************************************************************************)
interrupt_handler ==
  /\ reg.irq
  /\ reg' = [reg EXCEPT !.irq = FALSE]
  /\ chan' = IF chan.expecting THEN [chan EXCEPT !.sema = @ + 1] ELSE chan
  /\ UNCHANGED <<platter, req, done, noise, halted>>

(***************************************************************************)
(* The hardware (external).                                                *)
(***************************************************************************)
(* A read is ready: the data register is filled and the interrupt raised.  *)
DriveReads ==
  /\ reg.bsy /\ reg.cmd = "read"
  /\ reg' = [reg EXCEPT !.bsy = FALSE, !.drq = TRUE, !.irq = TRUE,
                        !.data = platter[reg.dev][reg.sec]]
  /\ UNCHANGED <<chan, platter, req, done, noise, halted>>

(* The drive asks for the data of a write. *)
DriveAsks ==
  /\ reg.bsy /\ reg.cmd = "write"
  /\ reg' = [reg EXCEPT !.bsy = FALSE, !.drq = TRUE, !.cmd = "store"]
  /\ UNCHANGED <<chan, platter, req, done, noise, halted>>

(* The drive has taken the data of a write. *)
DriveStores ==
  /\ reg.bsy /\ reg.cmd = "store"
  /\ platter' = [platter EXCEPT ![reg.dev][reg.sec] = reg.data]
  /\ reg' = [reg EXCEPT !.bsy = FALSE, !.irq = TRUE, !.cmd = "none"]
  /\ UNCHANGED <<chan, req, done, noise, halted>>

(* A command ends in an error before any data moved. *)
DriveFails ==
  /\ reg.bsy /\ reg.cmd \in {"read", "write"}
  /\ noise.failures < MaxFailures
  /\ noise' = [noise EXCEPT !.failures = @ + 1]
  /\ reg' = [reg EXCEPT !.bsy = FALSE, !.irq = TRUE, !.cmd = "none"]
  /\ UNCHANGED <<chan, platter, req, done, halted>>

(* An interrupt that no command asked for. *)
SpuriousInterrupt ==
  /\ noise.spurious < MaxSpurious /\ ~reg.irq
  /\ noise' = [noise EXCEPT !.spurious = @ + 1]
  /\ reg' = [reg EXCEPT !.irq = TRUE]
  /\ UNCHANGED <<chan, platter, req, done, halted>>

IdeStep(t) ==
  \/ IdeCall(t)
  \/ ide_acquire(t)
  \/ select_sector(t)
  \/ issue_pio_command(t)
  \/ completion_wait(t)
  \/ wait_while_busy(t)
  \/ input_sector(t)
  \/ output_sector(t)
  \/ ide_release(t)

IdeNext ==
  /\ ~halted
  /\ \/ \E t \in IdeThreads : IdeStep(t)
     \/ interrupt_handler
     \/ DriveReads
     \/ DriveAsks
     \/ DriveStores
     \/ DriveFails
     \/ SpuriousInterrupt

IdeSpec == ide_init /\ [][IdeNext]_ide_vars

(***************************************************************************)
(* Properties.                                                             *)
(***************************************************************************)
(* A read that returned while nobody wrote since brought exactly what the  *)
(* medium of the disk and the sector it named holds: two callers of the    *)
(* channel never get one another's registers.  Checked where the data is   *)
(* handed over, between the transfer and the release of the lock.          *)
ReadsAreRight ==
  \A t \in IdeThreads :
    (req[t].pc = "release" /\ req[t].op = "read")
      => req[t].data = platter[req[t].disk][req[t].sec]

(* ide_write() "Returns after the disk has acknowledged receiving the     *)
(* data": at the release of the lock the sector holds what was written, as *)
(* long as every interrupt was asked for by a command.                     *)
WriteAcknowledged ==
  noise.spurious = 0 =>
    \A t \in IdeThreads :
      (req[t].pc = "release" /\ req[t].op = "write")
        => platter[req[t].disk][req[t].sec] = req[t].data

(* Every completion is waited for once: while the channel is free no       *)
(* count is left in the semaphore and no interrupt is outstanding, so the  *)
(* next command cannot take an old completion for its own.  Each interrupt *)
(* that no command asked for adds at most one count.                       *)
CompletionsConsumed ==
  chan.lock = NoThread =>
    chan.sema + (IF reg.irq THEN 1 ELSE 0) <= noise.spurious

(* No call waits for what will not come.  The lock it waits for is held by *)
(* a call that goes on to release it; the drive it waits for becomes idle; *)
(* and the completion it waits for is counted in the semaphore, about to   *)
(* be delivered to a handler that expects it, or at the end of what the    *)
(* drive is doing.  A completion interrupt taken for a spurious one, or    *)
(* withdrawn, would leave its caller asleep and the channel locked.        *)
NoCallStuck ==
  \A t \in IdeThreads :
    /\ req[t].pc = "acquire" /\ chan.lock # NoThread => req[chan.lock].pc \notin {"out", "acquire"}
    /\ req[t].pc = "select" => ~reg.drq /\ (reg.bsy => reg.cmd = "store")
    /\ req[t].pc = "completion" =>
         \/ chan.sema > 0
         \/ chan.expecting /\ (reg.irq \/ (reg.bsy /\ reg.cmd \in {"read", "store"}))

(* Calls on one channel do not disturb one another: each gets its own data  *)
(* and its own completion, and none is left waiting.                        *)
CommandsApart ==
  /\ ReadsAreRight
  /\ WriteAcknowledged
  /\ CompletionsConsumed
  /\ NoCallStuck
=============================================================================
