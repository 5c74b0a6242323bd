---------------------------- MODULE DeviceProofs -----------------------------
(***************************************************************************)
(* Proofs about the devices.  They share no state: each has its own        *)
(* specification and its own inductive invariant.                          *)
(***************************************************************************)
EXTENDS Ide, Console, Vga, TLAPS

-----------------------------------------------------------------------------
(* The IDE driver, for any number of threads, disks and sectors.           *)

IdeData == {Blank} \cup {DataOf(t, n) : t \in IdeThreads, n \in Nat}

ChanType == [lock : IdeThreads \cup {NoThread}, expecting : BOOLEAN, sema : Nat]

RegType ==
  [dev : Disks \cup {0}, sec : IdeSectors \cup {0}, cmd : {"none", "read", "write", "store"},
   bsy : BOOLEAN, drq : BOOLEAN, irq : BOOLEAN, data : IdeData]

IdePcs == {"out", "acquire", "select", "issue", "completion", "busy", "transfer", "release"}

RequestType ==
  [op : {"none", "read", "write"}, disk : Disks \cup {0}, sec : IdeSectors \cup {0}, data : IdeData, pc : IdePcs]

IdeTypes ==
  /\ chan \in ChanType /\ reg \in RegType
  /\ platter \in [Disks -> [IdeSectors -> IdeData]]
  /\ req \in [IdeThreads -> RequestType]
  /\ done \in [IdeThreads -> Nat]
  /\ noise \in [spurious : Nat, failures : Nat]

\* The calls, and which of them holds the lock of the channel.
CallsSound ==
  \A t \in IdeThreads :
    /\ req[t].pc # "out" => req[t].op \in {"read", "write"} /\ req[t].disk \in Disks /\ req[t].sec \in IdeSectors
    /\ req[t].pc \notin {"out", "acquire"} <=> chan.lock = t

\* The drive has nothing to do, or takes the data of a write.
IdleDrive == ~reg.bsy /\ ~reg.drq /\ reg.cmd = "none"
Storing == reg.bsy /\ ~reg.drq /\ reg.cmd = "store" /\ reg.dev \in Disks /\ reg.sec \in IdeSectors

\* What the drive does for the call of t.
DriveFor(t) ==
  LET r == req[t]
      named == reg.dev = r.disk /\ reg.sec = r.sec
      ready == ~reg.bsy /\ reg.drq
      stored == platter[r.disk][r.sec]
  IN  /\ r.pc = "select" => IdleDrive \/ Storing
      /\ r.pc = "issue" => IdleDrive /\ named
      /\ r.pc \in {"completion", "busy"} /\ r.op = "read" =>
           named /\ \/ reg.bsy /\ ~reg.drq /\ reg.cmd = "read"
                    \/ ready /\ reg.cmd = "read" /\ reg.data = stored
                    \/ IdleDrive
      /\ r.pc = "transfer" /\ r.op = "read" => named /\ ready /\ reg.cmd = "read" /\ reg.data = stored
      /\ r.pc = "release" /\ r.op = "read" => IdleDrive /\ r.data = stored
      /\ r.pc = "busy" /\ r.op = "write" =>
           named /\ \/ reg.bsy /\ ~reg.drq /\ reg.cmd = "write"
                    \/ ready /\ reg.cmd = "store"
                    \/ IdleDrive
      /\ r.pc = "transfer" /\ r.op = "write" => named /\ ready /\ reg.cmd = "store"
      /\ r.pc \in {"completion", "release"} /\ r.op = "write" =>
           named /\ ((Storing /\ reg.data = r.data) \/ (IdleDrive /\ stored = r.data))

\* The completions that are not yet waited for, beside the spurious ones: one
\* when the command of a waiting call is over, one less than none while the
\* drive works for a call that has taken a spurious one for its own.
Owed ==
  LET waits == chan.lock # NoThread /\ req[chan.lock].pc = "completion"
      asks == chan.lock # NoThread /\ req[chan.lock].pc = "busy" /\ req[chan.lock].op = "write"
  IN  IF waits THEN (IF reg.bsy THEN 0 ELSE 1)
      ELSE IF asks THEN (IF IdleDrive THEN 1 ELSE 0)
      ELSE IF reg.bsy THEN -1 ELSE 0

CountSound == chan.sema + (IF reg.irq THEN 1 ELSE 0) <= noise.spurious + Owed

\* The completion a call waits for is counted, raised, or still to be raised,
\* and the handler expects it.
Awaited(t) ==
  /\ req[t].pc \in {"completion", "busy", "transfer", "release"} => chan.expecting
  /\ req[t].pc = "completion" => chan.sema > 0 \/ reg.irq \/ reg.bsy

IdeInv ==
  /\ IdeTypes /\ CallsSound /\ CountSound
  /\ \A t \in IdeThreads : DriveFor(t) /\ Awaited(t)
  /\ chan.lock = NoThread => IdleDrive \/ Storing

\* The changes of the registers that take no value from elsewhere.
LEMMA RegChanges ==
  ASSUME NEW r \in RegType
  PROVE  /\ [r EXCEPT !.drq = FALSE, !.cmd = "none"] \in RegType
         /\ [r EXCEPT !.irq = FALSE] \in RegType
         /\ [r EXCEPT !.irq = TRUE] \in RegType
         /\ [r EXCEPT !.bsy = FALSE, !.drq = TRUE, !.cmd = "store"] \in RegType
         /\ [r EXCEPT !.bsy = FALSE, !.irq = TRUE, !.cmd = "none"] \in RegType
  <1>1. [r EXCEPT !.drq = FALSE, !.cmd = "none"] \in RegType
    BY Zenon DEF RegType
  <1>2. [r EXCEPT !.irq = FALSE] \in RegType
    BY Zenon DEF RegType
  <1>3. [r EXCEPT !.irq = TRUE] \in RegType
    BY Zenon DEF RegType
  <1>4. [r EXCEPT !.bsy = FALSE, !.drq = TRUE, !.cmd = "store"] \in RegType
    BY Zenon DEF RegType
  <1>5. [r EXCEPT !.bsy = FALSE, !.irq = TRUE, !.cmd = "none"] \in RegType
    BY Zenon DEF RegType
  <1> QED
    BY <1>1, <1>2, <1>3, <1>4, <1>5, Zenon

\* A transfer of data.
LEMMA RegData ==
  ASSUME NEW r \in RegType, NEW d \in IdeData
  PROVE  /\ [r EXCEPT !.drq = FALSE, !.bsy = TRUE, !.data = d] \in RegType
         /\ [r EXCEPT !.bsy = FALSE, !.drq = TRUE, !.irq = TRUE, !.data = d] \in RegType
  <1>1. [r EXCEPT !.drq = FALSE, !.bsy = TRUE, !.data = d] \in RegType
    BY Zenon DEF RegType
  <1>2. [r EXCEPT !.bsy = FALSE, !.drq = TRUE, !.irq = TRUE, !.data = d] \in RegType
    BY Zenon DEF RegType
  <1> QED
    BY <1>1, <1>2, Zenon

\* A sector is selected.
LEMMA RegSector ==
  ASSUME NEW r \in RegType, NEW x \in Disks, NEW y \in IdeSectors
  PROVE  [r EXCEPT !.irq = FALSE, !.dev = x, !.sec = y] \in RegType
  BY Zenon DEF RegType

\* A command is written.
LEMMA RegCommand ==
  ASSUME NEW r \in RegType, NEW c \in {"read", "write"}
  PROVE  [r EXCEPT !.cmd = c, !.bsy = TRUE] \in RegType
  BY Zenon DEF RegType

\* The semaphore of the channel counts.
LEMMA ChanCount ==
  ASSUME NEW r \in ChanType, NEW n \in Nat
  PROVE  [r EXCEPT !.sema = n] \in ChanType
  BY Zenon DEF ChanType

\* The lock of the channel and its flag.
LEMMA ChanChanges ==
  ASSUME NEW r \in ChanType, NEW t \in IdeThreads
  PROVE  /\ [r EXCEPT !.lock = t] \in ChanType
         /\ [r EXCEPT !.lock = NoThread] \in ChanType
         /\ [r EXCEPT !.expecting = TRUE] \in ChanType
  <1>1. [r EXCEPT !.lock = t] \in ChanType
    BY Zenon DEF ChanType
  <1>2. [r EXCEPT !.lock = NoThread] \in ChanType
    BY Zenon DEF ChanType
  <1>3. [r EXCEPT !.expecting = TRUE] \in ChanType
    BY Zenon DEF ChanType
  <1> QED
    BY <1>1, <1>2, <1>3, Zenon

\* A thread that is in no call.
LEMMA NoRequestType == NoRequest \in RequestType
  BY DEF NoRequest, RequestType, IdePcs, IdeData

\* A step of t to another point of its call.
LEMMA Goes ==
  ASSUME IdeTypes, NEW t \in IdeThreads, NEW l \in IdePcs, req' = [req EXCEPT ![t].pc = l]
  PROVE  /\ req' \in [IdeThreads -> RequestType]
         /\ req'[t].pc = l /\ req'[t].op = req[t].op /\ req'[t].disk = req[t].disk
         /\ req'[t].sec = req[t].sec /\ req'[t].data = req[t].data
         /\ \A u \in IdeThreads \ {t} : req'[u] = req[u]
  <1>1. req[t] \in RequestType
    BY Zenon DEF IdeTypes
  <1>2. [req[t] EXCEPT !.pc = l] \in RequestType
    BY <1>1, Zenon DEF RequestType
  <1>3. req' = [req EXCEPT ![t] = [req[t] EXCEPT !.pc = l]]
    BY Zenon
  <1> QED
    BY <1>1, <1>2, <1>3 DEF IdeTypes, RequestType

\* A step that changes nothing the invariant speaks of.
LEMMA IdeStutter ==
  ASSUME IdeInv, chan' = chan, reg' = reg, platter' = platter, req' = req, done' = done, noise' = noise
  PROVE  IdeInv'
  <1>1. IdeTypes' /\ CallsSound'
    BY Zenon DEF IdeInv, IdeTypes, CallsSound
  <1>2. IdleDrive' = IdleDrive /\ Storing' = Storing
    BY Zenon DEF IdleDrive, Storing
  <1>3. CountSound'
    BY <1>2, Zenon DEF IdeInv, CountSound, Owed
  <1>4. ASSUME NEW t \in IdeThreads PROVE DriveFor(t)' = DriveFor(t)
    BY <1>2, Zenon DEF DriveFor
  <1>5. ASSUME NEW t \in IdeThreads PROVE Awaited(t)'
    BY Zenon DEF IdeInv, Awaited
  <1> QED
    BY <1>1, <1>2, <1>3, <1>4, <1>5, Zenon DEF IdeInv

\* The drive does nothing for a call that has not taken the lock.
LEMMA NotYet ==
  \A u \in IdeThreads : req'[u].pc \in {"out", "acquire"} => DriveFor(u)' /\ Awaited(u)'
  BY Zenon DEF DriveFor, Awaited

\* What it does for a call stays when the registers, the medium and the call do.
LEMMA SameDrive ==
  ASSUME NEW u, DriveFor(u), req'[u] = req[u], reg' = reg, platter' = platter
  PROVE  DriveFor(u)'
  <1>1. IdleDrive' = IdleDrive /\ Storing' = Storing
    BY Zenon DEF IdleDrive, Storing
  <1> QED
    BY <1>1, Zenon DEF DriveFor

\* The calls that begin and that take the lock.
LEMMA IdeEnters ==
  ASSUME IdeInv, NEW t \in IdeThreads, IdeCall(t) \/ ide_acquire(t)
  PROVE  IdeInv'
  <1>1. IdeTypes /\ CallsSound /\ CountSound /\ chan.lock # t
    BY Zenon DEF IdeInv, CallsSound, IdeCall, ide_acquire
  <1>2. CASE IdeCall(t)
    <2>1. PICK op \in {"read", "write"}, d \in Disks, s \in IdeSectors :
             req' = [req EXCEPT ![t] = [op |-> op, disk |-> d, sec |-> s, pc |-> "acquire",
                                        data |-> IF op = "write" THEN DataOf(t, done[t]) ELSE Blank]]
      BY <1>2, Zenon DEF IdeCall
    <2>2. UNCHANGED <<chan, reg, platter, done, noise>> /\ req[t].pc = "out"
      BY <1>2, Zenon DEF IdeCall
    <2>3. (IF op = "write" THEN DataOf(t, done[t]) ELSE Blank) \in IdeData
      BY <1>1 DEF IdeTypes, ChanType, RegType, RequestType, IdePcs, IdeData
    <2>4. IdeTypes'
      BY <1>1, <2>1, <2>2, <2>3 DEF IdeTypes, ChanType, RegType, RequestType, IdePcs
    <2>5. req'[t].pc = "acquire" /\ req'[t].op \in {"read", "write"} /\ req'[t].disk \in Disks /\ req'[t].sec \in IdeSectors
      BY <1>1, <2>1 DEF IdeTypes, ChanType, RegType, RequestType, IdePcs
    <2>6. \A u \in IdeThreads \ {t} : req'[u] = req[u]
      BY <1>1, <2>1, Zenon DEF IdeTypes, ChanType, RegType, RequestType, IdePcs
    <2>7. CallsSound'
      BY <1>1, <2>2, <2>5, <2>6 DEF CallsSound
    <2>8. CountSound'
      <3>1. chan.lock # NoThread => req'[chan.lock] = req[chan.lock]
        BY <1>1, <2>6, Zenon DEF IdeTypes, ChanType
      <3>2. Owed' = Owed
        BY <2>2, <3>1, Zenon DEF Owed, IdleDrive
      <3> QED
        BY <1>1, <2>2, <3>2, Zenon DEF CountSound
    <2>9. (\A u \in IdeThreads : DriveFor(u)' /\ Awaited(u)') /\ (chan'.lock = NoThread => (IdleDrive \/ Storing)')
      <3>1. ASSUME NEW u \in IdeThreads PROVE DriveFor(u)' /\ Awaited(u)'
        <4>1. CASE u = t
          <5>1. req'[t].pc \in {"out", "acquire"}
            BY <2>5, Zenon
          <5> QED
            BY <4>1, <5>1, NotYet, Zenon
        <4>2. CASE u # t
          BY <2>2, <2>6, <4>2, SameDrive, Zenon DEF IdeInv, Awaited
        <4> QED
          BY <4>1, <4>2, Zenon
      <3> QED
        BY <2>2, <3>1, Zenon DEF IdeInv, IdleDrive, Storing
    <2> QED
      BY <2>4, <2>7, <2>8, <2>9, Zenon DEF IdeInv
  <1>3. CASE ide_acquire(t)
    <2>1. /\ chan.lock = NoThread /\ chan' = [chan EXCEPT !.lock = t] /\ req[t].pc = "acquire"
          /\ req' = [req EXCEPT ![t].pc = "select"] /\ UNCHANGED <<reg, platter, done, noise>>
      BY <1>3, Zenon DEF ide_acquire, IdeGoto
    <2>2. IdeTypes'
      <3>1. chan' \in ChanType
        BY <1>1, <2>1, ChanChanges, Zenon DEF IdeTypes
      <3>2. reg' \in RegType
        BY <1>1, <2>1, Zenon DEF IdeTypes
      <3>3. req' \in [IdeThreads -> RequestType]
        BY <1>1, <2>1, Goes, Zenon DEF IdePcs
      <3> QED
        BY <1>1, <2>1, <3>1, <3>2, <3>3, Zenon DEF IdeTypes
    <2>3. /\ chan'.lock = t /\ chan'.sema = chan.sema /\ req'[t].pc = "select" /\ req'[t].op = req[t].op
          /\ req'[t].disk = req[t].disk /\ req'[t].sec = req[t].sec
          /\ \A u \in IdeThreads \ {t} : req'[u] = req[u]
      BY <1>1, <2>1 DEF IdeTypes, ChanType, RegType, RequestType, IdePcs
    <2>4. CallsSound'
      BY <1>1, <2>1, <2>3, IdeAssumption DEF CallsSound
    <2>5. CountSound'
      BY <1>1, <2>1, <2>3, Zenon DEF CountSound, Owed, IdleDrive
    <2>6. \A u \in IdeThreads : DriveFor(u)' /\ Awaited(u)'
      <3>1. DriveFor(t)' /\ Awaited(t)'
        BY <2>1, <2>3, Zenon DEF IdeInv, DriveFor, IdleDrive, Storing, Awaited
      <3>2. ASSUME NEW u \in IdeThreads \ {t} PROVE DriveFor(u)' /\ Awaited(u)'
        <4>1. chan'.expecting = chan.expecting
          BY <1>1, <2>1, Zenon DEF IdeTypes, ChanType
        <4> QED
          BY <2>1, <2>3, <3>2, <4>1, SameDrive, Zenon DEF IdeInv, Awaited
      <3> QED
        BY <3>1, <3>2, Zenon
    <2> QED
      BY <2>2, <2>3, <2>4, <2>5, <2>6, IdeAssumption, Zenon DEF IdeInv
  <1> QED
    BY <1>2, <1>3, Zenon

\* A step of the call that holds the lock.
LEMMA OwnerStep ==
  ASSUME IdeInv, NEW t \in IdeThreads, chan.lock = t, chan'.lock = t, IdeTypes',
         \A u \in IdeThreads \ {t} : req'[u] = req[u],
         req'[t].op = req[t].op, req'[t].disk = req[t].disk, req'[t].sec = req[t].sec,
         req'[t].pc \notin {"out", "acquire"}, DriveFor(t)', Awaited(t)', CountSound'
  PROVE  IdeInv'
  <1>1. CallsSound /\ \A u \in IdeThreads \ {t} : req[u].pc \in {"out", "acquire"}
    BY DEF IdeInv, CallsSound, IdeTypes, ChanType, RegType, RequestType, IdePcs
  <1>2. CallsSound'
    <2> SUFFICES ASSUME NEW u \in IdeThreads
                 PROVE  /\ req'[u].pc # "out" => req'[u].op \in {"read", "write"} /\ req'[u].disk \in Disks /\ req'[u].sec \in IdeSectors
                        /\ req'[u].pc \notin {"out", "acquire"} <=> chan'.lock = u
      BY Zenon DEF CallsSound
    <2>1. CASE u = t
      BY <1>1, <2>1, Zenon DEF CallsSound
    <2>2. CASE u # t
      BY <1>1, <2>2, Zenon DEF CallsSound
    <2> QED
      BY <2>1, <2>2, Zenon
  <1>3. \A u \in IdeThreads : DriveFor(u)' /\ Awaited(u)'
    <2>1. \A u \in IdeThreads \ {t} : req'[u].pc \in {"out", "acquire"}
      BY <1>1, Zenon
    <2> QED
      BY <2>1, NotYet, Zenon
  <1> QED
    BY <1>2, <1>3, IdeAssumption, Zenon DEF IdeInv

\* select_sector and issue_pio_command.
LEMMA IdeIssues ==
  ASSUME IdeInv, NEW t \in IdeThreads, select_sector(t) \/ issue_pio_command(t)
  PROVE  IdeInv'
  <1>1. IdeTypes /\ CallsSound /\ CountSound /\ DriveFor(t) /\ chan.lock = t /\ t # NoThread
    BY IdeAssumption, Zenon DEF IdeInv, CallsSound, select_sector, issue_pio_command
  <1>2. req[t].op \in {"read", "write"} /\ req[t].disk \in Disks /\ req[t].sec \in IdeSectors
    BY <1>1, Zenon DEF CallsSound, select_sector, issue_pio_command
  <1>3. CASE select_sector(t)
    <2>1. /\ req[t].pc = "select" /\ ~reg.bsy /\ ~reg.drq
          /\ reg' = [reg EXCEPT !.irq = FALSE, !.dev = req[t].disk, !.sec = req[t].sec]
          /\ req' = [req EXCEPT ![t].pc = "issue"] /\ UNCHANGED <<chan, platter, done, noise>>
      BY <1>3, Zenon DEF select_sector, IdeGoto
    <2>2. IdeTypes'
      <3>1. chan' \in ChanType
        BY <1>1, <2>1, Zenon DEF IdeTypes
      <3>2. reg' \in RegType
        BY <1>1, <1>2, <2>1, RegSector, Zenon DEF IdeTypes
      <3>3. req' \in [IdeThreads -> RequestType]
        BY <1>1, <2>1, Goes, Zenon DEF IdePcs
      <3> QED
        BY <1>1, <1>2, <2>1, <3>1, <3>2, <3>3, Zenon DEF IdeTypes
    <2>3. /\ req'[t].pc = "issue" /\ req'[t].op = req[t].op /\ req'[t].disk = req[t].disk /\ req'[t].sec = req[t].sec
          /\ \A u \in IdeThreads \ {t} : req'[u] = req[u]
          /\ reg'.dev = req[t].disk /\ reg'.sec = req[t].sec /\ reg'.cmd = reg.cmd /\ reg'.bsy = reg.bsy
          /\ reg'.drq = reg.drq /\ ~reg'.irq
      BY <1>1, <2>1 DEF IdeTypes, ChanType, RegType, RequestType, IdePcs
    <2>4. DriveFor(t)'
      BY <1>1, <2>1, <2>3 DEF DriveFor, IdleDrive, Storing
    <2>5. CountSound'
      BY <1>1, <2>1, <2>3 DEF CountSound, Owed, IdleDrive, IdeTypes, ChanType, RegType, RequestType, IdePcs
    <2>6. Awaited(t)'
      BY <2>3, Zenon DEF Awaited
    <2> QED
      BY <1>1, <2>1, <2>2, <2>3, <2>4, <2>5, <2>6, OwnerStep, Zenon
  <1>4. CASE issue_pio_command(t)
    <2>1. /\ req[t].pc = "issue" /\ chan' = [chan EXCEPT !.expecting = TRUE]
          /\ reg' = [reg EXCEPT !.cmd = req[t].op, !.bsy = TRUE]
          /\ req' = [req EXCEPT ![t].pc = IF req[t].op = "read" THEN "completion" ELSE "busy"]
          /\ UNCHANGED <<platter, done, noise>>
      BY <1>4, Zenon DEF issue_pio_command, IdeGoto
    <2>2. IdeTypes'
      <3>1. chan' \in ChanType
        BY <1>1, <1>2, <2>1, ChanChanges, Zenon DEF IdeTypes
      <3>2. reg' \in RegType
        BY <1>1, <1>2, <2>1, RegCommand, Zenon DEF IdeTypes
      <3>3. req' \in [IdeThreads -> RequestType]
        BY <1>1, <2>1, Goes, Zenon DEF IdePcs
      <3> QED
        BY <1>1, <1>2, <2>1, <3>1, <3>2, <3>3, Zenon DEF IdeTypes
    <2>3. /\ req'[t].pc = (IF req[t].op = "read" THEN "completion" ELSE "busy")
          /\ req'[t].op = req[t].op /\ req'[t].disk = req[t].disk /\ req'[t].sec = req[t].sec
          /\ \A u \in IdeThreads \ {t} : req'[u] = req[u]
          /\ reg'.dev = reg.dev /\ reg'.sec = reg.sec /\ reg'.cmd = req[t].op /\ reg'.bsy
          /\ reg'.drq = reg.drq /\ reg'.irq = reg.irq /\ chan'.lock = t /\ chan'.sema = chan.sema /\ chan'.expecting
      BY <1>1, <2>1 DEF IdeTypes, ChanType, RegType, RequestType, IdePcs
    <2>4. DriveFor(t)'
      BY <1>1, <1>2, <2>1, <2>3 DEF DriveFor, IdleDrive
    <2>5. CountSound'
      BY <1>1, <1>2, <2>1, <2>3 DEF CountSound, Owed, IdleDrive, DriveFor, IdeTypes, ChanType, RegType, RequestType, IdePcs
    <2>6. Awaited(t)'
      BY <2>3, Zenon DEF Awaited
    <2> QED
      BY <1>1, <1>2, <2>2, <2>3, <2>4, <2>5, <2>6, OwnerStep, Zenon
  <1> QED
    BY <1>3, <1>4, Zenon

\* The waits for the completion and for the drive.
LEMMA IdeWaits ==
  ASSUME IdeInv, NEW t \in IdeThreads, completion_wait(t) \/ wait_while_busy(t)
  PROVE  IdeInv'
  <1>1. IdeTypes /\ CallsSound /\ CountSound /\ DriveFor(t) /\ chan.lock = t /\ t # NoThread
    BY IdeAssumption, Zenon DEF IdeInv, CallsSound, completion_wait, wait_while_busy
  <1>a. Awaited(t)
    BY Zenon DEF IdeInv
  <1>2. req[t].op \in {"read", "write"}
    BY <1>1, Zenon DEF CallsSound, completion_wait, wait_while_busy
  <1>3. CASE completion_wait(t)
    <2>1. /\ req[t].pc = "completion" /\ chan.sema > 0 /\ chan' = [chan EXCEPT !.sema = @ - 1]
          /\ req' = [req EXCEPT ![t].pc = IF req[t].op = "read" THEN "busy" ELSE "release"]
          /\ UNCHANGED <<reg, platter, done, noise>>
      BY <1>3, Zenon DEF completion_wait, IdeGoto
    <2>2. IdeTypes'
      <3>1. chan' \in ChanType
        <4>1. chan.sema \in Nat
          BY <1>1, Zenon DEF IdeTypes, ChanType
        <4>2. chan.sema - 1 \in Nat
          BY <2>1, <4>1
        <4> QED
          BY <1>1, <2>1, <4>2, ChanCount, Zenon DEF IdeTypes
      <3>2. reg' \in RegType
        BY <1>1, <2>1, Zenon DEF IdeTypes
      <3>3. req' \in [IdeThreads -> RequestType]
        BY <1>1, <2>1, Goes, Zenon DEF IdePcs
      <3> QED
        BY <1>1, <2>1, <3>1, <3>2, <3>3, Zenon DEF IdeTypes
    <2>3. /\ req'[t].pc = (IF req[t].op = "read" THEN "busy" ELSE "release") /\ req'[t].data = req[t].data
          /\ req'[t].op = req[t].op /\ req'[t].disk = req[t].disk /\ req'[t].sec = req[t].sec
          /\ \A u \in IdeThreads \ {t} : req'[u] = req[u]
          /\ chan'.lock = t /\ chan'.sema = chan.sema - 1 /\ chan'.expecting = chan.expecting
      BY <1>1, <2>1 DEF IdeTypes, ChanType, RequestType
    <2>4. DriveFor(t)'
      BY <1>1, <1>2, <2>1, <2>3 DEF DriveFor, IdleDrive, Storing
    <2>5. CountSound'
      BY <1>1, <1>2, <2>1, <2>3 DEF CountSound, Owed, IdleDrive, IdeTypes, ChanType, RegType, RequestType, IdePcs
    <2>6. Awaited(t)'
      <3>1. chan.expecting
        BY <1>a, <2>1, Zenon DEF Awaited
      <3>2. req'[t].pc # "completion"
        BY <2>3
      <3> QED
        BY <2>3, <3>1, <3>2, Zenon DEF Awaited
    <2> QED
      BY <1>1, <2>2, <2>3, <2>4, <2>5, <2>6, OwnerStep, Zenon
  <1>4. CASE wait_while_busy(t)
    <2>1. /\ req[t].pc = "busy" /\ UNCHANGED <<chan, reg, platter, done, noise>>
          /\ \/ req' = req
             \/ ~reg.bsy /\ reg.drq /\ req' = [req EXCEPT ![t].pc = "transfer"]
      BY <1>4, Zenon DEF wait_while_busy, IdeGoto
    <2>2. CASE req' = req
      BY <2>1, <2>2, IdeStutter, Zenon
    <2>3. CASE ~reg.bsy /\ reg.drq /\ req' = [req EXCEPT ![t].pc = "transfer"]
      <3>1. IdeTypes'
        <4>1. chan' \in ChanType
          BY <1>1, <2>1, Zenon DEF IdeTypes
        <4>2. reg' \in RegType
          BY <1>1, <2>1, Zenon DEF IdeTypes
        <4>3. req' \in [IdeThreads -> RequestType]
          BY <1>1, <2>3, Goes, Zenon DEF IdePcs
        <4> QED
          BY <1>1, <2>1, <2>3, <4>1, <4>2, <4>3, Zenon DEF IdeTypes
      <3>2. /\ req'[t].pc = "transfer"
            /\ req'[t].op = req[t].op /\ req'[t].disk = req[t].disk /\ req'[t].sec = req[t].sec
            /\ \A u \in IdeThreads \ {t} : req'[u] = req[u]
        BY <1>1, <2>3 DEF IdeTypes, ChanType, RegType, RequestType, IdePcs
      <3>3. DriveFor(t)'
        BY <1>1, <1>2, <2>1, <2>3, <3>2 DEF DriveFor, IdleDrive
      <3>4. CountSound'
        BY <1>1, <1>2, <2>1, <2>3, <3>2, Zenon DEF CountSound, Owed, IdleDrive, IdeTypes, ChanType, RegType, RequestType, IdePcs
      <3>5. Awaited(t)'
        BY <1>a, <2>1, <3>2, Zenon DEF Awaited
      <3> QED
        BY <1>1, <2>1, <3>1, <3>2, <3>3, <3>4, <3>5, OwnerStep, Zenon
    <2> QED
      BY <2>1, <2>2, <2>3, Zenon
  <1> QED
    BY <1>3, <1>4, Zenon

\* The transfer of the data.
LEMMA IdeTransfers ==
  ASSUME IdeInv, NEW t \in IdeThreads, input_sector(t) \/ output_sector(t)
  PROVE  IdeInv'
  <1>1. IdeTypes /\ CallsSound /\ CountSound /\ DriveFor(t) /\ chan.lock = t /\ t # NoThread
    BY IdeAssumption, Zenon DEF IdeInv, CallsSound, input_sector, output_sector
  <1>a. Awaited(t)
    BY Zenon DEF IdeInv
  <1>2. req[t].disk \in Disks /\ req[t].sec \in IdeSectors
    BY <1>1, Zenon DEF CallsSound, input_sector, output_sector
  <1>3. CASE input_sector(t)
    <2>1. /\ req[t].pc = "transfer" /\ req[t].op = "read"
          /\ req' = [req EXCEPT ![t].pc = "release", ![t].data = reg.data]
          /\ reg' = [reg EXCEPT !.drq = FALSE, !.cmd = "none"] /\ UNCHANGED <<chan, platter, done, noise>>
      BY <1>3, Zenon DEF input_sector
    <2>2. IdeTypes'
      <3>1. chan' \in ChanType
        BY <1>1, <2>1, Zenon DEF IdeTypes
      <3>2. reg' \in RegType
        BY <1>1, <2>1, RegChanges, Zenon DEF IdeTypes
      <3>3. req' \in [IdeThreads -> RequestType]
        <4>1. req[t] \in RequestType /\ reg.data \in IdeData
          BY <1>1, Zenon DEF IdeTypes, RegType
        <4>2. [req[t] EXCEPT !.pc = "release", !.data = reg.data] \in RequestType
          BY <4>1, Zenon DEF RequestType, IdePcs
        <4> QED
          BY <1>1, <2>1, <4>2, Zenon DEF IdeTypes
      <3> QED
        BY <1>1, <2>1, <3>1, <3>2, <3>3, Zenon DEF IdeTypes
    <2>3. /\ req'[t].pc = "release" /\ req'[t].data = reg.data
          /\ req'[t].op = req[t].op /\ req'[t].disk = req[t].disk /\ req'[t].sec = req[t].sec
          /\ \A u \in IdeThreads \ {t} : req'[u] = req[u]
          /\ reg'.cmd = "none" /\ reg'.bsy = reg.bsy /\ ~reg'.drq /\ reg'.irq = reg.irq
      BY <1>1, <2>1 DEF IdeTypes, ChanType, RegType, RequestType, IdePcs
    <2>4. DriveFor(t)'
      BY <1>1, <2>1, <2>3 DEF DriveFor, IdleDrive
    <2>5. CountSound'
      BY <1>1, <2>1, <2>3, Zenon DEF CountSound, Owed, IdleDrive, IdeTypes, ChanType, RegType, RequestType, IdePcs
    <2>6. Awaited(t)'
      BY <1>a, <2>1, <2>3, Zenon DEF Awaited
    <2> QED
      BY <1>1, <2>1, <2>2, <2>3, <2>4, <2>5, <2>6, OwnerStep, Zenon
  <1>4. CASE output_sector(t)
    <2>1. /\ req[t].pc = "transfer" /\ req[t].op = "write"
          /\ req' = [req EXCEPT ![t].pc = "completion"]
          /\ reg' = [reg EXCEPT !.drq = FALSE, !.bsy = TRUE, !.data = req[t].data]
          /\ UNCHANGED <<chan, platter, done, noise>>
      BY <1>4, Zenon DEF output_sector, IdeGoto
    <2>2. IdeTypes'
      <3>1. chan' \in ChanType
        BY <1>1, <2>1, Zenon DEF IdeTypes
      <3>2. reg' \in RegType
        BY <1>1, <2>1, RegData, Zenon DEF IdeTypes, RequestType
      <3>3. req' \in [IdeThreads -> RequestType]
        BY <1>1, <2>1, Goes, Zenon DEF IdePcs
      <3> QED
        BY <1>1, <2>1, <3>1, <3>2, <3>3, Zenon DEF IdeTypes
    <2>3. /\ req'[t].pc = "completion" /\ req'[t].data = req[t].data
          /\ req'[t].op = req[t].op /\ req'[t].disk = req[t].disk /\ req'[t].sec = req[t].sec
          /\ \A u \in IdeThreads \ {t} : req'[u] = req[u]
          /\ reg'.cmd = reg.cmd /\ reg'.bsy /\ ~reg'.drq /\ reg'.irq = reg.irq /\ reg'.data = req[t].data
          /\ reg'.dev = reg.dev /\ reg'.sec = reg.sec
      BY <1>1, <2>1 DEF IdeTypes, ChanType, RegType, RequestType, IdePcs
    <2>4. DriveFor(t)'
      BY <1>1, <1>2, <2>1, <2>3 DEF DriveFor, IdleDrive, Storing
    <2>5. CountSound'
      BY <1>1, <2>1, <2>3 DEF CountSound, Owed, IdleDrive, DriveFor, IdeTypes, ChanType, RegType, RequestType, IdePcs
    <2>6. Awaited(t)'
      BY <1>a, <2>1, <2>3, Zenon DEF Awaited
    <2> QED
      BY <1>1, <2>1, <2>2, <2>3, <2>4, <2>5, <2>6, OwnerStep, Zenon
  <1> QED
    BY <1>3, <1>4, Zenon

\* The release of the lock.
LEMMA IdeLeaves ==
  ASSUME IdeInv, NEW t \in IdeThreads, ide_release(t)
  PROVE  IdeInv'
  <1>1. IdeTypes /\ CallsSound /\ CountSound /\ DriveFor(t) /\ chan.lock = t /\ t # NoThread
    BY IdeAssumption, Zenon DEF IdeInv, CallsSound, ide_release
  <1>2. /\ req[t].pc = "release" /\ chan' = [chan EXCEPT !.lock = NoThread] /\ req' = [req EXCEPT ![t] = NoRequest]
        /\ done' = [done EXCEPT ![t] = @ + 1] /\ UNCHANGED <<reg, platter, noise>>
    BY Zenon DEF ide_release
  <1>3. IdeTypes'
    <2>1. NoRequest \in RequestType /\ [chan EXCEPT !.lock = NoThread] \in ChanType
      BY <1>1, ChanChanges, NoRequestType, Zenon DEF IdeTypes
    <2>2. done' \in [IdeThreads -> Nat]
      BY <1>1, <1>2 DEF IdeTypes
    <2> QED
      BY <1>1, <1>2, <2>1, <2>2, Zenon DEF IdeTypes
  <1>4. /\ chan'.lock = NoThread /\ chan'.sema = chan.sema /\ req'[t].pc = "out"
        /\ \A u \in IdeThreads \ {t} : req'[u] = req[u]
    BY <1>1, <1>2 DEF IdeTypes, ChanType, RegType, RequestType, IdePcs, NoRequest
  <1>5. req[t].op \in {"read", "write"} /\ \A u \in IdeThreads \ {t} : req[u].pc \in {"out", "acquire"}
    BY <1>1, <1>2, Zenon DEF CallsSound, IdeTypes, ChanType, RegType, RequestType, IdePcs
  <1>6. CallsSound'
    BY <1>1, <1>4, <1>5, IdeAssumption DEF CallsSound
  <1>7. CountSound'
    BY <1>1, <1>2, <1>4, Zenon DEF CountSound, Owed, IdleDrive, IdeTypes, ChanType, RegType, RequestType, IdePcs
  <1>8. (IdleDrive \/ Storing)'
    BY <1>1, <1>2, <1>5, Zenon DEF DriveFor, IdleDrive, Storing
  <1>9. \A u \in IdeThreads : DriveFor(u)' /\ Awaited(u)'
    <2>1. \A u \in IdeThreads : req'[u].pc \in {"out", "acquire"}
      <3>1. req'[t].pc \in {"out", "acquire"}
        BY <1>4, Zenon
      <3>2. \A u \in IdeThreads \ {t} : req'[u].pc \in {"out", "acquire"}
        BY <1>4, <1>5, Zenon
      <3> QED
        BY <3>1, <3>2, Zenon
    <2> QED
      BY <2>1, NotYet, Zenon
  <1> QED
    BY <1>3, <1>6, <1>7, <1>8, <1>9, Zenon DEF IdeInv

\* A step of the drive or an interrupt.
LEMMA HardwareStep ==
  ASSUME IdeInv, IdeTypes', req' = req, chan'.lock = chan.lock, CountSound',
         \A t \in IdeThreads : chan.lock = t => DriveFor(t)' /\ Awaited(t)',
         chan.lock = NoThread => (IdleDrive \/ Storing)'
  PROVE  IdeInv'
  <1>1. CallsSound /\ \A u \in IdeThreads : chan.lock # u => req[u].pc \in {"out", "acquire"}
    BY DEF IdeInv, CallsSound, IdeTypes, ChanType, RegType, RequestType, IdePcs
  <1>2. CallsSound'
    BY <1>1, Zenon DEF CallsSound
  <1>3. \A u \in IdeThreads : DriveFor(u)' /\ Awaited(u)'
    BY <1>1, NotYet, Zenon
  <1> QED
    BY <1>2, <1>3, Zenon DEF IdeInv

\* The interrupt handler, and interrupts that no command asked for.
LEMMA IdeInterrupts ==
  ASSUME IdeInv, interrupt_handler \/ SpuriousInterrupt
  PROVE  IdeInv'
  <1>1. IdeTypes /\ CountSound /\ \A t \in IdeThreads : DriveFor(t)
    BY Zenon DEF IdeInv
  <1>0. /\ chan' \in ChanType /\ reg' \in RegType /\ req' = req /\ platter' = platter /\ done' = done
        /\ noise' \in [spurious : Nat, failures : Nat]
    <2>1. [chan EXCEPT !.sema = @ + 1] \in ChanType
      <3>1. chan.sema \in Nat
        BY <1>1, Zenon DEF IdeTypes, ChanType
      <3>2. chan.sema + 1 \in Nat
        BY <3>1
      <3> QED
        BY <1>1, <3>2, ChanCount, Zenon DEF IdeTypes
    <2>2. reg' \in RegType
      BY <1>1, RegChanges, Zenon DEF interrupt_handler, SpuriousInterrupt, IdeTypes
    <2>3. noise' \in [spurious : Nat, failures : Nat]
      BY <1>1 DEF interrupt_handler, SpuriousInterrupt, IdeTypes
    <2> QED
      BY <1>1, <2>1, <2>2, <2>3, Zenon DEF interrupt_handler, SpuriousInterrupt, IdeTypes
  <1>2. /\ IdeTypes' /\ req' = req /\ platter' = platter /\ chan'.lock = chan.lock
        /\ reg'.dev = reg.dev /\ reg'.sec = reg.sec /\ reg'.cmd = reg.cmd /\ reg'.bsy = reg.bsy
        /\ reg'.drq = reg.drq /\ reg'.data = reg.data
    BY <1>0, <1>1 DEF interrupt_handler, SpuriousInterrupt, IdeTypes, ChanType, RegType
  <1>3. Owed' = Owed
    BY <1>2, Zenon DEF Owed, IdleDrive
  <1>4. Owed \in {-1, 0, 1}
    BY Zenon DEF Owed
  <1>5. CountSound'
    <2>1. chan.sema \in Nat /\ noise.spurious \in Nat
      BY <1>1, Zenon DEF IdeTypes, ChanType
    <2>2. CASE interrupt_handler
      <3>1. reg.irq /\ ~reg'.irq /\ chan'.sema \in {chan.sema, chan.sema + 1} /\ noise' = noise
        BY <1>1, <2>2, Zenon DEF interrupt_handler, IdeTypes, ChanType, RegType
      <3> QED
        BY <1>1, <1>3, <1>4, <2>1, <3>1 DEF CountSound
    <2>3. CASE SpuriousInterrupt
      <3>1. ~reg.irq /\ reg'.irq /\ chan' = chan /\ noise'.spurious = noise.spurious + 1
        BY <1>1, <2>3 DEF SpuriousInterrupt, IdeTypes, RegType
      <3> QED
        BY <1>1, <1>3, <1>4, <2>1, <3>1 DEF CountSound
    <2> QED
      BY <2>2, <2>3, Zenon
  <1>6. \A t \in IdeThreads : DriveFor(t)'
    <2>1. (IdleDrive' <=> IdleDrive) /\ (Storing' <=> Storing)
      BY <1>2, Zenon DEF IdleDrive, Storing
    <2> QED
      BY <1>1, <1>2, <2>1 DEF DriveFor
  <1>7. chan.lock = NoThread => (IdleDrive \/ Storing)'
    BY <1>2, Zenon DEF IdeInv, IdleDrive, Storing
  <1>8. \A t \in IdeThreads : Awaited(t)'
    <2> SUFFICES ASSUME NEW t \in IdeThreads PROVE Awaited(t)'
      BY Zenon
    <2>1. Awaited(t) /\ req' = req /\ reg'.bsy = reg.bsy
      BY <1>2, Zenon DEF IdeInv
    <2>2. CASE interrupt_handler
      <3>1. chan'.expecting = chan.expecting /\ (chan.expecting => chan'.sema = chan.sema + 1)
        BY <1>1, <2>2, Zenon DEF interrupt_handler, IdeTypes, ChanType
      <3>2. chan.sema + 1 > 0
        BY <1>1 DEF IdeTypes, ChanType
      <3> QED
        BY <2>1, <3>1, <3>2, Zenon DEF Awaited
    <2>3. CASE SpuriousInterrupt
      <3>1. chan' = chan /\ reg'.irq
        BY <1>1, <2>3, Zenon DEF SpuriousInterrupt, IdeTypes, RegType
      <3> QED
        BY <2>1, <3>1, Zenon DEF Awaited
    <2> QED
      BY <2>2, <2>3, Zenon
  <1> QED
    BY <1>2, <1>5, <1>6, <1>7, <1>8, HardwareStep, Zenon

\* The call the drive works for.
LEMMA DriveWorks ==
  ASSUME IdeInv, reg.bsy
  PROVE  \/ chan.lock = NoThread /\ Storing
         \/ \E t \in IdeThreads :
              /\ chan.lock = t /\ t # NoThread /\ req[t].op \in {"read", "write"}
              /\ req[t].disk \in Disks /\ req[t].sec \in IdeSectors
              /\ \/ req[t].pc = "select" /\ Storing
                 \/ /\ req[t].pc \in {"completion", "busy"} /\ req[t].op = "read"
                    /\ reg.dev = req[t].disk /\ reg.sec = req[t].sec /\ reg.cmd = "read" /\ ~reg.drq
                 \/ /\ req[t].pc = "busy" /\ req[t].op = "write"
                    /\ reg.dev = req[t].disk /\ reg.sec = req[t].sec /\ reg.cmd = "write" /\ ~reg.drq
                 \/ /\ req[t].pc \in {"completion", "release"} /\ req[t].op = "write"
                    /\ reg.dev = req[t].disk /\ reg.sec = req[t].sec /\ Storing /\ reg.data = req[t].data
  <1>1. CASE chan.lock = NoThread
    BY <1>1, Zenon DEF IdeInv, IdleDrive
  <1>2. CASE chan.lock # NoThread
    <2>1. PICK t \in IdeThreads : chan.lock = t
      BY <1>2, Zenon DEF IdeInv, IdeTypes, ChanType, RegType, RequestType, IdePcs
    <2>2. /\ req[t].pc \in {"select", "issue", "completion", "busy", "transfer", "release"}
          /\ req[t].op \in {"read", "write"} /\ req[t].disk \in Disks /\ req[t].sec \in IdeSectors /\ DriveFor(t)
      BY <2>1 DEF IdeInv, IdeTypes, ChanType, RegType, RequestType, IdePcs, CallsSound
    <2> QED
      BY <1>2, <2>1, <2>2, Zenon DEF DriveFor, IdleDrive
  <1> QED
    BY <1>1, <1>2, Zenon

\* The drive ends a read, asks for the data of a write, or fails.
LEMMA DriveMoves ==
  ASSUME IdeInv, DriveReads \/ DriveAsks \/ DriveFails
  PROVE  IdeInv'
  <1>1. IdeTypes /\ CountSound /\ reg.bsy /\ reg.cmd \in {"read", "write"}
    BY Zenon DEF IdeInv, DriveReads, DriveAsks, DriveFails
  <1>2. PICK t \in IdeThreads :
          /\ chan.lock = t /\ t # NoThread /\ req[t].op \in {"read", "write"}
          /\ req[t].disk \in Disks /\ req[t].sec \in IdeSectors
          /\ reg.dev = req[t].disk /\ reg.sec = req[t].sec /\ ~reg.drq
          /\ \/ req[t].pc \in {"completion", "busy"} /\ req[t].op = "read" /\ reg.cmd = "read"
             \/ req[t].pc = "busy" /\ req[t].op = "write" /\ reg.cmd = "write"
    BY <1>1, DriveWorks, Zenon DEF Storing
  <1>3. platter[reg.dev][reg.sec] \in IdeData
    BY <1>1, <1>2 DEF IdeTypes, ChanType, RegType, RequestType, IdePcs
  <1>0. /\ reg' \in RegType /\ noise' \in [spurious : Nat, failures : Nat]
        /\ chan' = chan /\ req' = req /\ platter' = platter /\ done' = done
    <2>0. reg \in RegType
      BY <1>1, Zenon DEF IdeTypes
    <2>1. reg' \in RegType
      <3>1. CASE DriveReads
        BY <1>3, <2>0, <3>1, RegData, Zenon DEF DriveReads
      <3>2. CASE DriveAsks
        BY <2>0, <3>2, RegChanges, Zenon DEF DriveAsks
      <3>3. CASE DriveFails
        BY <2>0, <3>3, RegChanges, Zenon DEF DriveFails
      <3> QED
        BY <3>1, <3>2, <3>3, Zenon
    <2>2. noise' \in [spurious : Nat, failures : Nat]
      BY <1>1 DEF DriveReads, DriveAsks, DriveFails, IdeTypes
    <2> QED
      BY <2>1, <2>2, Zenon DEF DriveReads, DriveAsks, DriveFails
  <1>4. /\ IdeTypes' /\ req' = req /\ chan' = chan /\ platter' = platter /\ done' = done
        /\ reg'.dev = reg.dev /\ reg'.sec = reg.sec /\ ~reg'.bsy /\ noise'.spurious = noise.spurious
        /\ \/ DriveReads /\ reg'.drq /\ reg'.irq /\ reg'.cmd = reg.cmd /\ reg'.data = platter[reg.dev][reg.sec]
           \/ DriveAsks /\ reg'.drq /\ reg'.irq = reg.irq /\ reg'.cmd = "store"
           \/ DriveFails /\ ~reg'.drq /\ reg'.irq /\ reg'.cmd = "none"
    <2>1. IdeTypes'
      BY <1>0, <1>1, Zenon DEF IdeTypes
    <2>2. CASE DriveReads
      BY <1>0, <1>1, <2>1, <2>2, Zenon DEF DriveReads, IdeTypes, RegType
    <2>3. CASE DriveAsks
      BY <1>0, <1>1, <1>2, <2>1, <2>3 DEF DriveAsks, IdeTypes, RegType
    <2>4. CASE DriveFails
      BY <1>0, <1>1, <1>2, <2>1, <2>4, Zenon DEF DriveFails, IdeTypes, RegType
    <2> QED
      BY <2>2, <2>3, <2>4, Zenon
  <1>5. DriveFor(t)'
    BY <1>2, <1>4 DEF DriveFor, IdleDrive, DriveReads, DriveAsks
  <1>6. CountSound'
    BY <1>1, <1>2, <1>4 DEF CountSound, Owed, IdleDrive, IdeTypes, ChanType, RegType, RequestType, IdePcs, DriveReads, DriveAsks
  <1>7. Awaited(t)'
    <2>1. Awaited(t) /\ chan' = chan /\ req' = req /\ (reg'.irq \/ DriveAsks)
      BY <1>4, Zenon DEF IdeInv
    <2>2. DriveAsks => req[t].pc = "busy"
      BY <1>2, Zenon DEF DriveAsks
    <2> QED
      BY <2>1, <2>2, Zenon DEF Awaited
  <1> QED
    BY <1>2, <1>4, <1>5, <1>6, <1>7, HardwareStep, Zenon

\* The drive has taken the data of a write, whose call may be over.
LEMMA DriveTakes ==
  ASSUME IdeInv, DriveStores
  PROVE  IdeInv'
  <1>1. IdeTypes /\ CountSound /\ reg.bsy /\ reg.cmd = "store"
    BY Zenon DEF IdeInv, DriveStores
  <1>2. \/ chan.lock = NoThread /\ Storing
        \/ \E t \in IdeThreads :
             /\ chan.lock = t /\ t # NoThread /\ req[t].op \in {"read", "write"}
             /\ req[t].disk \in Disks /\ req[t].sec \in IdeSectors
             /\ \/ req[t].pc = "select" /\ Storing
                \/ /\ req[t].pc \in {"completion", "release"} /\ req[t].op = "write"
                   /\ reg.dev = req[t].disk /\ reg.sec = req[t].sec /\ Storing /\ reg.data = req[t].data
    BY <1>1, DriveWorks, Zenon
  <1>3. Storing
    BY <1>2, Zenon
  <1>4. /\ platter' = [platter EXCEPT ![reg.dev][reg.sec] = reg.data]
        /\ reg' = [reg EXCEPT !.bsy = FALSE, !.irq = TRUE, !.cmd = "none"]
        /\ chan' = chan /\ req' = req /\ done' = done /\ noise' = noise
    BY Zenon DEF DriveStores
  <1>5. /\ IdeTypes' /\ ~reg'.bsy /\ ~reg'.drq /\ reg'.irq /\ reg'.cmd = "none" /\ reg'.dev = reg.dev /\ reg'.sec = reg.sec
        /\ reg.dev \in Disks /\ reg.sec \in IdeSectors /\ platter'[reg.dev][reg.sec] = reg.data
    BY <1>1, <1>3, <1>4, Zenon DEF IdeTypes, ChanType, RegType, RequestType, IdePcs, Storing
  <1>6. CASE chan.lock = NoThread
    <2>1. CountSound'
      BY <1>1, <1>4, <1>5, <1>6 DEF CountSound, Owed, IdleDrive, IdeTypes, ChanType, RegType, RequestType, IdePcs
    <2>2. \A t \in IdeThreads : chan.lock # t
      BY <1>6, IdeAssumption, Zenon
    <2> QED
      BY <1>4, <1>5, <2>1, <2>2, HardwareStep, Zenon DEF IdleDrive
  <1>7. CASE chan.lock # NoThread
    <2>1. PICK t \in IdeThreads :
             /\ chan.lock = t /\ t # NoThread
             /\ \/ req[t].pc = "select"
                \/ /\ req[t].pc \in {"completion", "release"} /\ req[t].op = "write"
                   /\ reg.dev = req[t].disk /\ reg.sec = req[t].sec /\ reg.data = req[t].data
      BY <1>2, <1>7, Zenon
    <2>2. CountSound'
      BY <1>1, <1>4, <1>5, <2>1 DEF CountSound, Owed, IdleDrive, IdeTypes, ChanType, RegType, RequestType, IdePcs
    <2>3. DriveFor(t)'
      BY <1>4, <1>5, <2>1 DEF DriveFor, IdleDrive
    <2>4. Awaited(t)'
      BY <1>4, <1>5, Zenon DEF IdeInv, Awaited
    <2> QED
      BY <1>4, <1>5, <2>1, <2>2, <2>3, <2>4, HardwareStep, Zenon
  <1> QED
    BY <1>6, <1>7, Zenon

\* ide_init, and the whole of a step.
LEMMA IdeInvStep ==
  (ide_init => IdeInv) /\ (IdeInv /\ [IdeNext]_ide_vars => IdeInv')
  <1>1. ASSUME ide_init PROVE IdeInv
    <2>1. IdeTypes
      <3>1. NoRequest \in RequestType /\ Blank \in IdeData
        BY NoRequestType DEF IdeData
      <3>2. chan \in ChanType /\ noise \in [spurious : Nat, failures : Nat]
        BY <1>1 DEF ide_init, ChanType
      <3>3. reg \in RegType
        BY <1>1, <3>1, Zenon DEF ide_init, RegType
      <3>4. done \in [IdeThreads -> Nat]
        BY <1>1 DEF ide_init
      <3> QED
        BY <1>1, <3>1, <3>2, <3>3, <3>4, Zenon DEF ide_init, IdeTypes
    <2>2. chan.lock = NoThread /\ IdleDrive /\ \A t \in IdeThreads : req[t].pc = "out"
      BY <1>1, Zenon DEF ide_init, IdleDrive, NoRequest
    <2>3. CallsSound /\ \A t \in IdeThreads : DriveFor(t) /\ Awaited(t)
      BY <2>2, IdeAssumption, Zenon DEF CallsSound, DriveFor, Awaited
    <2>4. CountSound
      BY <1>1 DEF ide_init, CountSound, Owed
    <2> QED
      BY <2>1, <2>2, <2>3, <2>4, Zenon DEF IdeInv
  <1>2. ASSUME IdeInv, UNCHANGED ide_vars PROVE IdeInv'
    BY <1>2, IdeStutter, Zenon DEF ide_vars
  <1>3. ASSUME IdeInv, IdeNext PROVE IdeInv'
    <2>1. ASSUME NEW t \in IdeThreads, IdeStep(t) PROVE IdeInv'
      BY <1>3, <2>1, IdeEnters, IdeIssues, IdeWaits, IdeTransfers, IdeLeaves, Zenon DEF IdeStep
    <2> QED
      BY <1>3, <2>1, IdeInterrupts, DriveMoves, DriveTakes, Zenon DEF IdeNext
  <1> QED
    BY <1>1, <1>2, <1>3, Zenon

\* Calls on one channel do not disturb one another: a read brings what its own
\* sector holds, a write that returns has been taken by the medium as long as
\* no interrupt came unasked, a free channel holds no completion that a later
\* call could take for its own, and no call waits for what will not come.
THEOREM CommandsAlwaysApart == IdeSpec => []CommandsApart
  <1>1. ASSUME IdeInv PROVE CommandsApart
    <2>1. ReadsAreRight
      BY <1>1, Zenon DEF IdeInv, DriveFor, ReadsAreRight
    <2>2. CompletionsConsumed
      BY <1>1 DEF IdeInv, IdeTypes, ChanType, RegType, RequestType, IdePcs, CountSound, Owed, CompletionsConsumed
    <2>3. ASSUME noise.spurious = 0, NEW t \in IdeThreads, req[t].pc = "release", req[t].op = "write"
          PROVE  platter[req[t].disk][req[t].sec] = req[t].data
      <3>1. chan.lock = t /\ t # NoThread /\ IdeTypes /\ DriveFor(t) /\ CountSound
        BY <1>1, <2>3, IdeAssumption, Zenon DEF IdeInv, CallsSound
      <3>2. ~reg.bsy
        BY <2>3, <3>1 DEF CountSound, Owed, IdeTypes, ChanType, RegType, RequestType, IdePcs
      <3> QED
        BY <2>3, <3>1, <3>2, Zenon DEF DriveFor, Storing
    <2>4. WriteAcknowledged
      BY <2>3, Zenon DEF WriteAcknowledged
    <2>5. ASSUME NEW t \in IdeThreads
          PROVE  /\ req[t].pc = "acquire" /\ chan.lock # NoThread => req[chan.lock].pc \notin {"out", "acquire"}
                 /\ req[t].pc = "select" => ~reg.drq /\ (reg.bsy => reg.cmd = "store")
                 /\ req[t].pc = "completion" =>
                      \/ chan.sema > 0
                      \/ chan.expecting /\ (reg.irq \/ (reg.bsy /\ reg.cmd \in {"read", "store"}))
      <3>1. IdeTypes /\ CallsSound /\ DriveFor(t) /\ Awaited(t)
        BY <1>1, Zenon DEF IdeInv
      <3>2. chan.lock # NoThread => req[chan.lock].pc \notin {"out", "acquire"}
        BY <3>1, Zenon DEF IdeTypes, ChanType, CallsSound
      <3>3. req[t].pc = "select" => ~reg.drq /\ (reg.bsy => reg.cmd = "store")
        BY <3>1, Zenon DEF DriveFor, IdleDrive, Storing
      <3>4. req[t].pc = "completion" /\ reg.bsy => reg.cmd \in {"read", "store"}
        <4>1. req[t].pc = "completion" => req[t].op \in {"read", "write"}
          BY <3>1, Zenon DEF CallsSound
        <4> QED
          BY <3>1, <4>1, Zenon DEF DriveFor, IdleDrive, Storing
      <3> QED
        BY <3>1, <3>2, <3>3, <3>4, Zenon DEF Awaited
    <2>6. NoCallStuck
      BY <2>5, Zenon DEF NoCallStuck
    <2> QED
      BY <2>1, <2>2, <2>4, <2>6, Zenon DEF CommandsApart
  <1> QED
    BY <1>1, IdeInvStep, PTL DEF IdeSpec

-----------------------------------------------------------------------------
(* The console, for any number of threads, messages and nested messages.   *)

Message == [todo : Nat, pc : {"acquire", "chars"}]

ConTypes ==
  /\ con \in [lock : Printers \cup {NoPrinter}, depth : Nat, use : BOOLEAN]
  /\ calls \in [Printers -> Seq(Message)]
  /\ panic \in [by : Printers \cup {NoPrinter}, level : Nat]

\* The messages t has the lock for: they are its outermost ones, and beside
\* them there is at most one for which it still has to take the lock.
Levels(t) == IF con.lock = t THEN con.depth + 1 ELSE 0

Nested(t) ==
  /\ Len(calls[t]) \in {Levels(t), Levels(t) + 1}
  /\ \A k \in 1 .. Levels(t) : calls[t][k].pc = "chars"
  /\ Len(calls[t]) = Levels(t) + 1 => calls[t][Levels(t) + 1].pc = "acquire"

ConInv ==
  /\ ConTypes
  /\ con.use <=> panic.by = NoPrinter
  /\ con.use => (con.lock = NoPrinter => con.depth = 0) /\ \A t \in Printers : Nested(t)

\* A message is entered, left or changed.
LEMMA Messages ==
  ASSUME NEW s \in Seq(Message), NEW m \in Message
  PROVE  /\ Append(s, m) \in Seq(Message) /\ Len(Append(s, m)) = Len(s) + 1
         /\ Append(s, m)[Len(s) + 1] = m
         /\ \A k \in 1 .. Len(s) : Append(s, m)[k] = s[k]
         /\ s # <<>> => /\ Len(s) \in Nat \ {0} /\ s[Len(s)] \in Message
                        /\ SubSeq(s, 1, Len(s) - 1) \in Seq(Message)
                        /\ Len(SubSeq(s, 1, Len(s) - 1)) = Len(s) - 1
                        /\ \A k \in 1 .. Len(s) - 1 : SubSeq(s, 1, Len(s) - 1)[k] = s[k]
                        /\ [s EXCEPT ![Len(s)] = m] \in Seq(Message)
                        /\ Len([s EXCEPT ![Len(s)] = m]) = Len(s)
                        /\ [s EXCEPT ![Len(s)] = m][Len(s)] = m
                        /\ \A k \in 1 .. Len(s) - 1 : [s EXCEPT ![Len(s)] = m][k] = s[k]
  <1>1. Len(s) \in Nat /\ \A k \in 1 .. Len(s) : s[k] \in Message
    OBVIOUS
  <1>2. /\ Append(s, m) \in Seq(Message) /\ Len(Append(s, m)) = Len(s) + 1
        /\ Append(s, m)[Len(s) + 1] = m
        /\ \A k \in 1 .. Len(s) : Append(s, m)[k] = s[k]
    OBVIOUS
  <1>3. ASSUME s # <<>> PROVE Len(s) \in Nat \ {0} /\ s[Len(s)] \in Message
    BY <1>1, <1>3
  <1>4. ASSUME s # <<>>
        PROVE  /\ SubSeq(s, 1, Len(s) - 1) \in Seq(Message)
               /\ Len(SubSeq(s, 1, Len(s) - 1)) = Len(s) - 1
               /\ \A k \in 1 .. Len(s) - 1 : SubSeq(s, 1, Len(s) - 1)[k] = s[k]
    <2>1. SubSeq(s, 1, Len(s) - 1) = [k \in 1 .. Len(s) - 1 |-> s[k]]
      BY <1>1, <1>3, <1>4
    <2>2. [k \in 1 .. Len(s) - 1 |-> s[k]] \in Seq(Message)
      BY <1>1, <1>3, <1>4
    <2>3. Len(SubSeq(s, 1, Len(s) - 1)) = Len(s) - 1
      <3>1. ASSUME NEW n \in Nat PROVE Len([k \in 1 .. n |-> s[k]]) = n
        OBVIOUS
      <3>2. Len(s) - 1 \in Nat
        BY <1>3, <1>4
      <3> QED
        BY <2>1, <3>1, <3>2, Zenon
    <2> QED
      BY <2>1, <2>2, <2>3, Zenon
  <1>5. ASSUME s # <<>>
        PROVE  /\ [s EXCEPT ![Len(s)] = m] \in Seq(Message)
               /\ Len([s EXCEPT ![Len(s)] = m]) = Len(s)
               /\ [s EXCEPT ![Len(s)] = m][Len(s)] = m
               /\ \A k \in 1 .. Len(s) - 1 : [s EXCEPT ![Len(s)] = m][k] = s[k]
    BY <1>1, <1>3, <1>5
  <1> QED
    BY <1>2, <1>3, <1>4, <1>5, Zenon

\* What the steps of t do to its messages and to the lock: it enters a
\* message, takes the lock for it, prints a character, and leaves the message.
Enters(t) ==
  LET n == Len(calls[t])
  IN  /\ n = 0 \/ calls[t][n].pc = "chars"
      /\ Len(calls'[t]) = n + 1 /\ calls'[t][n + 1].pc = "acquire" /\ con' = con
      /\ \A k \in 1 .. n : calls'[t][k] = calls[t][k]

Takes(t) ==
  LET n == Len(calls[t])
  IN  /\ n > 0 /\ calls[t][n].pc = "acquire" /\ Len(calls'[t]) = n /\ calls'[t][n].pc = "chars"
      /\ \A k \in 1 .. n - 1 : calls'[t][k] = calls[t][k]
      /\ con.use => /\ con.lock \in {t, NoPrinter} /\ con'.lock = t
                    /\ con'.depth = IF con.lock = t THEN con.depth + 1 ELSE con.depth

Puts(t) ==
  LET n == Len(calls[t])
  IN  /\ n > 0 /\ calls[t][n].pc = "chars" /\ Len(calls'[t]) = n /\ calls'[t][n].pc = "chars" /\ con' = con
      /\ \A k \in 1 .. n - 1 : calls'[t][k] = calls[t][k]

Leaves(t) ==
  LET n == Len(calls[t])
  IN  /\ n > 0 /\ calls[t][n].pc = "chars" /\ Len(calls'[t]) = n - 1
      /\ \A k \in 1 .. n - 1 : calls'[t][k] = calls[t][k]
      /\ con.use => \/ con.depth > 0 /\ con'.lock = con.lock /\ con'.depth = con.depth - 1
                    \/ con.depth = 0 /\ con'.lock = NoPrinter /\ con'.depth = 0

\* A step is one of these, and leaves the messages of the others alone.
LEMMA OwnMessages ==
  ASSUME ConTypes, NEW t \in Printers, ConsoleStep(t), ~debug_panic(t)
  PROVE  /\ ConTypes' /\ panic' = panic /\ con'.use = con.use
         /\ \A u \in Printers \ {t} : calls'[u] = calls[u]
         /\ Enters(t) \/ Takes(t) \/ Puts(t) \/ Leaves(t)
  <1>1. /\ calls[t] \in Seq(Message) /\ Len(calls[t]) \in Nat /\ (calls[t] = <<>> <=> Len(calls[t]) = 0)
        /\ con \in [lock : Printers \cup {NoPrinter}, depth : Nat, use : BOOLEAN]
    BY DEF ConTypes
  <1>2. ASSUME NEW d \in Seq(Message), calls' = [calls EXCEPT ![t] = d]
        PROVE  calls' \in [Printers -> Seq(Message)] /\ calls'[t] = d /\ \A u \in Printers \ {t} : calls'[u] = calls[u]
    BY <1>2, Zenon DEF ConTypes
  <1>3. CASE PrintCall(t)
    <2>1. PICK n \in 1 .. MaxChars : calls' = [calls EXCEPT ![t] = Append(calls[t], [todo |-> n, pc |-> "acquire"])]
      BY <1>3, Zenon DEF PrintCall
    <2>2. [todo |-> n, pc |-> "acquire"] \in Message
      BY DEF Message
    <2>3. con' = con /\ panic' = panic /\ (Len(calls[t]) = 0 \/ calls[t][Len(calls[t])].pc = "chars")
      BY <1>1, <1>3, Zenon DEF PrintCall, Inner
    <2> QED
      BY <1>1, <1>2, <2>1, <2>2, <2>3, Messages DEF ConTypes, Enters
  <1>4. CASE acquire_console(t)
    <2>1. /\ calls[t] # <<>> /\ calls[t][Len(calls[t])].pc = "acquire" /\ panic' = panic
          /\ calls' = [calls EXCEPT ![t] = [calls[t] EXCEPT ![Len(calls[t])] = [calls[t][Len(calls[t])] EXCEPT !.pc = "chars"]]]
      BY <1>4, Zenon DEF acquire_console, Inner, SetInner
    <2>2. calls[t][Len(calls[t])] \in Message
      BY <1>1, <2>1
    <2>3. /\ [calls[t][Len(calls[t])] EXCEPT !.pc = "chars"] \in Message
          /\ [calls[t][Len(calls[t])] EXCEPT !.pc = "chars"].pc = "chars"
      BY <2>2, Zenon DEF Message
    <2>4. /\ con' \in [lock : Printers \cup {NoPrinter}, depth : Nat, use : BOOLEAN] /\ con'.use = con.use
          /\ con.use => /\ con.lock \in {t, NoPrinter} /\ con'.lock = t
                        /\ con'.depth = IF con.lock = t THEN con.depth + 1 ELSE con.depth
      <3>1. con.depth + 1 \in Nat
        BY <1>1
      <3>2. /\ con.use => con.lock \in {t, NoPrinter}
            /\ con' = IF ~con.use THEN con
                      ELSE IF con.lock = t THEN [con EXCEPT !.depth = con.depth + 1] ELSE [con EXCEPT !.lock = t]
        BY <1>4, Zenon DEF acquire_console
      <3>3. CASE ~con.use
        BY <1>1, <3>2, <3>3, Zenon
      <3>4. CASE con.use /\ con.lock = t
        BY <1>1, <3>1, <3>2, <3>4, Zenon
      <3>5. CASE con.use /\ con.lock # t
        BY <1>1, <3>2, <3>5, Zenon
      <3> QED
        BY <3>3, <3>4, <3>5, Zenon
    <2> QED
      BY <1>1, <1>2, <2>1, <2>3, <2>4, Messages DEF ConTypes, Takes
  <1>5. CASE putchar_have_lock(t)
    <2>1. /\ calls[t] # <<>> /\ calls[t][Len(calls[t])].pc = "chars" /\ calls[t][Len(calls[t])].todo > 0
          /\ panic' = panic /\ con' = con
          /\ calls' = [calls EXCEPT ![t] = [calls[t] EXCEPT ![Len(calls[t])] = [calls[t][Len(calls[t])] EXCEPT !.todo = @ - 1]]]
      BY <1>5, Zenon DEF putchar_have_lock, Inner, SetInner
    <2>2. calls[t][Len(calls[t])] \in Message
      BY <1>1, <2>1
    <2>3. /\ [calls[t][Len(calls[t])] EXCEPT !.todo = @ - 1] \in Message
          /\ [calls[t][Len(calls[t])] EXCEPT !.todo = @ - 1].pc = "chars"
      <3>1. calls[t][Len(calls[t])].todo - 1 \in Nat
        BY <2>1, <2>2 DEF Message
      <3> QED
        BY <2>1, <2>2, <3>1, Zenon DEF Message
    <2> QED
      BY <1>1, <1>2, <2>1, <2>3, Messages DEF ConTypes, Puts
  <1>6. CASE release_console(t)
    <2>1. /\ calls[t] # <<>> /\ calls[t][Len(calls[t])].pc = "chars" /\ panic' = panic
          /\ calls' = [calls EXCEPT ![t] = SubSeq(calls[t], 1, Len(calls[t]) - 1)]
      BY <1>6, Zenon DEF release_console, Inner
    <2>2. calls[t][Len(calls[t])] \in Message
      BY <1>1, <2>1
    <2>3. /\ con' \in [lock : Printers \cup {NoPrinter}, depth : Nat, use : BOOLEAN] /\ con'.use = con.use
          /\ con.use => \/ con.depth > 0 /\ con'.lock = con.lock /\ con'.depth = con.depth - 1
                        \/ con.depth = 0 /\ con'.lock = NoPrinter /\ con'.depth = 0
      BY <1>1, <1>6 DEF release_console
    <2> QED
      BY <1>1, <1>2, <2>1, <2>2, <2>3, Messages DEF ConTypes, Leaves
  <1> QED
    BY <1>3, <1>4, <1>5, <1>6, Zenon DEF ConsoleStep

\* How many messages a thread is in, by what it does with the innermost.
LEMMA OwnLevels ==
  ASSUME ConTypes, NEW t \in Printers, Nested(t)
  PROVE  /\ Levels(t) \in Nat /\ Len(calls[t]) \in Nat
         /\ Len(calls[t]) = 0 \/ calls[t][Len(calls[t])].pc = "chars" => Len(calls[t]) = Levels(t)
         /\ Len(calls[t]) > 0 /\ calls[t][Len(calls[t])].pc = "acquire" => Len(calls[t]) = Levels(t) + 1
  <1>1. Levels(t) \in Nat /\ Len(calls[t]) \in Nat
    BY DEF ConTypes, Levels
  <1>2. CASE Len(calls[t]) = Levels(t)
    <2>1. Len(calls[t]) > 0 => Len(calls[t]) \in 1 .. Levels(t)
      BY <1>1, <1>2
    <2> QED
      BY <1>1, <1>2, <2>1, Zenon DEF Nested
  <1>3. CASE Len(calls[t]) = Levels(t) + 1
    <2>1. Len(calls[t]) # 0
      BY <1>1, <1>3
    <2> QED
      BY <1>1, <1>3, <2>1, Zenon DEF Nested
  <1> QED
    BY <1>2, <1>3, Zenon DEF Nested

\* After a step: a thread that has the lock for all its messages.
LEMMA NestedHere ==
  ASSUME NEW t, Levels(t)' \in Nat, Len(calls'[t]) = Levels(t)', \A k \in 1 .. Levels(t)' : calls'[t][k].pc = "chars"
  PROVE  Nested(t)'
  <1>1. Levels(t)' # Levels(t)' + 1
    OBVIOUS
  <1> QED
    BY <1>1, Zenon DEF Nested

\* A step of the console keeps the invariant.
LEMMA ConInvStep ==
  (console_init => ConInv) /\ (ConInv /\ [ConsoleNext]_con_vars => ConInv')
  <1>1. ASSUME console_init PROVE ConInv
    BY <1>1, ConsoleAssumption DEF console_init, ConInv, ConTypes, Nested, Levels, Message
  <1>2. ASSUME ConInv, UNCHANGED con_vars PROVE ConInv'
    BY <1>2 DEF con_vars, ConInv, ConTypes, Nested, Levels
  <1>3. ASSUME ConInv, NEW t \in Printers, debug_panic(t) PROVE ConInv'
    <2>1. /\ <<[todo |-> 1, pc |-> "acquire"]>> \in Seq(Message)
          /\ <<>> \in Seq(Message)
      BY DEF Message
    <2>2. ConTypes'
      <3>1. calls' \in [Printers -> Seq(Message)]
        BY <1>3, <2>1, Zenon DEF ConInv, ConTypes, debug_panic
      <3>2. con' \in [lock : Printers \cup {NoPrinter}, depth : Nat, use : BOOLEAN]
        BY <1>3, Zenon DEF ConInv, ConTypes, debug_panic
      <3>3. panic' \in [by : Printers \cup {NoPrinter}, level : Nat]
        BY <1>3 DEF ConInv, ConTypes, debug_panic
      <3> QED
        BY <3>1, <3>2, <3>3, Zenon DEF ConTypes
    <2>3. ~con'.use /\ panic'.by = t
      BY <1>3, Zenon DEF ConInv, ConTypes, debug_panic
    <2> QED
      BY <2>2, <2>3, ConsoleAssumption, Zenon DEF ConInv
  <1>4. ASSUME ConInv, NEW t \in Printers, ConsoleStep(t), ~debug_panic(t) PROVE ConInv'
    <2>1. /\ ConTypes /\ ConTypes' /\ panic' = panic /\ con'.use = con.use /\ t # NoPrinter
          /\ \A u \in Printers \ {t} : calls'[u] = calls[u]
      BY <1>4, OwnMessages, ConsoleAssumption, Zenon DEF ConInv
    <2>2. ASSUME con.use
          PROVE  /\ con'.lock = NoPrinter => con'.depth = 0
                 /\ Nested(t)' /\ \A u \in Printers \ {t} : Levels(u)' = Levels(u)
      <3>1. /\ con.lock = NoPrinter => con.depth = 0
            /\ Nested(t) /\ Len(calls[t]) \in Nat /\ Len(calls'[t]) \in Nat
            /\ con.depth \in Nat /\ con'.depth \in Nat /\ Levels(t) \in Nat /\ Levels(t)' \in Nat
        <4>1. con.depth \in Nat /\ con'.depth \in Nat /\ calls[t] \in Seq(Message) /\ calls'[t] \in Seq(Message)
          BY <2>1, Zenon DEF ConTypes
        <4>2. Levels(t) \in {con.depth + 1, 0} /\ Levels(t)' \in {con'.depth + 1, 0}
          BY Zenon DEF Levels
        <4>3. Nested(t) /\ (con.lock = NoPrinter => con.depth = 0)
          BY <1>4, <2>2, Zenon DEF ConInv
        <4>4. \A d \in Nat : d + 1 \in Nat /\ 0 \in Nat
          OBVIOUS
        <4>5. \A s \in Seq(Message) : Len(s) \in Nat
          OBVIOUS
        <4> QED
          BY <4>1, <4>2, <4>3, <4>4, <4>5, Zenon
      <3>2. CASE Enters(t)
        <4>1. Len(calls[t]) = Levels(t) /\ con' = con /\ Levels(t)' = Levels(t)
          BY <2>1, <3>1, <3>2, OwnLevels, Zenon DEF Enters, Levels
        <4>2. Nested(t)'
          BY <3>1, <3>2, <4>1, Zenon DEF Enters, Nested
        <4> QED
          BY <3>1, <4>1, <4>2, Zenon DEF Levels
      <3>3. CASE Takes(t)
        <4>1. Len(calls[t]) = Levels(t) + 1 /\ con'.lock = t /\ con.lock \in {t, NoPrinter}
          BY <2>1, <2>2, <3>1, <3>3, OwnLevels, Zenon DEF Takes
        <4>2. Levels(t)' = Levels(t) + 1
          BY <2>1, <2>2, <3>1, <3>3, <4>1 DEF Takes, Levels
        <4>3. Len(calls'[t]) = Levels(t)'
          BY <3>3, <4>1, <4>2, Zenon DEF Takes
        <4>4. ASSUME NEW k \in 1 .. Levels(t)' PROVE calls'[t][k].pc = "chars"
          <5>1. CASE k = Len(calls[t])
            BY <3>3, <5>1, Zenon DEF Takes
          <5>2. CASE k # Len(calls[t])
            <6>1. k \in 1 .. Levels(t) /\ k \in 1 .. Len(calls[t]) - 1
              BY <3>1, <4>1, <4>2, <4>4, <5>2
            <6> QED
              BY <3>1, <3>3, <6>1, Zenon DEF Takes, Nested
          <5> QED
            BY <5>1, <5>2, Zenon
        <4> QED
          BY <2>1, <3>1, <4>1, <4>2, <4>3, <4>4, NestedHere, ConsoleAssumption, Zenon DEF Levels
      <3>4. CASE Puts(t)
        <4>1. Len(calls[t]) = Levels(t) /\ con' = con /\ Levels(t)' = Levels(t)
          BY <2>1, <3>1, <3>4, OwnLevels, Zenon DEF Puts, Levels
        <4>2. Len(calls'[t]) = Levels(t)'
          BY <3>4, <4>1, Zenon DEF Puts
        <4>3. ASSUME NEW k \in 1 .. Levels(t)' PROVE calls'[t][k].pc = "chars"
          <5>1. CASE k = Len(calls[t])
            BY <3>4, <5>1, Zenon DEF Puts
          <5>2. CASE k # Len(calls[t])
            <6>1. k \in 1 .. Levels(t) /\ k \in 1 .. Len(calls[t]) - 1
              BY <3>1, <4>1, <4>3, <5>2
            <6> QED
              BY <3>1, <3>4, <6>1, Zenon DEF Puts, Nested
          <5> QED
            BY <5>1, <5>2, Zenon
        <4> QED
          BY <3>1, <4>1, <4>2, <4>3, NestedHere, Zenon DEF Levels
      <3>5. CASE Leaves(t)
        <4>0. Len(calls[t]) = Levels(t) /\ Len(calls[t]) > 0
          BY <2>1, <3>1, <3>5, OwnLevels, Zenon DEF Leaves
        <4>1. con.lock = t
          BY <3>1, <4>0 DEF Levels
        <4>2. /\ Levels(t)' = Levels(t) - 1 /\ con'.lock \in {t, NoPrinter}
              /\ con'.lock = NoPrinter => con'.depth = 0
          <5>1. Levels(t) = con.depth + 1
            BY <4>1, Zenon DEF Levels
          <5>2. CASE con.depth > 0 /\ con'.lock = con.lock /\ con'.depth = con.depth - 1
            <6>1. Levels(t)' = con'.depth + 1
              BY <4>1, <5>2, Zenon DEF Levels
            <6> QED
              BY <2>1, <3>1, <4>1, <5>1, <5>2, <6>1
          <5>3. CASE con.depth = 0 /\ con'.lock = NoPrinter /\ con'.depth = 0
            <6>1. Levels(t)' = 0
              BY <2>1, <5>3, Zenon DEF Levels
            <6> QED
              BY <5>1, <5>3, <6>1
          <5> QED
            BY <2>2, <3>5, <5>2, <5>3, Zenon DEF Leaves
        <4>3. Len(calls'[t]) = Levels(t)'
          BY <3>5, <4>0, <4>2, Zenon DEF Leaves
        <4>4. ASSUME NEW k \in 1 .. Levels(t)' PROVE calls'[t][k].pc = "chars"
          <5>1. k \in 1 .. Levels(t) /\ k \in 1 .. Len(calls[t]) - 1
            BY <3>1, <4>0, <4>2, <4>4
          <5> QED
            BY <3>1, <3>5, <5>1, Zenon DEF Leaves, Nested
        <4> QED
          BY <2>1, <3>1, <4>1, <4>2, <4>3, <4>4, NestedHere, ConsoleAssumption, Zenon DEF Levels
      <3> QED
        BY <1>4, <2>1, <3>2, <3>3, <3>4, <3>5, OwnMessages, Zenon
    <2>3. ASSUME con.use, NEW u \in Printers \ {t} PROVE Nested(u)'
      BY <1>4, <2>1, <2>2, <2>3 DEF ConInv, Nested
    <2> QED
      BY <1>4, <2>1, <2>2, <2>3, Zenon DEF ConInv
  <1> QED
    BY <1>1, <1>2, <1>3, <1>4, Zenon DEF ConsoleNext, ConsoleStep

\* Up to a panic the output of two threads is never mixed, the assertion of
\* putchar_have_lock() holds at every character, and the lock is given back by
\* the outermost message of its holder and by no other; a panic never waits
\* for the lock.
THEOREM ConsoleAlwaysSafe == ConsoleSpec => []ConsoleSafe
  <1>1. ASSUME ConInv PROVE ConsoleSafe
    <2>1. ASSUME con.use, NEW t \in Printers, Writing(t) PROVE con.lock = t
      BY <1>1, <2>1 DEF ConInv, ConTypes, Nested, Levels, Writing
    <2>2. OutputNotMixed
      BY <2>1, <1>1, Zenon DEF OutputNotMixed, console_locked_by_current_thread, ConInv, ConTypes
    <2>3. ASSUME panic.by = NoPrinter, con.lock # NoPrinter
          PROVE  {k \in DOMAIN calls[con.lock] : calls[con.lock][k].pc = "chars"} = 1 .. con.depth + 1
      <3>1. /\ con.lock \in Printers /\ Nested(con.lock) /\ Levels(con.lock) = con.depth + 1 /\ con.depth \in Nat
            /\ calls[con.lock] \in Seq(Message)
        BY <1>1, <2>3, Zenon DEF ConInv, ConTypes, Levels
      <3>2. ASSUME NEW k \in DOMAIN calls[con.lock] PROVE calls[con.lock][k].pc = "chars" <=> k \in 1 .. con.depth + 1
        <4>1. k \in 1 .. con.depth + 1 \/ (k = con.depth + 2 /\ Len(calls[con.lock]) = con.depth + 2)
          <5>1. k \in 1 .. Len(calls[con.lock]) /\ Len(calls[con.lock]) \in Nat
            BY <3>1, <3>2
          <5>2. Len(calls[con.lock]) \in {con.depth + 1, con.depth + 1 + 1}
            BY <3>1, Zenon DEF Nested
          <5>3. ASSUME NEW n \in Nat, NEW d \in Nat, k \in 1 .. n, n \in {d + 1, d + 1 + 1}
                PROVE  k \in 1 .. d + 1 \/ (k = d + 2 /\ n = d + 2)
            BY <5>3
          <5> QED
            BY <3>1, <5>1, <5>2, <5>3, Zenon
        <4>2. con.depth + 2 = Levels(con.lock) + 1 /\ con.depth + 2 \notin 1 .. con.depth + 1
          BY <3>1
        <4> QED
          BY <3>1, <4>1, <4>2, Zenon DEF Nested
      <3>3. 1 .. con.depth + 1 \subseteq DOMAIN calls[con.lock]
        BY <3>1 DEF Nested
      <3> QED
        BY <3>2, <3>3, Zenon
    <2>4. DepthIsExact
      BY <1>1, <2>3, Zenon DEF ConInv, DepthIsExact
    <2>5. PanicNeverWaits
      BY <1>1, Zenon DEF ConInv, PanicNeverWaits, Waits
    <2> QED
      BY <2>2, <2>4, <2>5, Zenon DEF ConsoleSafe
  <1> QED
    BY <1>1, ConInvStep, PTL DEF ConsoleSpec

-----------------------------------------------------------------------------
(* The display, for a screen of any size.                                  *)

Row == [0 .. COL_CNT - 1 -> Glyphs \cup {Space}]

\* The framebuffer f shows the last rows of the paper p.
Shows(f, p) ==
  /\ f \in [0 .. ROW_CNT - 1 -> Row] /\ p \in Seq(Row) /\ Len(p) >= ROW_CNT
  /\ \A y \in 0 .. ROW_CNT - 1 : f[y] = p[Len(p) - ROW_CNT + y + 1]

VgaInv == CursorOnScreen /\ Shows(fb, paper)

Scrolled(f) == [y \in 0 .. ROW_CNT - 1 |-> IF y + 1 < ROW_CNT THEN f[y + 1] ELSE BlankRow]

Clear == [y \in 0 .. ROW_CNT - 1 |-> BlankRow]
ClearPaper == [i \in 1 .. ROW_CNT |-> BlankRow]

\* An empty screen shows an empty paper.
LEMMA ClearShows == Shows(Clear, ClearPaper) /\ BlankRow \in Row
  <1>1. BlankRow \in Row
    BY Zenon DEF BlankRow, Row
  <1>2. ROW_CNT \in Nat
    BY VgaAssumption, Zenon
  <1>3. ClearPaper \in Seq(Row) /\ Len(ClearPaper) = ROW_CNT
    BY <1>1, <1>2 DEF ClearPaper
  <1>4. \A y \in 0 .. ROW_CNT - 1 : Clear[y] = ClearPaper[Len(ClearPaper) - ROW_CNT + y + 1]
    BY <1>2, <1>3 DEF Clear, ClearPaper
  <1> QED
    BY <1>1, <1>3, <1>4 DEF Shows, Clear

\* A scroll brings an empty row onto the screen and onto the paper.
LEMMA ScrollShows ==
  ASSUME NEW f, NEW p, Shows(f, p)
  PROVE  Shows(Scrolled(f), Append(p, BlankRow))
  <1>1. BlankRow \in Row /\ ROW_CNT \in Nat \ {0}
    BY ClearShows, VgaAssumption, Zenon
  <1>2. f \in [0 .. ROW_CNT - 1 -> Row] /\ p \in Seq(Row) /\ Len(p) \in Nat /\ Len(p) >= ROW_CNT
    BY DEF Shows
  <1>3. /\ Append(p, BlankRow) \in Seq(Row) /\ Len(Append(p, BlankRow)) = Len(p) + 1
        /\ Append(p, BlankRow)[Len(p) + 1] = BlankRow
        /\ \A i \in 1 .. Len(p) : Append(p, BlankRow)[i] = p[i]
    BY <1>1, <1>2
  <1>4. Scrolled(f) \in [0 .. ROW_CNT - 1 -> Row]
    BY <1>1, <1>2 DEF Scrolled
  <1>5. ASSUME NEW y \in 0 .. ROW_CNT - 1
        PROVE  Scrolled(f)[y] = Append(p, BlankRow)[Len(p) + 1 - ROW_CNT + y + 1]
    <2>1. CASE y + 1 < ROW_CNT
      <3>1. Scrolled(f)[y] = f[y + 1] /\ y + 1 \in 0 .. ROW_CNT - 1
        BY <1>1, <2>1 DEF Scrolled
      <3>2. f[y + 1] = p[Len(p) - ROW_CNT + (y + 1) + 1]
        BY <3>1, Zenon DEF Shows
      <3>3. Len(p) - ROW_CNT + (y + 1) + 1 \in 1 .. Len(p) /\ Len(p) - ROW_CNT + (y + 1) + 1 = Len(p) + 1 - ROW_CNT + y + 1
        BY <1>1, <1>2, <2>1
      <3> QED
        BY <1>3, <3>1, <3>2, <3>3, Zenon
    <2>2. CASE ~(y + 1 < ROW_CNT)
      <3>1. Scrolled(f)[y] = BlankRow /\ Len(p) + 1 - ROW_CNT + y + 1 = Len(p) + 1
        BY <1>1, <1>2, <2>2 DEF Scrolled
      <3> QED
        BY <1>3, <3>1, Zenon
    <2> QED
      BY <2>1, <2>2, Zenon
  <1>6. /\ Len(Append(p, BlankRow)) >= ROW_CNT
        /\ \A y \in 0 .. ROW_CNT - 1 :
             Scrolled(f)[y] = Append(p, BlankRow)[Len(Append(p, BlankRow)) - ROW_CNT + y + 1]
    <2>1. Len(Append(p, BlankRow)) >= ROW_CNT
      BY <1>1, <1>2, <1>3
    <2>2. ASSUME NEW y \in 0 .. ROW_CNT - 1
          PROVE  Scrolled(f)[y] = Append(p, BlankRow)[Len(Append(p, BlankRow)) - ROW_CNT + y + 1]
      <3>1. Len(Append(p, BlankRow)) - ROW_CNT + y + 1 = Len(p) + 1 - ROW_CNT + y + 1
        BY <1>1, <1>2, <1>3, <2>2
      <3>2. Scrolled(f)[y] = Append(p, BlankRow)[Len(p) + 1 - ROW_CNT + y + 1]
        BY <1>5, Zenon
      <3> QED
        BY <3>1, <3>2, Zenon
    <2> QED
      BY <2>1, <2>2, Zenon
  <1> QED
    BY <1>3, <1>4, <1>6, Zenon DEF Shows

\* A character goes to the same place of the screen and of the paper.
LEMMA InkShows ==
  ASSUME NEW f, NEW p, Shows(f, p), NEW x \in 0 .. COL_CNT - 1, NEW y \in 0 .. ROW_CNT - 1, NEW c \in Glyphs
  PROVE  /\ Shows([f EXCEPT ![y][x] = c], [p EXCEPT ![Len(p) - ROW_CNT + y + 1][x] = c])
         /\ Len([p EXCEPT ![Len(p) - ROW_CNT + y + 1][x] = c]) = Len(p)
  <1> DEFINE r == Len(p) - ROW_CNT + y + 1
             row == [f[y] EXCEPT ![x] = c]
             g == [f EXCEPT ![y][x] = c]
             q == [p EXCEPT ![r][x] = c]
  <1>1. /\ f \in [0 .. ROW_CNT - 1 -> Row] /\ p \in Seq(Row) /\ Len(p) \in Nat /\ Len(p) >= ROW_CNT
        /\ ROW_CNT \in Nat \ {0} /\ r \in 1 .. Len(p)
    BY VgaAssumption DEF Shows
  <1>2. f[y] = p[r] /\ f[y] \in Row
    BY <1>1, Zenon DEF Shows
  <1>3. row \in Row
    BY <1>2, Zenon DEF Row
  <1>4. /\ g \in [0 .. ROW_CNT - 1 -> Row] /\ g[y] = row
        /\ \A z \in 0 .. ROW_CNT - 1 : z # y => g[z] = f[z]
    BY <1>1, <1>3, Zenon
  <1>5. /\ q \in Seq(Row) /\ Len(q) = Len(p) /\ q[r] = row
        /\ \A i \in 1 .. Len(p) : i # r => q[i] = p[i]
    <2>1. ASSUME NEW i \in 1 .. Len(p)
          PROVE  /\ [p EXCEPT ![i] = row] \in Seq(Row) /\ Len([p EXCEPT ![i] = row]) = Len(p)
                 /\ [p EXCEPT ![i] = row][i] = row
                 /\ \A j \in 1 .. Len(p) : j # i => [p EXCEPT ![i] = row][j] = p[j]
      <3> HIDE DEF row
      <3> QED
        BY <1>1, <1>3
    <2>2. q = [p EXCEPT ![r] = row]
      BY <1>2, Zenon
    <2> HIDE DEF row, q, r
    <2> QED
      BY <1>1, <2>1, <2>2, Zenon
  <1>6. ASSUME NEW z \in 0 .. ROW_CNT - 1 PROVE g[z] = q[Len(p) - ROW_CNT + z + 1]
    <2>1. Len(p) - ROW_CNT + z + 1 \in 1 .. Len(p) /\ (z # y => Len(p) - ROW_CNT + z + 1 # r)
      BY <1>1
    <2>2. f[z] = p[Len(p) - ROW_CNT + z + 1]
      BY Zenon DEF Shows
    <2> QED
      BY <1>4, <1>5, <2>1, <2>2, Zenon
  <1> QED
    BY <1>1, <1>4, <1>5, <1>6, Zenon DEF Shows

\* The step to the next row, from a screen s as a character left it.
LEMMA RowShows ==
  ASSUME NEW s \in [cx : Int, cy : 0 .. ROW_CNT - 1, fb : [0 .. ROW_CNT - 1 -> Row]], NEW p, Shows(s.fb, p)
  PROVE  /\ newline(s).cx \in 0 .. COL_CNT - 1 /\ newline(s).cy \in 0 .. ROW_CNT - 1
         /\ Shows(newline(s).fb, IF s.cy = ROW_CNT - 1 THEN Append(p, BlankRow) ELSE p)
  <1>1. s.cy \in 0 .. ROW_CNT - 1 /\ ROW_CNT \in Nat \ {0} /\ COL_CNT \in Nat \ {0}
    BY VgaAssumption, Zenon
  <1>2. CASE s.cy + 1 < ROW_CNT
    <2>1. newline(s).cx = 0 /\ newline(s).cy = s.cy + 1 /\ newline(s).fb = s.fb
      BY <1>2, Zenon DEF newline
    <2>2. s.cy # ROW_CNT - 1 /\ s.cy + 1 \in 0 .. ROW_CNT - 1 /\ 0 \in 0 .. COL_CNT - 1
      BY <1>1, <1>2
    <2> QED
      BY <2>1, <2>2, Zenon
  <1>3. CASE ~(s.cy + 1 < ROW_CNT)
    <2>1. newline(s).cx = 0 /\ newline(s).cy = s.cy /\ newline(s).fb = Scrolled(s.fb)
      BY <1>3, Zenon DEF newline, Scrolled
    <2>2. s.cy = ROW_CNT - 1 /\ 0 \in 0 .. COL_CNT - 1
      BY <1>1, <1>3
    <2> QED
      BY <1>1, <2>1, <2>2, ScrollShows
  <1> QED
    BY <1>2, <1>3, Zenon

\* The same with the wrap at the end of a row.
LEMMA WrapShows ==
  ASSUME NEW s \in [cx : Nat, cy : 0 .. ROW_CNT - 1, fb : [0 .. ROW_CNT - 1 -> Row]], NEW p, Shows(s.fb, p)
  PROVE  /\ Wrapped(s).cx \in 0 .. COL_CNT - 1 /\ Wrapped(s).cy \in 0 .. ROW_CNT - 1
         /\ Shows(Wrapped(s).fb, IF s.cx >= COL_CNT /\ s.cy = ROW_CNT - 1 THEN Append(p, BlankRow) ELSE p)
  <1>1. COL_CNT \in Nat \ {0} /\ s.cx \in Nat /\ s.cy \in 0 .. ROW_CNT - 1
    BY VgaAssumption, Zenon
  <1>2. CASE s.cx >= COL_CNT
    <2>1. s \in [cx : Int, cy : 0 .. ROW_CNT - 1, fb : [0 .. ROW_CNT - 1 -> Row]]
      OBVIOUS
    <2>2. Wrapped(s) = newline(s)
      BY <1>2, Zenon DEF Wrapped
    <2> QED
      BY <1>2, <2>1, <2>2, RowShows, Zenon
  <1>3. CASE ~(s.cx >= COL_CNT)
    <2>1. Wrapped(s) = s
      BY <1>3, Zenon DEF Wrapped
    <2> QED
      BY <1>1, <1>3, <2>1
  <1> QED
    BY <1>2, <1>3, Zenon

\* A character keeps the invariant.
LEMMA PutcStep ==
  ASSUME VgaInv, NEW c \in Glyphs \cup Controls, vga_putc(c)
  PROVE  VgaInv'
  <1>1. /\ cx \in 0 .. COL_CNT - 1 /\ cy \in 0 .. ROW_CNT - 1 /\ Shows(fb, paper)
        /\ ROW_CNT \in Nat \ {0} /\ COL_CNT \in Nat \ {0} /\ TAB \in Nat \ {0}
    BY VgaAssumption, Zenon DEF VgaInv, CursorOnScreen
  <1>2. cx' = putc(Screen, c).cx /\ cy' = putc(Screen, c).cy /\ fb' = putc(Screen, c).fb
    BY Zenon DEF vga_putc
  <1>3. SUFFICES cx' \in 0 .. COL_CNT - 1 /\ cy' \in 0 .. ROW_CNT - 1 /\ Shows(fb', paper')
    BY Zenon DEF VgaInv, CursorOnScreen, Shows
  <1>4. CASE c \in Glyphs
    <2>1. c \notin Controls
      BY <1>4, VgaAssumption, Zenon
    <2>2. c # "nl" /\ c # "ff" /\ c # "bs" /\ c # "cr" /\ c # "tab" /\ c # "bel"
      BY <2>1, Zenon DEF Controls
    <2> DEFINE f == [fb EXCEPT ![cy][cx] = c]
               p == [paper EXCEPT ![PaperRow][cx] = c]
    <2>3. Shows(f, p)
      BY <1>1, <1>4, InkShows, Zenon DEF PaperRow
    <2>4. /\ Screen \in [cx : Nat, cy : 0 .. ROW_CNT - 1, fb : [0 .. ROW_CNT - 1 -> Row]]
          /\ Screen.cx = cx /\ Screen.cy = cy /\ Screen.fb = fb
      BY <1>1 DEF Screen, Shows
    <2>5. PICK s : s = [Screen EXCEPT !.fb = f, !.cx = cx + 1]
      BY Zenon
    <2>6. putc(Screen, c) = Wrapped(s)
      <3>1. putc(Screen, c) = Wrapped([Screen EXCEPT !.fb[Screen.cy][Screen.cx] = c, !.cx = @ + 1])
        BY <2>2, Zenon DEF putc
      <3> QED
        BY <2>4, <2>5, <3>1, Zenon
    <2>7. paper' = IF cx + 1 >= COL_CNT /\ cy = ROW_CNT - 1 THEN Append(p, BlankRow) ELSE p
      BY <1>4, <2>2, Zenon DEF vga_putc
    <2> HIDE DEF f, p
    <2>8. f \in [0 .. ROW_CNT - 1 -> Row] /\ cx + 1 \in Nat
      <3>1. f \in [0 .. ROW_CNT - 1 -> Row]
        BY <2>3, Zenon DEF Shows
      <3> QED
        BY <1>1, <3>1
    <2>9. /\ s \in [cx : Nat, cy : 0 .. ROW_CNT - 1, fb : [0 .. ROW_CNT - 1 -> Row]]
          /\ s.cx = cx + 1 /\ s.cy = cy /\ s.fb = f
      BY <2>4, <2>5, <2>8, Zenon
    <2> QED
      BY <1>2, <2>3, <2>6, <2>7, <2>9, WrapShows, Zenon
  <1>5. CASE c \in Controls
    <2>1. c \notin Glyphs
      BY <1>5, VgaAssumption, Zenon
    <2>2. CASE c = "nl"
      <3>1. putc(Screen, c) = newline(Screen)
        BY <2>2, Zenon DEF putc
      <3>2. paper' = IF cy = ROW_CNT - 1 THEN Append(paper, BlankRow) ELSE paper
        BY <2>1, <2>2, Zenon DEF vga_putc
      <3>3. /\ Screen \in [cx : Int, cy : 0 .. ROW_CNT - 1, fb : [0 .. ROW_CNT - 1 -> Row]]
            /\ Screen.cx = cx /\ Screen.cy = cy /\ Screen.fb = fb
        BY <1>1 DEF Screen, Shows
      <3> QED
        BY <1>1, <1>2, <3>1, <3>2, <3>3, RowShows, Zenon
    <2>3. CASE c = "ff"
      <3>1. putc(Screen, c) = [cx |-> 0, cy |-> 0, fb |-> Clear] /\ paper' = ClearPaper
        BY <2>3, Zenon DEF putc, cls, Clear, ClearPaper, vga_putc
      <3> QED
        BY <1>1, <1>2, <3>1, ClearShows
    <2>4. CASE c \in {"bs", "cr", "bel"}
      <3>1. /\ putc(Screen, c).cy = cy /\ putc(Screen, c).fb = fb
            /\ putc(Screen, c).cx \in {cx, 0, IF cx > 0 THEN cx - 1 ELSE 0}
        BY <2>4, Zenon DEF putc, Screen
      <3>2. paper' = paper
        BY <2>1, <2>4, Zenon DEF vga_putc
      <3> QED
        BY <1>1, <1>2, <3>1, <3>2
    <2>5. CASE c = "tab"
      <3> DEFINE n == ((cx \div TAB) + 1) * TAB
      <3>1. n \in Nat
        <4>1. ASSUME NEW x \in Nat, NEW m \in Nat \ {0} PROVE ((x \div m) + 1) * m \in Nat
          OBVIOUS
        <4> QED
          BY <1>1, <4>1
      <3>2. /\ Screen \in [cx : Nat, cy : 0 .. ROW_CNT - 1, fb : [0 .. ROW_CNT - 1 -> Row]]
            /\ Screen.cx = cx /\ Screen.cy = cy /\ Screen.fb = fb
        BY <1>1 DEF Screen, Shows
      <3>3. PICK s : s = [Screen EXCEPT !.cx = n]
        BY Zenon
      <3>4. putc(Screen, c) = Wrapped(s)
        BY <2>5, <3>2, <3>3, Zenon DEF putc, Tabbed
      <3>5. paper' = IF n >= COL_CNT /\ cy = ROW_CNT - 1 THEN Append(paper, BlankRow) ELSE paper
        BY <2>1, <2>5, Zenon DEF vga_putc
      <3> HIDE DEF n
      <3>6. /\ s \in [cx : Nat, cy : 0 .. ROW_CNT - 1, fb : [0 .. ROW_CNT - 1 -> Row]]
            /\ s.cx = n /\ s.cy = cy /\ s.fb = fb
        BY <3>1, <3>2, <3>3, Zenon
      <3> QED
        BY <1>1, <1>2, <3>4, <3>5, <3>6, WrapShows, Zenon
    <2> QED
      BY <1>5, <2>2, <2>3, <2>4, <2>5, Zenon DEF Controls
  <1> QED
    BY <1>4, <1>5, Zenon

\* The screen shows the last rows of all that was printed, whatever wraps,
\* tabs and scrolls came before, and the cursor never leaves it.
THEOREM DisplayIsAlwaysTail == VgaSpec => []DisplayIsTail
  <1>1. ASSUME vga_init PROVE VgaInv
    BY <1>1, ClearShows, Zenon DEF vga_init, VgaInv, CursorOnScreen, Clear, ClearPaper
  <1>2. ASSUME VgaInv, VgaNext PROVE VgaInv'
    BY <1>2, PutcStep, Zenon DEF VgaNext
  <1>3. ASSUME VgaInv, UNCHANGED vga_vars PROVE VgaInv'
    BY <1>3, Zenon DEF vga_vars, VgaInv, CursorOnScreen, Shows
  <1>4. ASSUME VgaInv PROVE DisplayIsTail
    BY <1>4, Zenon DEF VgaInv, Shows, DisplayIsTail, ScreenIsTail
  <1> QED
    BY <1>1, <1>2, <1>3, <1>4, PTL DEF VgaSpec
=============================================================================
