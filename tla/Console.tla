------------------------------ MODULE Console ------------------------------
(***************************************************************************)
(* The console of lib/kernel/console.c and the way a kernel panic goes     *)
(* through it (lib/kernel/debug.c): a lock that a thread may take again,   *)
(* simulated with a depth counter, and the flag use_console_lock that a    *)
(* panic clears.                                                           *)
(*                                                                         *)
(* A thread prints a message of at most MaxChars characters.  Between two  *)
(* characters it may have to print another message (a fault in the middle  *)
(* of printf() reports itself with printf()), and any thread may panic,    *)
(* whose own output may fail in turn.  An interrupt handler that prints    *)
(* takes no lock and changes none of this state, so it has no action.      *)
(***************************************************************************)
EXTENDS Integers, Sequences

CONSTANTS
  Printers,     \* the threads
  NoPrinter,    \* nobody: not a thread
  MaxChars,     \* bound: characters of a message
  MaxNest,      \* bound: messages a thread is in the middle of
  MaxLevel      \* bound: panics within a panic

ASSUME ConsoleAssumption == NoPrinter \notin Printers

VARIABLES
  con,          \* [lock, depth, use]: console_lock, its depth, use_console_lock
  calls,        \* calls[t]: the messages t is in: [todo, pc], innermost last
  panic         \* [by, level]: the thread in debug_panic(), its level

con_vars == <<con, calls, panic>>

console_init ==
  /\ con = [lock |-> NoPrinter, depth |-> 0, use |-> TRUE]
  /\ calls = [t \in Printers |-> <<>>]
  /\ panic = [by |-> NoPrinter, level |-> 0]

(* debug_panic() disables interrupts: nobody else runs again. *)
MayRun(t) == panic.by \in {t, NoPrinter}
Inner(t) == calls[t][Len(calls[t])]
SetInner(t, c) == calls' = [calls EXCEPT ![t][Len(calls[t])] = c]

(* printf(), puts(), putbuf() or putchar() is called. *)
PrintCall(t) ==
  /\ MayRun(t) /\ panic.by # t /\ Len(calls[t]) < MaxNest
  /\ calls[t] # <<>> => Inner(t).pc = "chars"
  /\ \E n \in 1 .. MaxChars :
       calls' = [calls EXCEPT ![t] = Append(@, [todo |-> n, pc |-> "acquire"])]
  /\ UNCHANGED <<con, panic>>

(* acquire_console() outside an interrupt handler: take the lock, or count *)
(* one level more, or do nothing once the lock is out of use.              *)
acquire_console(t) ==
  /\ MayRun(t) /\ calls[t] # <<>> /\ Inner(t).pc = "acquire"
  /\ con.use => con.lock \in {t, NoPrinter}
  /\ con' = IF ~con.use THEN con
            ELSE IF con.lock = t THEN [con EXCEPT !.depth = @ + 1]
            ELSE [con EXCEPT !.lock = t]
  /\ SetInner(t, [Inner(t) EXCEPT !.pc = "chars"])
  /\ UNCHANGED panic

console_locked_by_current_thread(t) == ~con.use \/ con.lock = t

(* putchar_have_lock(): one character. *)
putchar_have_lock(t) ==
  /\ MayRun(t) /\ calls[t] # <<>> /\ Inner(t).pc = "chars" /\ Inner(t).todo > 0
  /\ SetInner(t, [Inner(t) EXCEPT !.todo = @ - 1])
  /\ UNCHANGED <<con, panic>>

(* Wrong: the lock is released and the depth stays. *)
release_console_Deep(t) ==
  /\ MayRun(t) /\ calls[t] # <<>> /\ Inner(t).pc = "chars" /\ Inner(t).todo = 0
  /\ con' = IF con.use THEN [con EXCEPT !.lock = NoPrinter] ELSE con
  /\ calls' = [calls EXCEPT ![t] = SubSeq(@, 1, Len(@) - 1)]
  /\ UNCHANGED panic

(* release_console(), and the call returns. *)
release_console(t) ==
  /\ MayRun(t) /\ calls[t] # <<>> /\ Inner(t).pc = "chars" /\ Inner(t).todo = 0
  /\ con' = IF ~con.use THEN con
            ELSE IF con.depth > 0 THEN [con EXCEPT !.depth = @ - 1]
            ELSE [con EXCEPT !.lock = NoPrinter]
  /\ calls' = [calls EXCEPT ![t] = SubSeq(@, 1, Len(@) - 1)]
  /\ UNCHANGED panic

(* debug_panic(): console_panic(), then a message at levels 1 and 2 and    *)
(* none deeper.  It never returns to what it interrupted.                  *)
debug_panic(t) ==
  /\ MayRun(t) /\ panic.level < MaxLevel
  /\ con' = [con EXCEPT !.use = FALSE]
  /\ panic' = [by |-> t, level |-> panic.level + 1]
  /\ calls' = IF panic.level < 2
              THEN [calls EXCEPT ![t] = <<[todo |-> 1, pc |-> "acquire"]>>]
              ELSE [calls EXCEPT ![t] = <<>>]

ConsoleStep(t) ==
  \/ PrintCall(t)
  \/ acquire_console(t)
  \/ putchar_have_lock(t)
  \/ release_console(t)
  \/ debug_panic(t)

ConsoleNext == \E t \in Printers : ConsoleStep(t)

ConsoleSpec == console_init /\ [][ConsoleNext]_con_vars

(***************************************************************************)
(* Properties.                                                             *)
(***************************************************************************)
Writing(t) == \E k \in DOMAIN calls[t] : calls[t][k].pc = "chars"

(* The assertion of putchar_have_lock() holds at every character, nested   *)
(* messages and the end of a nested message included, and two threads are  *)
(* never both in the middle of a message: output is not mixed before a     *)
(* panic.                                                                  *)
OutputNotMixed ==
  \A t \in Printers :
    (MayRun(t) /\ Writing(t)) =>
      /\ console_locked_by_current_thread(t)
      /\ con.use => \A u \in Printers \ {t} : ~Writing(u)

(* The depth is the number of messages its holder is in beyond the first,  *)
(* and these are its outermost ones: the lock is given back by the         *)
(* outermost message and by no other.                                      *)
DepthIsExact ==
  panic.by = NoPrinter =>
    IF con.lock = NoPrinter THEN con.depth = 0
    ELSE {k \in DOMAIN calls[con.lock] : calls[con.lock][k].pc = "chars"} = 1 .. con.depth + 1

(* A panic never waits for the console: the thread that panics is nowhere  *)
(* in acquire_console() with the lock in use and held by another thread,   *)
(* which will not run again to release it.                                 *)
Waits(t) ==
  calls[t] # <<>> /\ Inner(t).pc = "acquire" /\ con.use /\ con.lock \notin {t, NoPrinter}

PanicNeverWaits == panic.by # NoPrinter => ~Waits(panic.by)

(* Lines of different threads are not mixed, nested calls keep the lock to  *)
(* the last, and a panic prints without it.                                 *)
ConsoleSafe == OutputNotMixed /\ DepthIsExact /\ PanicNeverWaits
=============================================================================
