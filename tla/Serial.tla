------------------------------- MODULE Serial -------------------------------
(***************************************************************************)
(* devices/intq.c, input.c and serial.c: two interrupt queues, the input   *)
(* buffer that interrupt handlers fill and threads empty, and the queue of *)
(* bytes to send, which threads fill and the handler empties.  Every       *)
(* function runs with interrupts off, so it is one step up to the point    *)
(* where it blocks.  Bytes are numbered, modulo ByteMod, in the order in   *)
(* which they are put into a queue.                                        *)
(***************************************************************************)
EXTENDS Integers, Sequences, FiniteSets

CONSTANTS Readers, Writers,   \* threads in input_getc; threads in serial_putc with interrupts on
          INTQ_BUFSIZE, ByteMod

Nobody == 0

(* A thread that sleeps is a reader or a writer, and Nobody is neither.     *)
(* Bytes that are in a queue together have different numbers.               *)
ASSUME SerialAssumption ==
  /\ Readers \cap Writers = {} /\ Nobody \notin Readers \cup Writers
  /\ INTQ_BUFSIZE \in Nat \ {0, 1} /\ ByteMod \in Nat /\ INTQ_BUFSIZE <= ByteMod

VARIABLES input, txq,         \* the two queues
          thread,             \* where each thread is
          ier,                \* the interrupt enable register
          rbr, thr,           \* a received byte is there; the transmit register is taken
          serial_mode,
          in_put, in_taken,   \* numbers of the next byte put and taken
          tx_put, tx_taken,
          assert_failed       \* the ASSERT of wait() failed

svars == <<input, txq, thread, ier, rbr, thr, serial_mode, in_put, in_taken, tx_put, tx_taken, assert_failed>>

intq_init == [buf |-> [i \in 0 .. INTQ_BUFSIZE - 1 |-> 0], head |-> 0, tail |-> 0,
              not_empty |-> Nobody, not_full |-> Nobody, lock |-> 1, waiters |-> <<>>]

next(pos) == (pos + 1) % INTQ_BUFSIZE
intq_empty(q) == q.head = q.tail

intq_full(q) == next(q.head) = q.tail
IntqCount(q) == (q.head - q.tail) % INTQ_BUFSIZE

(* The bodies after the loops, with signal(): the waiter is reset.          *)
PutByte(q, byte) == [q EXCEPT !.buf[q.head] = byte, !.head = next(@), !.not_empty = Nobody]
TakeByte(q) == [q EXCEPT !.tail = next(@), !.not_full = Nobody]

Inc(n) == (n + 1) % ByteMod

write_ier(tx, in) == [xmit |-> ~intq_empty(tx), recv |-> ~intq_full(in)]
Notify(tx, in) == IF serial_mode = "QUEUE" THEN write_ier(tx, in) ELSE ier

(* lock_acquire and wait() in one: the thread holds the lock and blocks, or *)
(* blocks for the lock.                                                     *)
LockOrWait(q, t, slot) ==
  IF q.lock = 1 THEN [q EXCEPT !.lock = 0, ![slot] = t] ELSE [q EXCEPT !.waiters = Append(@, t)]
Blocked(q) == IF q.lock = 1 THEN "waiting" ELSE "locking"

(* lock_release: sema_up makes the first waiter ready.                      *)
Unlock(q) == [q EXCEPT !.lock = 1, !.waiters = IF @ = <<>> THEN @ ELSE Tail(@)]
Unlocked(th, q) == IF q.waiters = <<>> THEN th ELSE [th EXCEPT ![Head(q.waiters)] = "retry"]

(* Wrong: signal() resets the waiter and does not make it ready.            *)
Woken_Never(th, t) == th

(* The thread signal() makes ready.                                         *)
Woken(th, t) == IF t = Nobody THEN th ELSE [th EXCEPT ![t] = "woken"]

SerialInit ==
  /\ input = intq_init /\ txq = intq_init
  /\ thread = [t \in Readers \cup Writers |-> "out"]
  /\ ier = [xmit |-> FALSE, recv |-> FALSE]
  /\ rbr = FALSE /\ thr = FALSE
  /\ serial_mode = "POLL"
  /\ in_put = 0 /\ in_taken = 0 /\ tx_put = 0 /\ tx_taken = 0
  /\ assert_failed = FALSE

-----------------------------------------------------------------------------
(* input_getc from the test of the loop on, with queue Q and threads TH as  *)
(* the steps before it left them.                                           *)
GetLoop(t, q, th) ==
  IF intq_empty(q)
  THEN /\ input' = LockOrWait(q, t, "not_empty")
       /\ thread' = [th EXCEPT ![t] = Blocked(q)]
       /\ UNCHANGED <<ier, in_taken>>
  ELSE /\ input' = TakeByte(q)
       /\ thread' = [Woken(th, q.not_full) EXCEPT ![t] = "out"]
       /\ in_taken' = Inc(in_taken)
       /\ ier' = Notify(txq, TakeByte(q))

(* After lock_acquire returns: wait() asserts that the queue is empty.      *)
input_getc(t) ==
  /\ \/ thread[t] = "out" /\ GetLoop(t, input, thread) /\ UNCHANGED assert_failed
     \/ thread[t] = "woken" /\ GetLoop(t, Unlock(input), Unlocked(thread, input)) /\ UNCHANGED assert_failed
     \/ /\ thread[t] = "retry"
        /\ assert_failed' = (input.lock = 1 /\ ~intq_empty(input))
        /\ IF assert_failed' THEN UNCHANGED <<input, thread>>
           ELSE /\ input' = LockOrWait(input, t, "not_empty")
                /\ thread' = [thread EXCEPT ![t] = Blocked(input)]
        /\ UNCHANGED <<ier, in_taken>>
  /\ UNCHANGED <<txq, rbr, thr, serial_mode, in_put, tx_put, tx_taken>>

PutLoop(t, q, th) ==
  IF intq_full(q)
  THEN /\ txq' = LockOrWait(q, t, "not_full")
       /\ thread' = [th EXCEPT ![t] = Blocked(q)]
       /\ UNCHANGED <<ier, tx_put>>
  ELSE /\ txq' = PutByte(q, tx_put)
       /\ thread' = [Woken(th, q.not_empty) EXCEPT ![t] = "out"]
       /\ tx_put' = Inc(tx_put)
       /\ ier' = write_ier(PutByte(q, tx_put), input)

serial_putc(t) ==
  /\ serial_mode = "QUEUE"
  /\ \/ thread[t] = "out" /\ PutLoop(t, txq, thread) /\ UNCHANGED assert_failed
     \/ thread[t] = "woken" /\ PutLoop(t, Unlock(txq), Unlocked(thread, txq)) /\ UNCHANGED assert_failed
     \/ /\ thread[t] = "retry"
        /\ assert_failed' = (txq.lock = 1 /\ ~intq_full(txq))
        /\ IF assert_failed' THEN UNCHANGED <<txq, thread>>
           ELSE /\ txq' = LockOrWait(txq, t, "not_full")
                /\ thread' = [thread EXCEPT ![t] = Blocked(txq)]
        /\ UNCHANGED <<ier, tx_put>>
  /\ UNCHANGED <<input, rbr, thr, serial_mode, in_put, in_taken, tx_taken>>

(* A caller with interrupts off sends the oldest byte by polling when the   *)
(* queue is full; the port is waited for.                                   *)
PollOut(q) == IF intq_full(q) THEN [q |-> TakeByte(q), sent |-> 1] ELSE [q |-> q, sent |-> 0]

serial_putc_off ==
  LET p == PollOut(txq)
      q == PutByte(p.q, tx_put)
  IN  /\ serial_mode = "QUEUE"
      /\ txq' = q
      /\ tx_put' = Inc(tx_put)
      /\ tx_taken' = (tx_taken + p.sent) % ByteMod
      /\ thr' = (thr \/ p.sent = 1)
      /\ thread' = IF p.sent = 1 THEN Woken(thread, txq.not_full) ELSE thread
      /\ ier' = write_ier(q, input)
      /\ UNCHANGED <<input, rbr, serial_mode, in_put, in_taken, assert_failed>>

(* Before serial_init_queue a byte is sent by polling.                      *)
putc_poll ==
  /\ serial_mode = "POLL"
  /\ thr' = TRUE
  /\ UNCHANGED <<input, txq, thread, ier, rbr, serial_mode, in_put, in_taken, tx_put, tx_taken, assert_failed>>

serial_init_queue ==
  /\ serial_mode = "POLL"
  /\ serial_mode' = "QUEUE"
  /\ ier' = write_ier(txq, input)
  /\ UNCHANGED <<input, txq, thread, rbr, thr, in_put, in_taken, tx_put, tx_taken, assert_failed>>

(* The bytes leave in order; the interrupt enable register stays.           *)
serial_flush ==
  /\ ~intq_empty(txq)
  /\ txq' = [txq EXCEPT !.tail = txq.head, !.not_full = Nobody]
  /\ thread' = Woken(thread, txq.not_full)
  /\ tx_taken' = tx_put
  /\ thr' = TRUE
  /\ UNCHANGED <<input, ier, rbr, serial_mode, in_put, in_taken, tx_put, assert_failed>>

-----------------------------------------------------------------------------
(* The port raises the interrupt while an enabled condition holds.          *)
Raised == (ier.recv /\ rbr) \/ (ier.xmit /\ ~thr)

serial_interrupt ==
  LET receives == rbr /\ ~intq_full(input)
      sends == ~thr /\ ~intq_empty(txq)
      in == IF receives THEN PutByte(input, in_put) ELSE input
      tx == IF sends THEN TakeByte(txq) ELSE txq
      th == IF receives THEN Woken(thread, input.not_empty) ELSE thread
  IN  /\ Raised
      /\ input' = in /\ txq' = tx
      /\ thread' = IF sends THEN Woken(th, txq.not_full) ELSE th
      /\ rbr' = (rbr /\ ~receives) /\ thr' = (thr \/ sends)
      /\ in_put' = IF receives THEN Inc(in_put) ELSE in_put
      /\ tx_taken' = IF sends THEN Inc(tx_taken) ELSE tx_taken
      /\ ier' = write_ier(tx, in)
      /\ UNCHANGED <<serial_mode, in_taken, tx_put, assert_failed>>

(* The end of keyboard_interrupt: a character, dropped when there is no     *)
(* room for it.                                                             *)
KeyPressed ==
  /\ ~intq_full(input)
  /\ input' = PutByte(input, in_put)
  /\ thread' = Woken(thread, input.not_empty)
  /\ in_put' = Inc(in_put)
  /\ ier' = Notify(txq, PutByte(input, in_put))
  /\ UNCHANGED <<txq, rbr, thr, serial_mode, in_taken, tx_put, tx_taken, assert_failed>>

(* The port: a byte arrives, or the byte in the transmit register is gone.  *)
ByteArrives == ~rbr /\ rbr' = TRUE
  /\ UNCHANGED <<input, txq, thread, ier, thr, serial_mode, in_put, in_taken, tx_put, tx_taken, assert_failed>>
ByteLeaves == thr /\ thr' = FALSE
  /\ UNCHANGED <<input, txq, thread, ier, rbr, serial_mode, in_put, in_taken, tx_put, tx_taken, assert_failed>>

SerialNext ==
  /\ ~assert_failed
  /\ \/ \E t \in Readers : input_getc(t)
     \/ \E t \in Writers : serial_putc(t)
     \/ serial_putc_off \/ putc_poll \/ serial_init_queue \/ serial_flush
     \/ serial_interrupt \/ KeyPressed \/ ByteArrives \/ ByteLeaves

SerialSpec == SerialInit /\ [][SerialNext]_svars
-----------------------------------------------------------------------------
(* The bytes of queue Q from the oldest on.                                 *)
InOrder(q, first, end) ==
  /\ IntqCount(q) = (end - first) % ByteMod
  /\ \A i \in 0 .. IntqCount(q) - 1 : q.buf[(q.tail + i) % INTQ_BUFSIZE] = (first + i) % ByteMod

(* Both queues are first in, first out and lose no byte, also when the      *)
(* buffer is full, when it wraps and when bytes are sent by polling.        *)
BytesInOrder == InOrder(input, in_taken, in_put) /\ InOrder(txq, tx_taken, tx_put)

(* No wake-up is lost: a reader sleeps only while the input is empty, a     *)
(* writer while the queue to send is full, and a thread that sleeps for the *)
(* lock has somebody who will release it.                                   *)
SleepersHaveReason ==
  /\ \A t \in Readers : thread[t] = "waiting" => intq_empty(input) /\ input.not_empty = t
  /\ \A t \in Writers : thread[t] = "waiting" => intq_full(txq) /\ txq.not_full = t
  /\ \A q \in {input, txq} :
       (q.waiters # <<>> /\ q.lock = 1) => \E t \in Readers \cup Writers : thread[t] = "retry"

(* In queue mode a byte to send always has the transmit interrupt enabled,  *)
(* and the receive interrupt is enabled exactly while there is room, so     *)
(* that the handler is never called again and again for nothing.            *)
IerCoversQueues ==
  serial_mode = "QUEUE" => (~intq_empty(txq) => ier.xmit) /\ (ier.recv = ~intq_full(input))

(* The assertion of wait(): the queue is still empty, or still full, when   *)
(* the thread that got the lock goes to sleep.                              *)
WaitAssertHolds == ~assert_failed

(* No byte is lost, doubled or overtaken between a caller and the line, and *)
(* nobody sleeps on a queue that no interrupt will serve, up to the first   *)
(* failure of wait()'s assertion (WaitAssertHolds).                         *)
NoByteLost == BytesInOrder /\ SleepersHaveReason /\ IerCoversQueues
=============================================================================
