----------------------------- MODULE MCComments -----------------------------
(***************************************************************************)
(* What comments and an assertion of the library, the block allocator and  *)
(* the interrupt queues say and the code does not do.  The functions are   *)
(* tried on every input of the bounds; of the three parts with state each  *)
(* runs until its claim has failed, and then the next one.                 *)
(***************************************************************************)
EXTENDS MCLibrary, Malloc, Serial

CONSTANTS r1, r2, w1

TwoReaders == {r1, r2}
OneWriter == {w1}

comment_vars == <<mcvars, mvars, svars>>

CommentsInit ==
  /\ part = "archive" /\ call = [f |-> "none"] /\ done = FALSE /\ ret = <<>>
  /\ ListInit /\ hash_init /\ bits = NoBits /\ UtilInit
  /\ MallocStart /\ SerialInit

CommentsNext ==
  /\ UNCHANGED <<part, lvars, heap, hvars, bits>>
  /\ \/ BlocksLargeEnough /\ MallocNext /\ UNCHANGED <<uvars, svars>>
     \/ ~BlocksLargeEnough /\ EndIsTwoSectors /\ UtilNext /\ UNCHANGED <<mvars, svars>>
     \/ ~BlocksLargeEnough /\ ~EndIsTwoSectors /\ SerialNext /\ UNCHANGED <<mvars, uvars>>

CommentsSpec == CommentsInit /\ [][CommentsNext]_comment_vars

(* One of these claims holds: memmove returns DST, strlcat always writes a  *)
(* terminator, umod64 returns the remainder, a scan for no bits returns 0,  *)
(* malloc and calloc return a block of the size asked for, an archive ends  *)
(* in two sectors of zeros, and wait() of intq.c finds the queue as its     *)
(* assertion says.  A state in which it is false refutes each of them.      *)
LibraryCommentHolds ==
  \/ BlocksLargeEnough
  \/ EndIsTwoSectors
  \/ WaitAssertHolds
  \/ MemmoveReturnsDst
  \/ AlwaysTerminated
  \/ RemainderReturned
  \/ ScanOfNothingIsZero
=============================================================================
