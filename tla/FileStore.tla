----------------------------- MODULE FileStore -----------------------------
(***************************************************************************)
(* What the file system promises programs about the data of their files:   *)
(* a file is a sequence of units that only a write changes, kept until no  *)
(* directory and no program refers to it.                                  *)
(***************************************************************************)
EXTENDS Naturals, Sequences

CONSTANTS
  Ids, Units,
  Sizes, MaxLength    \* what a write may be asked for
VARIABLE files      \* the data of each existing file

Zeros(n) == [i \in 1 .. n |-> 0]

(* DATA with BUFFER laid over it from OFFSET on, zeros in any gap.          *)
Overlay(data, offset, buffer) ==
  LET end == offset + Len(buffer)
      n == IF end > Len(data) THEN end ELSE Len(data)
  IN  [i \in 1 .. n |-> IF i \in offset + 1 .. end THEN buffer[i - offset]
                        ELSE IF i <= Len(data) THEN data[i] ELSE 0]

(* What a write should leave: all of it or, when it needs space that the disk
   does not have, nothing.                                                  *)
WriteResults(data, offset, buffer) ==
  LET whole == Overlay(data, offset, buffer)
  IN  IF Len(whole) > Len(data) THEN {data, whole} ELSE {whole}

(* What it may leave when the offset just past the end is taken for one of
   the file's: a write that would make the file one unit longer loses its
   last unit.                                                               *)
CutResults(data, offset, buffer) ==
  LET whole == Overlay(data, offset, buffer)
  IN  IF Len(whole) = Len(data) + 1 THEN {SubSeq(whole, 1, Len(data))}
      ELSE WriteResults(data, offset, buffer)

(* The steps, on the files before and after.                                *)
Keeps(old, new, S) == S \subseteq DOMAIN new /\ \A id \in S : new[id] = old[id]

Create(old, new) ==
  \E id \in Ids \ DOMAIN old :
    /\ DOMAIN new = DOMAIN old \cup {id}
    /\ new[id] = Zeros(Len(new[id]))
    /\ Keeps(old, new, DOMAIN old)

Write(old, new) ==
  \E id \in DOMAIN old :
    /\ DOMAIN new = DOMAIN old
    /\ Keeps(old, new, DOMAIN old \ {id})
    /\ \E offset \in 0 .. MaxLength, n \in Sizes, u \in Units :
         new[id] \in CutResults(old[id], offset, [i \in 1 .. n |-> u])

Discard(old, new) == DOMAIN new \subseteq DOMAIN old /\ Keeps(old, new, DOMAIN new)

Init == files = <<>>

Next == \E old \in {files}, new \in {files'} : Discard(old, new) \/ Create(old, new) \/ Write(old, new)

Spec == Init /\ [][Next]_files

=============================================================================
