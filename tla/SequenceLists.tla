--------------------------- MODULE SequenceLists ---------------------------
(***************************************************************************)
(* What lib/kernel/list.h promises: S maps each list to the sequence of    *)
(* its elements, and each operator is what S is after the call.            *)
(***************************************************************************)
EXTENDS Integers, Sequences, FiniteSets

CONSTANT Key

Cut(s, i, j) == SubSeq(s, 1, i - 1) \o SubSeq(s, j + 1, Len(s))
Put(s, i, part) == SubSeq(s, 1, i - 1) \o part \o SubSeq(s, i, Len(s))

(* The elements of sequence S at the places with property P, in order.      *)
Pick(s, P(_)) ==
  LET In(n) == {i \in DOMAIN s : P(i) /\ Cardinality({k \in 1 .. i : P(k)}) = n}
  IN  [n \in 1 .. Cardinality({i \in DOMAIN s : P(i)}) |-> s[CHOOSE i \in In(n) : TRUE]]

PushFront(s, l, e) == [s EXCEPT ![l] = <<e>> \o @]
PushBack(s, l, e) == [s EXCEPT ![l] = Append(@, e)]

(* Behind the elements that are not greater, in a sorted list.              *)
InsertOrdered(s, l, e) ==
  [s EXCEPT ![l] = Put(@, Cardinality({i \in DOMAIN @ : Key[@[i]] <= Key[e]}) + 1, <<e>>)]

Remove(s, l, i) == [s EXCEPT ![l] = Cut(@, i, i)]
PopFront(s, l) == [s EXCEPT ![l] = Tail(@)]
PopBack(s, l) == [s EXCEPT ![l] = SubSeq(@, 1, Len(@) - 1)]

(* Elements I to J of list L go in front of place N of list K.              *)
Splice(s, l, i, j, k, n) ==
  LET place == IF k = l /\ n > j THEN n - (j - i + 1) ELSE n
  IN  [[s EXCEPT ![l] = Cut(@, i, j)] EXCEPT ![k] = Put(@, place, SubSeq(s[l], i, j))]

Reverse(s, l) == [s EXCEPT ![l] = [i \in DOMAIN @ |-> @[Len(@) + 1 - i]]]

(* The stable sort: the same elements in order, equal ones as they were.    *)
Sort(s, l) ==
  LET old == s[l]
      Before(i, j) == Key[old[i]] < Key[old[j]] \/ (Key[old[i]] = Key[old[j]] /\ i < j)
      Rank(i) == Cardinality({j \in DOMAIN old : Before(j, i)}) + 1
  IN  [s EXCEPT ![l] = [n \in DOMAIN old |-> old[CHOOSE i \in DOMAIN old : Rank(i) = n]]]

(* The elements equal to their predecessor leave the list.                  *)
Repeats(s, i) == i > 1 /\ Key[s[i - 1]] = Key[s[i]]
Unique(s, l) == [s EXCEPT ![l] = Pick(@, LAMBDA i : ~Repeats(s[l], i))]

(* They go to the end of list D.                                            *)
UniqueInto(s, l, d) == [Unique(s, l) EXCEPT ![d] = @ \o Pick(s[l], LAMBDA i : Repeats(s[l], i))]
=============================================================================
