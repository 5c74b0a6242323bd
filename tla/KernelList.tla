----------------------------- MODULE KernelList -----------------------------
(***************************************************************************)
(* The doubly linked lists of lib/kernel/list.c at the level of pointers.  *)
(* Two lists share the elements Elems; the heap maps each list_elem to its *)
(* next and prev pointers.  The client that removed an element is done with *)
(* it: its pointers are cleared.  The comparison is that of the keys.       *)
(***************************************************************************)
EXTENDS Integers, Sequences, FiniteSets

CONSTANTS Elems, Key

VARIABLE heap

NullElem == 0
HeadOf(list) == 100 + list
TailOf(list) == 200 + list
Lists == {1, 2}
NoList == 0
ListNodes == Elems \cup {HeadOf(l) : l \in Lists} \cup {TailOf(l) : l \in Lists}

less(a, b) == Key[a] < Key[b]

is_interior(h, e) == h.prev[e] # NullElem /\ h.next[e] # NullElem

list_init(h, l) ==
  [next |-> [h.next EXCEPT ![HeadOf(l)] = TailOf(l), ![TailOf(l)] = NullElem],
   prev |-> [h.prev EXCEPT ![HeadOf(l)] = NullElem, ![TailOf(l)] = HeadOf(l)]]

list_begin(h, l) == h.next[HeadOf(l)]
list_end(l) == TailOf(l)
list_empty(h, l) == list_begin(h, l) = list_end(l)

list_insert(h, before, e) ==
  LET p == h.prev[before]
  IN  [next |-> [h.next EXCEPT ![e] = before, ![p] = e],
       prev |-> [h.prev EXCEPT ![e] = p, ![before] = e]]

list_push_front(h, l, e) == list_insert(h, list_begin(h, l), e)
list_push_back(h, l, e) == list_insert(h, list_end(l), e)

(* Wrong: the back pointer of the next element is left alone.               *)
list_remove_OneWay(h, e) == [h EXCEPT !.next[h.prev[e]] = h.next[e]]

list_remove(h, e) ==
  [next |-> [h.next EXCEPT ![h.prev[e]] = h.next[e]],
   prev |-> [h.prev EXCEPT ![h.next[e]] = h.prev[e]]]

list_front(h, l) == h.next[HeadOf(l)]
list_back(h, l) == h.prev[TailOf(l)]
list_pop_front(h, l) == list_remove(h, list_front(h, l))
list_pop_back(h, l) == list_remove(h, list_back(h, l))

RECURSIVE SizeFrom(_, _, _)
SizeFrom(h, e, end) == IF e = end THEN 0 ELSE 1 + SizeFrom(h, h.next[e], end)

list_size(h, l) == SizeFrom(h, list_begin(h, l), list_end(l))

(* FIRST to LAST, LAST excluded, are cut out before BEFORE->prev is read.   *)
list_splice(h, before, first, last_) ==
  LET last == h.prev[last_]
      cut == [next |-> [h.next EXCEPT ![h.prev[first]] = h.next[last]],
              prev |-> [h.prev EXCEPT ![h.next[last]] = h.prev[first]]]
      p == cut.prev[before]
  IN  IF first = last_ THEN h
      ELSE [next |-> [cut.next EXCEPT ![last] = before, ![p] = first],
            prev |-> [cut.prev EXCEPT ![first] = p, ![before] = last]]

(* After the swap of its pointers the next element is at prev.              *)
RECURSIVE ReverseFrom(_, _, _)
ReverseFrom(h, e, end) ==
  IF e = end THEN h
  ELSE ReverseFrom([next |-> [h.next EXCEPT ![e] = h.prev[e]],
                    prev |-> [h.prev EXCEPT ![e] = h.next[e]]], h.next[e], end)

list_reverse(h, l) ==
  LET r == ReverseFrom(h, list_begin(h, l), list_end(l))
      first == r.prev[TailOf(l)]
      last == r.next[HeadOf(l)]
  IN  IF list_empty(h, l) THEN h
      ELSE [next |-> [r.next EXCEPT ![HeadOf(l)] = first, ![last] = r.prev[first]],
            prev |-> [r.prev EXCEPT ![TailOf(l)] = last, ![first] = r.next[last]]]

RECURSIVE is_sorted(_, _, _)
is_sorted(h, a, b) ==
  IF a = b \/ h.next[a] = b THEN TRUE
  ELSE ~less(h.next[a], a) /\ is_sorted(h, h.next[a], b)

RECURSIVE find_end_of_run(_, _, _)
find_end_of_run(h, a, b) ==
  LET n == h.next[a]
  IN  IF n # b /\ ~less(n, h.prev[n]) THEN find_end_of_run(h, n, b) ELSE n

(* Wrong: equal elements of the second run overtake those of the first.     *)
StaysFirst_Strict(a, b) == less(a, b)

(* The merge leaves A where it is and moves on.                             *)
StaysFirst(a, b) == ~less(b, a)

RECURSIVE inplace_merge(_, _, _, _)
inplace_merge(h, a0, a1b0, b1) ==
  IF a0 = a1b0 \/ a1b0 = b1 THEN h
  ELSE IF StaysFirst(a0, a1b0) THEN inplace_merge(h, h.next[a0], a1b0, b1)
  ELSE inplace_merge(list_splice(h, a0, a1b0, h.next[a1b0]), a0, h.next[a1b0], b1)

(* One pass from A0: the heap and the number of runs it puts out.           *)
RECURSIVE MergePass(_, _, _, _)
MergePass(h, a0, end, runs) ==
  LET a1b0 == find_end_of_run(h, a0, end)
      b1 == find_end_of_run(h, a1b0, end)
  IN  IF a0 = end THEN [heap |-> h, runs |-> runs]
      ELSE IF a1b0 = end THEN [heap |-> h, runs |-> runs + 1]
      ELSE MergePass(inplace_merge(h, a0, a1b0, b1), b1, end, runs + 1)

RECURSIVE list_sort(_, _)
list_sort(h, l) ==
  LET pass == MergePass(h, list_begin(h, l), list_end(l), 0)
  IN  IF pass.runs > 1 THEN list_sort(pass.heap, l) ELSE pass.heap

GoesBefore(elem, e) == less(elem, e)

RECURSIVE FirstAfter(_, _, _, _)
FirstAfter(h, e, end, elem) ==
  IF e = end \/ GoesBefore(elem, e) THEN e ELSE FirstAfter(h, h.next[e], end, elem)

list_insert_ordered(h, l, elem) ==
  list_insert(h, FirstAfter(h, list_begin(h, l), list_end(l), elem), elem)

RECURSIVE UniqueFrom(_, _, _, _)
UniqueFrom(h, elem, end, duplicates) ==
  LET next == h.next[elem]
  IN  IF next = end THEN h
      ELSE IF ~less(elem, next) /\ ~less(next, elem)
      THEN UniqueFrom(IF duplicates = NoList THEN list_remove(h, next)
                      ELSE list_push_back(list_remove(h, next), duplicates, next), elem, end, duplicates)
      ELSE UniqueFrom(h, next, end, duplicates)

list_unique(h, l, duplicates) ==
  IF list_empty(h, l) THEN h
  ELSE UniqueFrom(h, list_begin(h, l), list_end(l), duplicates)

Exceeds(e, max) == less(max, e)

RECURSIVE MaxFrom(_, _, _, _)
MaxFrom(h, max, e, end) ==
  IF e = end THEN max ELSE MaxFrom(h, IF Exceeds(e, max) THEN e ELSE max, h.next[e], end)

RECURSIVE MinFrom(_, _, _, _)
MinFrom(h, min, e, end) ==
  IF e = end THEN min ELSE MinFrom(h, IF less(e, min) THEN e ELSE min, h.next[e], end)

list_max(h, l) ==
  IF list_empty(h, l) THEN list_end(l)
  ELSE MaxFrom(h, list_begin(h, l), h.next[list_begin(h, l)], list_end(l))

list_min(h, l) ==
  IF list_empty(h, l) THEN list_end(l)
  ELSE MinFrom(h, list_begin(h, l), h.next[list_begin(h, l)], list_end(l))

-----------------------------------------------------------------------------
(* The clients: any call whose arguments are in the lists the code expects. *)

RECURSIVE WalkFrom(_, _, _, _)
WalkFrom(h, e, end, dir) ==
  IF e \in {end, NullElem} THEN <<>> ELSE <<e>> \o WalkFrom(h, h[dir][e], end, dir)

(* The elements of list L, walked forwards.                                 *)
Contents(h, l) == WalkFrom(h, list_begin(h, l), list_end(l), "next")
ElemsOf(h, l) == {Contents(h, l)[i] : i \in 1 .. Len(Contents(h, l))}
Listed == UNION {ElemsOf(heap, l) : l \in Lists}

(* The elements that left the lists are reused for something else.          *)
Reuse(h, left) ==
  [next |-> [n \in ListNodes |-> IF n \in left THEN NullElem ELSE h.next[n]],
   prev |-> [n \in ListNodes |-> IF n \in left THEN NullElem ELSE h.prev[n]]]

PushFront == \E l \in Lists, e \in Elems \ Listed : heap' = list_push_front(heap, l, e)
PushBack == \E l \in Lists, e \in Elems \ Listed : heap' = list_push_back(heap, l, e)
InsertOrdered == \E l \in Lists, e \in Elems \ Listed :
  /\ is_sorted(heap, list_begin(heap, l), list_end(l))
  /\ heap' = list_insert_ordered(heap, l, e)
RemoveElem == \E e \in Listed : heap' = Reuse(list_remove(heap, e), {e})
PopFront == \E l \in Lists :
  ~list_empty(heap, l) /\ heap' = Reuse(list_pop_front(heap, l), {list_front(heap, l)})
PopBack == \E l \in Lists :
  ~list_empty(heap, l) /\ heap' = Reuse(list_pop_back(heap, l), {list_back(heap, l)})

(* A part of list L moves in front of an element of either list outside it. *)
SpliceRange == \E l \in Lists : \E i, j \in 1 .. list_size(heap, l) :
  /\ i <= j
  /\ LET c == Contents(heap, l)
         part == {c[k] : k \in i .. j}
     IN  \E before \in (Listed \cup {TailOf(k) : k \in Lists}) \ part :
           heap' = list_splice(heap, before, c[i], heap.next[c[j]])

ReverseList == \E l \in Lists : heap' = list_reverse(heap, l)
SortList == \E l \in Lists : heap' = list_sort(heap, l)
UniqueList == \E l \in Lists : \E duplicates \in {NoList, 3 - l} :
  LET h == list_unique(heap, l, duplicates)
  IN  heap' = IF duplicates = NoList THEN Reuse(h, ElemsOf(heap, l) \ ElemsOf(h, l)) ELSE h

ListInit ==
  heap = LET clear == [next |-> [n \in ListNodes |-> NullElem], prev |-> [n \in ListNodes |-> NullElem]]
         IN  list_init(list_init(clear, 1), 2)

ListNext ==
  \/ PushFront \/ PushBack \/ InsertOrdered \/ RemoveElem \/ PopFront \/ PopBack
  \/ SpliceRange \/ ReverseList \/ SortList \/ UniqueList

ListSpec == ListInit /\ [][ListNext]_heap
-----------------------------------------------------------------------------
(* Walking a list backwards meets the elements of the forward walk in       *)
(* reverse, whatever calls of list.c built it; no element is on two lists;  *)
(* and is_interior holds of the elements on the lists.                      *)
ListsWellFormed ==
  /\ \A l \in Lists :
       LET there == Contents(heap, l)
           back == WalkFrom(heap, list_back(heap, l), HeadOf(l), "prev")
       IN  /\ there = [i \in 1 .. Len(back) |-> back[Len(back) + 1 - i]]
           /\ \A e \in ElemsOf(heap, l) : is_interior(heap, e)
  /\ ElemsOf(heap, 1) \cap ElemsOf(heap, 2) = {}

(* list_max and list_min return the earliest of the elements no other       *)
(* exceeds, and the tail of an empty list.                                  *)
ExtremesAreEarliest ==
  \A l \in Lists :
    LET c == Contents(heap, l)
        First(P(_)) == IF c = <<>> THEN TailOf(l)
                       ELSE c[CHOOSE i \in DOMAIN c : P(i) /\ \A k \in 1 .. i - 1 : ~P(k)]
    IN  /\ list_max(heap, l) = First(LAMBDA i : \A k \in DOMAIN c : ~less(c[i], c[k]))
        /\ list_min(heap, l) = First(LAMBDA i : \A k \in DOMAIN c : ~less(c[k], c[i]))

(* Along any sequence of calls the links of the lists stay consistent, and  *)
(* ties are broken the way the comments of list.c promise.                  *)
ListsSound == ListsWellFormed /\ ExtremesAreEarliest

View(h) == [l \in Lists |-> Contents(h, l)]
NodeAt(h, l, n) == IF n > list_size(h, l) THEN TailOf(l) ELSE Contents(h, l)[n]
Abstract == INSTANCE SequenceLists

(* Whatever calls came before, each call has on the two sequences of        *)
(* elements exactly the effect list.c documents for it, with every argument *)
(* it allows: what is pushed at one end is at that end, an ordered insert   *)
(* goes behind its equals, a splice moves the whole range and nothing else, *)
(* and sorting keeps equal elements in order.                               *)
ImplementsSequences ==
  LET s == View(heap)
  IN  /\ \A l \in Lists, e \in Elems \ Listed :
           /\ View(list_push_front(heap, l, e)) = Abstract!PushFront(s, l, e)
           /\ View(list_push_back(heap, l, e)) = Abstract!PushBack(s, l, e)
           /\ is_sorted(heap, list_begin(heap, l), list_end(l)) =>
                View(list_insert_ordered(heap, l, e)) = Abstract!InsertOrdered(s, l, e)
      /\ \A l \in Lists : \A i \in DOMAIN s[l] :
           /\ View(list_remove(heap, s[l][i])) = Abstract!Remove(s, l, i)
           /\ View(list_pop_front(heap, l)) = Abstract!PopFront(s, l)
           /\ View(list_pop_back(heap, l)) = Abstract!PopBack(s, l)
           /\ \A j \in i .. Len(s[l]), k \in Lists : \A n \in 1 .. Len(s[k]) + 1 :
                (k = l => n \notin i .. j) =>
                  View(list_splice(heap, NodeAt(heap, k, n), s[l][i], heap.next[s[l][j]]))
                    = Abstract!Splice(s, l, i, j, k, n)
      /\ \A l \in Lists :
           /\ View(list_reverse(heap, l)) = Abstract!Reverse(s, l)
           /\ View(list_sort(heap, l)) = Abstract!Sort(s, l)
           /\ View(list_unique(heap, l, NoList)) = Abstract!Unique(s, l)
           /\ View(list_unique(heap, l, 3 - l)) = Abstract!UniqueInto(s, l, 3 - l)
=============================================================================
