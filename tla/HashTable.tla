----------------------------- MODULE HashTable -----------------------------
(***************************************************************************)
(* The hash table of lib/kernel/hash.c.  A table is a function from bucket *)
(* numbers to the sequences of their elements, with the count of elements. *)
(* The bounds of the code, four buckets at least and two elements for each *)
(* in the best case, are the constants MinBuckets and BestElems.           *)
(***************************************************************************)
EXTENDS Integers, Sequences, FiniteSets, SequencesExt, Bitwise

CONSTANTS HashElems,    \* the elements
          HashKey,      \* what less() compares
          HashValue,    \* what hash() returns for a key
          MinBuckets, BestElems

VARIABLES table,        \* the struct hash
          answer        \* the last call and what it returned

hvars == <<table, answer>>

NoElem == 0

bucket_cnt(h) == Len(h.buckets)

find_bucket(h, e) == (HashValue[HashKey[e]] & (bucket_cnt(h) - 1)) + 1

find_elem(h, b, e) ==
  LET hits == {i \in DOMAIN h.buckets[b] : HashKey[h.buckets[b][i]] = HashKey[e]}
  IN  IF hits = {} THEN NoElem ELSE h.buckets[b][Min(hits)]

insert_elem(h, b, e) == [buckets |-> [h.buckets EXCEPT ![b] = <<e>> \o @], elem_cnt |-> h.elem_cnt + 1]

remove_elem(h, b, e) ==
  [buckets |-> [h.buckets EXCEPT ![b] = SelectSeq(@, LAMBDA x : x # e)], elem_cnt |-> h.elem_cnt - 1]

turn_off_least_1bit(x) == x & (x - 1)
is_power_of_2(x) == x # 0 /\ turn_off_least_1bit(x) = 0

RECURSIVE DownToPower(_)
DownToPower(n) == IF is_power_of_2(n) THEN n ELSE DownToPower(turn_off_least_1bit(n))

BucketsFor(elem_cnt) == DownToPower(Max({elem_cnt \div BestElems, MinBuckets}))

(* Each element, in the order of the old buckets, goes to the front of its  *)
(* new bucket; the count is already the new one when the bucket is found.   *)
MoveAll(h, n) ==
  FoldLeft(LAMBDA t, e : [t EXCEPT !.buckets[find_bucket(t, e)] = <<e>> \o @],
           [h EXCEPT !.buckets = [b \in 1 .. n |-> <<>>]], FlattenSeq(h.buckets))

(* The tables rehash may leave: malloc may fail, and nothing changes.       *)
rehash(h) ==
  LET n == BucketsFor(h.elem_cnt)
  IN  IF n = bucket_cnt(h) THEN {h} ELSE {h, MoveAll(h, n)}

(* Elements of the table are visited bucket by bucket.  The iterator is the *)
(* bucket and the position in it; position 0 is the list head.              *)
hash_first == [bucket |-> 1, pos |-> 0]

RECURSIVE SkipEmpty(_, _)
SkipEmpty(h, i) ==
  IF i.pos <= Len(h.buckets[i.bucket]) THEN i
  ELSE IF i.bucket + 1 > bucket_cnt(h) THEN [i EXCEPT !.bucket = @ + 1]
  ELSE SkipEmpty(h, [bucket |-> i.bucket + 1, pos |-> 1])

hash_next(h, i) == SkipEmpty(h, [i EXCEPT !.pos = @ + 1])

RECURSIVE VisitFrom(_, _)
VisitFrom(h, i) ==
  LET n == hash_next(h, i)
  IN  IF n.bucket > bucket_cnt(h) THEN <<>>
      ELSE <<h.buckets[n.bucket][n.pos]>> \o VisitFrom(h, n)

hash_apply(h) == FlattenSeq(h.buckets)

hash_clear(h) == [buckets |-> [b \in DOMAIN h.buckets |-> <<>>], elem_cnt |-> 0]

-----------------------------------------------------------------------------
Members(h) == UNION {ToSet(h.buckets[b]) : b \in DOMAIN h.buckets}

hash_insert == \E e \in HashElems \ Members(table) :
  LET b == find_bucket(table, e)
      old == find_elem(table, b, e)
  IN  /\ table' \in rehash(IF old = NoElem THEN insert_elem(table, b, e) ELSE table)
      /\ answer' = [call |-> "insert", elem |-> e, ret |-> old]

hash_replace == \E e \in HashElems \ Members(table) :
  LET b == find_bucket(table, e)
      old == find_elem(table, b, e)
      without == IF old = NoElem THEN table ELSE remove_elem(table, b, old)
  IN  /\ table' \in rehash(insert_elem(without, b, e))
      /\ answer' = [call |-> "replace", elem |-> e, ret |-> old]

hash_find == \E e \in HashElems :
  /\ answer' = [call |-> "find", elem |-> e, ret |-> find_elem(table, find_bucket(table, e), e)]
  /\ UNCHANGED table

(* Wrong: the element is found and stays in the table.                      *)
hash_delete_Keep == \E e \in HashElems :
  /\ answer' = [call |-> "delete", elem |-> e, ret |-> find_elem(table, find_bucket(table, e), e)]
  /\ UNCHANGED table

hash_delete == \E e \in HashElems :
  LET b == find_bucket(table, e)
      found == find_elem(table, b, e)
  IN  /\ IF found = NoElem THEN UNCHANGED table
         ELSE table' \in rehash(remove_elem(table, b, found))
      /\ answer' = [call |-> "delete", elem |-> e, ret |-> found]

ClearTable ==
  /\ table' = hash_clear(table)
  /\ answer' = [call |-> "clear", elem |-> NoElem, ret |-> NoElem]

hash_init ==
  /\ table = [buckets |-> [b \in 1 .. MinBuckets |-> <<>>], elem_cnt |-> 0]
  /\ answer = [call |-> "clear", elem |-> NoElem, ret |-> NoElem]

HashNext == hash_insert \/ hash_replace \/ hash_find \/ hash_delete \/ ClearTable

HashSpec == hash_init /\ [][HashNext]_hvars
-----------------------------------------------------------------------------
(* Whatever calls were made, and whichever rehash ran out of memory, every  *)
(* element is in the bucket find_bucket names for it, once, no two equal    *)
(* elements are in the table and elem_cnt is their number.                  *)
ElementsInTheirBuckets ==
  /\ is_power_of_2(bucket_cnt(table))
  /\ \A b \in DOMAIN table.buckets : \A i \in DOMAIN table.buckets[b] :
       find_bucket(table, table.buckets[b][i]) = b
  /\ \A x, y \in Members(table) : x # y => HashKey[x] # HashKey[y]
  /\ Len(FlattenSeq(table.buckets)) = table.elem_cnt
  /\ Cardinality(Members(table)) = table.elem_cnt

(* hash_next after hash_first visits every element once and then stops, in  *)
(* the order of hash_apply.                                                 *)
IteratorVisitsAll == VisitFrom(table, hash_first) = hash_apply(table)

(* Seen from outside the table is a set with one element of each key: a     *)
(* call returns the equal element and adds or removes what hash.c says, and *)
(* the rehash at its end loses nothing: every element is in its bucket, and *)
(* the iterator visits it.                                                  *)
HashSetSteps ==
  [][LET old == Members(table)
         new == Members(table')
         call == answer'.call
         equal == {x \in old : answer'.elem # NoElem /\ HashKey[x] = HashKey[answer'.elem]}
     IN  /\ answer'.ret = IF equal = {} THEN NoElem ELSE CHOOSE x \in equal : TRUE
         /\ new = CASE call = "insert" -> IF equal = {} THEN old \cup {answer'.elem} ELSE old
                    [] call = "replace" -> (old \ equal) \cup {answer'.elem}
                    [] call = "delete" -> old \ equal
                    [] call = "find" -> old
                    [] call = "clear" -> {}
         /\ (ElementsInTheirBuckets /\ IteratorVisitsAll)']_hvars
=============================================================================
