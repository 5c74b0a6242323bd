------------------------------- MODULE Bitmap -------------------------------
(***************************************************************************)
(* The bitmap of lib/kernel/bitmap.c: bit_cnt bits in elements of ElemBits *)
(* bits each.  The bits of the last element that no index reaches hold     *)
(* what malloc returned until a bitmap_read clears them.                   *)
(***************************************************************************)
EXTENDS Integers, Sequences, FiniteSets, FiniteSetsExt, Bitwise

CONSTANTS bit_cnt, ElemBits

VARIABLE bits        \* the elements, element k of the code at k + 1; NoBits before bitmap_create

BITMAP_ERROR == -1
NoBits == <<>>
ALL_ONES == 2 ^ ElemBits - 1

elem_idx(bit_idx) == bit_idx \div ElemBits + 1
bit_mask(bit_idx) == 2 ^ (bit_idx % ElemBits)
elem_cnt == (bit_cnt + ElemBits - 1) \div ElemBits

last_mask ==
  IF bit_cnt % ElemBits # 0 THEN 2 ^ (bit_cnt % ElemBits) - 1 ELSE ALL_ONES

bitmap_mark(b, i) == [b EXCEPT ![elem_idx(i)] = @ | bit_mask(i)]

bitmap_reset(b, i) == [b EXCEPT ![elem_idx(i)] = @ & (ALL_ONES - bit_mask(i))]
bitmap_flip(b, i) == [b EXCEPT ![elem_idx(i)] = @ ^^ bit_mask(i)]
bitmap_test(b, i) == (b[elem_idx(i)] & bit_mask(i)) # 0
bitmap_set(b, i, value) == IF value THEN bitmap_mark(b, i) ELSE bitmap_reset(b, i)

RECURSIVE bitmap_set_multiple(_, _, _, _)
bitmap_set_multiple(b, start, cnt, value) ==
  IF cnt = 0 THEN b
  ELSE bitmap_set_multiple(bitmap_set(b, start, value), start + 1, cnt - 1, value)

bitmap_set_all(b, value) == bitmap_set_multiple(b, 0, bit_cnt, value)

RECURSIVE bitmap_count(_, _, _, _)
bitmap_count(b, start, cnt, value) ==
  IF cnt = 0 THEN 0
  ELSE (IF bitmap_test(b, start) = value THEN 1 ELSE 0) + bitmap_count(b, start + 1, cnt - 1, value)

bitmap_contains(b, start, cnt, value) == \E i \in 0 .. cnt - 1 : bitmap_test(b, start + i) = value
bitmap_any(b, start, cnt) == bitmap_contains(b, start, cnt, TRUE)
bitmap_none(b, start, cnt) == ~bitmap_contains(b, start, cnt, TRUE)
bitmap_all(b, start, cnt) == ~bitmap_contains(b, start, cnt, FALSE)

(* Wrong: the group at the very end is not tried.                           *)
bitmap_scan_NoLast(b, start, cnt, value) ==
  LET hits == {i \in start .. bit_cnt - cnt - 1 : ~bitmap_contains(b, i, cnt, ~value)}
  IN  IF cnt > bit_cnt \/ hits = {} THEN BITMAP_ERROR ELSE Min(hits)

bitmap_scan(b, start, cnt, value) ==
  LET hits == {i \in start .. bit_cnt - cnt : ~bitmap_contains(b, i, cnt, ~value)}
  IN  IF cnt > bit_cnt \/ hits = {} THEN BITMAP_ERROR ELSE Min(hits)

-----------------------------------------------------------------------------
Bits == 0 .. bit_cnt - 1
Ranges == {r \in (0 .. bit_cnt) \X (0 .. bit_cnt) : r[1] + r[2] <= bit_cnt}

(* What malloc returns; what a bitmap_write stored some time ago.           *)
AnyElements == [1 .. elem_cnt -> 0 .. ALL_ONES]

ReadBack(b) == [b EXCEPT ![elem_cnt] = @ & last_mask]

bitmap_create == bits = NoBits /\ \E old \in AnyElements : bits' = bitmap_set_all(old, FALSE)

SetBits == bits # NoBits /\ \E r \in Ranges, v \in BOOLEAN : bits' = bitmap_set_multiple(bits, r[1], r[2], v)

FlipBit == bits # NoBits /\ \E i \in Bits : bits' = bitmap_flip(bits, i)

bitmap_scan_and_flip == bits # NoBits /\ \E start \in 0 .. bit_cnt, cnt \in 0 .. bit_cnt, v \in BOOLEAN :
  LET idx == bitmap_scan(bits, start, cnt, v)
  IN  idx # BITMAP_ERROR /\ bits' = bitmap_set_multiple(bits, idx, cnt, ~v)

bitmap_read == bits # NoBits /\ \E stored \in AnyElements : bits' = ReadBack(stored)

BitmapNext == bitmap_create \/ SetBits \/ FlipBit \/ bitmap_scan_and_flip \/ bitmap_read

BitmapSpec == bits = NoBits /\ [][BitmapNext]_bits
-----------------------------------------------------------------------------
On(b) == {i \in Bits : bitmap_test(b, i)}

(* A call that sets a range of bits sets exactly these, also where the      *)
(* range begins or ends in the middle of an element, and the counts and     *)
(* tests of a range agree with the bits in it.                              *)
RangesAreExact == bits # NoBits =>
  \A r \in Ranges :
    LET range == r[1] .. r[1] + r[2] - 1
    IN  /\ On(bitmap_set_multiple(bits, r[1], r[2], TRUE)) = On(bits) \cup range
        /\ On(bitmap_set_multiple(bits, r[1], r[2], FALSE)) = On(bits) \ range
        /\ bitmap_count(bits, r[1], r[2], TRUE) = Cardinality(On(bits) \cap range)
        /\ bitmap_all(bits, r[1], r[2]) = (range \subseteq On(bits))
        /\ bitmap_any(bits, r[1], r[2]) = ~bitmap_none(bits, r[1], r[2])

(* bitmap_scan finds the first group of CNT equal bits at or after START    *)
(* and reports an error only when there is none, up to the last bit.  The   *)
(* first group of no bits is START itself.                                  *)
ScanFindsFirst == bits # NoBits =>
  \A start \in 0 .. bit_cnt, cnt \in 0 .. bit_cnt + 1, v \in BOOLEAN :
    LET Fits(i) == i + cnt <= bit_cnt /\ \A k \in i .. i + cnt - 1 : (k \in On(bits)) = v
        idx == bitmap_scan(bits, start, cnt, v)
    IN  IF idx = BITMAP_ERROR THEN \A i \in start .. bit_cnt : ~Fits(i)
        ELSE idx >= start /\ Fits(idx) /\ \A i \in start .. idx - 1 : ~Fits(i)

(* "If CNT is zero, returns 0" (bitmap_scan_and_flip): the index where its  *)
(* scan stops is returned.                                                  *)
ScanOfNothingIsZero ==
  \A b \in AnyElements, start \in 0 .. bit_cnt, v \in BOOLEAN : bitmap_scan(b, start, 0, v) = 0

(* Reading the file back restores the bits that were written, whatever the  *)
(* unused bits of the last element held.                                    *)
ReadRestores == bits # NoBits => On(ReadBack(bits)) = On(bits)

(* Operations on the packed words are those on the single bits, up to the   *)
(* last word that is used in part, and survive a write to the file.         *)
BitmapsExact == RangesAreExact /\ ScanFindsFirst /\ ReadRestores
=============================================================================
