------------------------------- MODULE Stdlib -------------------------------
(***************************************************************************)
(* lib/stdlib.c and lib/arithmetic.c.  An array is a sequence of elements, *)
(* the comparison is that of Compare on the field `key'.  Words have       *)
(* WordBits bits where the code has 32; WordBits is a power of two.        *)
(***************************************************************************)
EXTENDS Integers, Sequences, FiniteSets

CONSTANT WordBits, IntLimit

B == 2 ^ WordBits
B2 == B * B

-----------------------------------------------------------------------------
(* Sorting and searching.                                                   *)

Compare(a, b) == IF a.key < b.key THEN -1 ELSE IF a.key > b.key THEN 1 ELSE 0

do_swap(array, i, j) == [array EXCEPT ![i] = array[j], ![j] = array[i]]

do_compare(array, i, j) == Compare(array[i], array[j])

RECURSIVE heapify(_, _, _)
heapify(array, i, cnt) ==
  LET left == 2 * i
      right == 2 * i + 1
      max1 == IF left <= cnt /\ do_compare(array, left, i) > 0 THEN left ELSE i
      max == IF right <= cnt /\ do_compare(array, right, max1) > 0 THEN right ELSE max1
  IN  IF max = i THEN array ELSE heapify(do_swap(array, i, max), max, cnt)

RECURSIVE BuildHeap(_, _)
BuildHeap(array, i) ==
  IF i = 0 THEN array ELSE BuildHeap(heapify(array, i, Len(array)), i - 1)

RECURSIVE SortHeap(_, _)
SortHeap(array, i) ==
  IF i <= 1 THEN array
  ELSE SortHeap(heapify(do_swap(array, 1, i), 1, i - 1), i - 1)

sort(array) == SortHeap(BuildHeap(array, Len(array) \div 2), Len(array))

UpperHalf(middle) == middle + 1

(* FIRST and LAST delimit the elements left, LAST excluded; 0 is no match.  *)
RECURSIVE SearchRange(_, _, _, _)
SearchRange(key, array, first, last) ==
  LET middle == first + (last - first) \div 2
      cmp == Compare([key |-> key], array[middle])
  IN  IF first >= last THEN 0
      ELSE IF cmp < 0 THEN SearchRange(key, array, first, middle)
      ELSE IF cmp > 0 THEN SearchRange(key, array, UpperHalf(middle), last)
      ELSE middle

binary_search(key, array) == SearchRange(key, array, 1, Len(array) + 1)

-----------------------------------------------------------------------------
(* atoi: S is a sequence of characters, " ", "+", "-" and the digits 0..9   *)
(* as <<"d", n>>.  The value is parsed as negative; IntLimit is -INT_MIN.   *)

RECURSIVE SkipSpace(_)
SkipSpace(s) == IF s # <<>> /\ Head(s) = <<" ">> THEN SkipSpace(Tail(s)) ELSE s

NextDigit(value, d) == value * 10 - d

(* The value, or "overflow" where the int overflows.                        *)
RECURSIVE ParseDigits(_, _)
ParseDigits(s, value) ==
  IF s = <<>> \/ Head(s)[1] # "d" THEN value
  ELSE LET next == NextDigit(value, Head(s)[2])
       IN  IF next \in -IntLimit .. IntLimit - 1 THEN ParseDigits(Tail(s), next)
           ELSE IntLimit

atoi(string) ==
  LET s == SkipSpace(string)
      negative == s # <<>> /\ Head(s) = <<"-">>
      value == ParseDigits(IF s # <<>> /\ Head(s) \in {<<"+">>, <<"-">>} THEN Tail(s) ELSE s, 0)
  IN  IF negative THEN value ELSE -value

-----------------------------------------------------------------------------
(* 64-bit division out of 32-bit steps.                                     *)

(* The instruction traps when the quotient does not fit; -1 stands for it.  *)
divl(n, d) == IF n \div d < B THEN n \div d ELSE -1

(* One step per power of two: 16, 8, 4, 2, 1 in the code.                   *)
RECURSIVE nlzFrom(_, _)
nlzFrom(x, step) ==
  IF step = 0 THEN 0
  ELSE IF x < 2 ^ (WordBits - step) THEN step + nlzFrom((x * 2 ^ step) % B, step \div 2)
  ELSE nlzFrom(x, step \div 2)

nlz(x) == nlzFrom(x, WordBits \div 2)

(* Wrong: the estimate is taken for the quotient.                           *)
Correct_Never(n, d, q) == q

Correct(n, d, q) == IF (n - (q - 1) * d) % B2 < d THEN q - 1 ELSE q

udiv64(n, d) ==
  LET n1 == n \div B
      n0 == n % B
      s == nlz(d \div B)
      q == divl(n \div 2, ((d * 2 ^ s) % B2) \div B) \div 2 ^ (WordBits - 1 - s)
  IN  IF d \div B = 0 THEN (divl(B * (n1 % d) + n0, d) + B * (n1 \div d)) % B2
      ELSE IF n < d THEN 0 ELSE Correct(n, d, q)

Unsigned(x) == x % B2
Signed(x, modulus) == IF x % modulus >= modulus \div 2 THEN (x % modulus) - modulus ELSE x % modulus

(* The remainder is returned through a 32-bit type.                         *)
umod64(n, d) == Unsigned(n - d * udiv64(n, d)) % B

sdiv64(n, d) ==
  LET n_abs == IF n >= 0 THEN n ELSE Unsigned(-n)
      d_abs == IF d >= 0 THEN d ELSE Unsigned(-d)
      q_abs == udiv64(n_abs, d_abs)
  IN  IF (n < 0) = (d < 0) THEN Signed(q_abs, B2) ELSE Signed(-q_abs, B2)

smod64(n, d) == Signed(n - d * sdiv64(n, d), B)
=============================================================================
