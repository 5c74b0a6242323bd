------------------------------- MODULE Stdio -------------------------------
(***************************************************************************)
(* The formatted output of lib/stdio.c.  A format and the output are       *)
(* sequences of one-character strings.  The widths of the C types are      *)
(* scaled: CharBits < ShortBits < IntBits, and intmax_t has twice IntBits. *)
(* BufSize is the 64 bytes of format_integer's buffer.                     *)
(***************************************************************************)
EXTENDS Integers, Sequences, FiniteSetsExt

CONSTANTS CharBits, ShortBits, IntBits, BufSize, PerLine

DIGITS == <<"0", "1", "2", "3", "4", "5", "6", "7", "8", "9", "a", "b", "c", "d", "e", "f">>
UPPER_DIGITS == [i \in 1 .. 10 |-> DIGITS[i]] \o <<"A", "B", "C", "D", "E", "F">>
FLAGS == {"-", "+", " ", "#", "0", "'"}
Decimal == {"0", "1", "2", "3", "4", "5", "6", "7", "8", "9"}

base_d == [base |-> 10, digits |-> DIGITS, x |-> <<>>, group |-> 3]
base_o == [base |-> 8, digits |-> DIGITS, x |-> <<>>, group |-> 3]
base_x == [base |-> 16, digits |-> DIGITS, x |-> <<"0", "x">>, group |-> 4]
base_X == [base |-> 16, digits |-> UPPER_DIGITS, x |-> <<"0", "X">>, group |-> 4]

Repeat(ch, n) == [i \in 1 .. n |-> ch]
Backwards(s) == [i \in DOMAIN s |-> s[Len(s) + 1 - i]]

(* output_dup with a count that may be negative.                            *)
output_dup(ch, cnt) == Repeat(ch, Max({cnt, 0}))

-----------------------------------------------------------------------------
(* parse_conversion, from position P of format F: the conversion, where its *)
(* letter is, and the arguments left after a `*'.                           *)

CharAt(f, p) == IF p <= Len(f) THEN f[p] ELSE ""
DigitValue(ch) == CHOOSE d \in 0 .. 9 : DIGITS[d + 1] = ch

RECURSIVE SkipWhile(_, _, _)
SkipWhile(f, p, set) == IF CharAt(f, p) \in set THEN SkipWhile(f, p + 1, set) ELSE p

RECURSIVE NumberAt(_, _, _)
NumberAt(f, p, n) ==
  IF CharAt(f, p) \in Decimal THEN NumberAt(f, p + 1, n * 10 + DigitValue(f[p])) ELSE n

(* A number, or the next argument for a `*'.                                *)
ParseCount(f, p, args) ==
  IF CharAt(f, p) = "*" THEN [p |-> p + 1, n |-> Head(args), args |-> Tail(args)]
  ELSE [p |-> SkipWhile(f, p, Decimal), n |-> NumberAt(f, p, 0), args |-> args]

ParseType(f, p) ==
  LET c == CharAt(f, p)
      double == CharAt(f, p + 1) = c
  IN  CASE c = "h" -> IF double THEN [p |-> p + 2, type |-> "CHAR"] ELSE [p |-> p + 1, type |-> "SHORT"]
        [] c = "l" -> IF double THEN [p |-> p + 2, type |-> "LONGLONG"] ELSE [p |-> p + 1, type |-> "LONG"]
        [] c = "j" -> [p |-> p + 1, type |-> "INTMAX"]
        [] c = "t" -> [p |-> p + 1, type |-> "PTRDIFFT"]
        [] c = "z" -> [p |-> p + 1, type |-> "SIZET"]
        [] OTHER -> [p |-> p, type |-> "INT"]

parse_conversion(f, p, args) ==
  LET with(given, w, pr, t) ==
        [flags |-> (given \ ((IF "-" \in given THEN {"0"} ELSE {}) \cup (IF "+" \in given THEN {" "} ELSE {})
                               \cup (IF pr.n >= 0 THEN {"0"} ELSE {})))
                     \cup (IF w.n < 0 THEN {"-"} ELSE {}),
         width |-> IF w.n < 0 THEN -w.n ELSE w.n,
         precision |-> Max({pr.n, -1}), type |-> t.type, p |-> t.p, args |-> pr.args]
      type(given, w, pr) == with(given, w, pr, ParseType(f, pr.p))
      precision(given, w) ==
        type(given, w, IF CharAt(f, w.p) = "." THEN ParseCount(f, w.p + 1, w.args)
                       ELSE [p |-> w.p, n |-> -1, args |-> w.args])
      width(p1) == precision({f[i] : i \in p .. p1 - 1}, ParseCount(f, p1, args))
  IN  width(SkipWhile(f, p, FLAGS))

-----------------------------------------------------------------------------
(* The digits from the lowest on, with commas between groups.               *)
RECURSIVE Accumulate(_, _, _, _)
Accumulate(value, b, group, digit_cnt) ==
  IF value = 0 THEN <<>>
  ELSE (IF group /\ digit_cnt > 0 /\ digit_cnt % b.group = 0 THEN <<",">> ELSE <<>>)
       \o <<b.digits[(value % b.base) + 1]>>
       \o Accumulate(value \div b.base, b, group, digit_cnt + 1)

PadCount(width, digits, x, sign) == width - digits - x - sign

SignChar(is_signed, negative, flags) ==
  IF ~is_signed THEN <<>> ELSE IF negative THEN <<"-">>
  ELSE IF "+" \in flags THEN <<"+">> ELSE IF " " \in flags THEN <<" ">> ELSE <<>>

format_integer(value, is_signed, negative, b, c) ==
  LET sign == SignChar(is_signed, negative, c.flags)
      x == IF "#" \in c.flags /\ value # 0 THEN b.x ELSE <<>>
      precision == IF c.precision < 0 THEN 1 ELSE c.precision
      padded(digits) == digits \o output_dup("0", Min({precision, BufSize - 1}) - Len(digits))
      octal(buf) == IF "#" \in c.flags /\ b.base = 8 /\ (buf = <<>> \/ buf[Len(buf)] # "0")
                    THEN Append(buf, "0") ELSE buf
      field(buf, pad_cnt) ==
        (IF c.flags \cap {"-", "0"} = {} THEN output_dup(" ", pad_cnt) ELSE <<>>)
        \o sign \o x
        \o (IF "0" \in c.flags THEN output_dup("0", pad_cnt) ELSE <<>>)
        \o Backwards(buf)
        \o (IF "-" \in c.flags THEN output_dup(" ", pad_cnt) ELSE <<>>)
      text(buf) == field(buf, PadCount(c.width, Len(buf), Len(x), Len(sign)))
  IN  text(octal(padded(Accumulate(value, b, "'" \in c.flags, 0))))

format_string(string, c) ==
  LET pad == output_dup(" ", c.width - Len(string))
  IN  IF "-" \in c.flags THEN string \o pad ELSE pad \o string

-----------------------------------------------------------------------------
BitsOf(type) ==
  CASE type = "CHAR" -> CharBits [] type = "SHORT" -> ShortBits
    [] type \in {"INTMAX", "LONGLONG"} -> 2 * IntBits [] OTHER -> IntBits

AsUnsigned(v, w) == v % 2 ^ w
AsSigned(v, w) == IF v % 2 ^ w >= 2 ^ (w - 1) THEN (v % 2 ^ w) - 2 ^ w ELSE v % 2 ^ w

(* A null pointer for a string (no string holds a NUL), and what stands in. *)
NullString == <<"NUL">>
NotNull(s) == IF s = NullString THEN <<"(", "n", "u", "l", "l", ")">> ELSE s

(* The string, or as much of it as the precision allows.                    *)
Limited(s, precision) == SubSeq(s, 1, IF precision < 0 THEN Len(s) ELSE Min({precision, Len(s)}))

(* The text for the conversion letter LETTER and argument ARG.              *)
Convert(letter, c, arg) ==
  CASE letter \in {"d", "i"} ->
         LET v == AsSigned(arg, BitsOf(c.type))
         IN  format_integer(IF v < 0 THEN -v ELSE v, TRUE, v < 0, base_d, c)
    [] letter \in {"o", "u", "x", "X"} ->
         format_integer(AsUnsigned(arg, BitsOf(c.type)), FALSE, FALSE,
                        CASE letter = "o" -> base_o [] letter = "u" -> base_d
                          [] letter = "x" -> base_x [] letter = "X" -> base_X, c)
    [] letter = "p" ->
         format_integer(AsUnsigned(arg, IntBits), FALSE, FALSE, base_x, [c EXCEPT !.flags = {"#"}])
    [] letter = "c" -> format_string(<<arg>>, c)
    [] letter = "s" -> format_string(Limited(NotNull(arg), c.precision), c)

(* %n and the floating point letters, and any other, print a remark.        *)
Unsupported(letter) == letter \notin {"d", "i", "o", "u", "x", "X", "c", "s", "p"}

RECURSIVE FormatFrom(_, _, _)
FormatFrom(f, p, args) ==
  LET converted(c) ==
        IF Unsupported(CharAt(f, c.p)) THEN <<"<<no>>">> \o FormatFrom(f, c.p + 1, c.args)
        ELSE Convert(f[c.p], c, Head(c.args)) \o FormatFrom(f, c.p + 1, Tail(c.args))
  IN  IF p > Len(f) THEN <<>>
      ELSE IF f[p] # "%" THEN <<f[p]>> \o FormatFrom(f, p + 1, args)
      ELSE IF CharAt(f, p + 1) = "%" THEN <<"%">> \o FormatFrom(f, p + 2, args)
      ELSE converted(parse_conversion(f, p + 1, args))

__vprintf(f, args) == FormatFrom(f, 1, args)

MaxLength(buf_size) == IF buf_size > 0 THEN buf_size - 1 ELSE 0

(* The bytes stored in the buffer, its terminator included, and the length. *)
vsnprintf(buf_size, f, args) ==
  LET kept(out) == SubSeq(out, 1, Min({Len(out), MaxLength(buf_size)}))
      stored(out) == [buffer |-> IF buf_size > 0 THEN Append(kept(out), "NUL") ELSE kept(out), ret |-> Len(out)]
  IN  stored(__vprintf(f, args))

-----------------------------------------------------------------------------
(* hex_dump prints rows: the offset and the bytes in their columns.         *)

RowEnd(start, size) == IF PerLine - start > size THEN start + size ELSE PerLine

RECURSIVE hex_dump(_, _)
hex_dump(ofs, buf) ==
  LET start == ofs % PerLine
      end == RowEnd(start, Len(buf))
      n == end - start
  IN  IF buf = <<>> THEN <<>>
      ELSE <<[ofs |-> ofs - start, byte |-> [i \in start .. end - 1 |-> buf[i - start + 1]]]>>
           \o hex_dump(ofs + n, SubSeq(buf, n + 1, Len(buf)))
=============================================================================
