------------------------------ MODULE Library ------------------------------
(***************************************************************************)
(* The C library of the kernel as a machine of one call: the initial state *)
(* holds a call with its arguments, the step makes it, and the invariants  *)
(* compare what it returned with a definition of what it should.  The sets *)
(* of arguments are constants.                                             *)
(***************************************************************************)
EXTENDS Arguments, Stdlib, Stdio, Ustar

CONSTANTS Blocks,        \* memory contents for memmove
          Strs,          \* C strings without their terminator
          Arrays,        \* arrays for sort and binary_search
          CommandLines, Paths, Numerals, Divisors,
          FormatFlags, Widths, Precisions, Letters, IntArgs, TextArgs,
          FileNames, FileSizes, OctalFields

VARIABLES call,          \* the function and its arguments
          done,          \* the call has returned
          ret            \* what it returned

lvars == <<call, done, ret>>

(* The format with flags, a width, a precision and a letter.                *)
Numeral(n) == IF n >= 10 THEN <<DIGITS[n \div 10 + 1], DIGITS[(n % 10) + 1]>> ELSE <<DIGITS[n + 1]>>
FormatOf(c) ==
  <<"%">> \o SetToSeq(c.flags) \o (IF c.width = 0 THEN <<>> ELSE Numeral(c.width))
  \o (IF c.precision < 0 THEN <<>> ELSE <<".">> \o Numeral(c.precision)) \o c.letter

(* A buffer with string S and three bytes behind its terminator.            *)
Buffer(s) == s \o <<NUL, 7, 7, 7>>

LibInit ==
  /\ done = FALSE /\ ret = <<>>
  /\ \/ call \in [f : {"memmove"}, m : Blocks, dst : 1 .. 4, src : 1 .. 4, size : 0 .. 3]
     \/ call \in [f : {"strlcpy", "strlcat"}, dst : {s \in Strs : Len(s) <= 2}, src : Strs, size : 0 .. 4]
     \/ call \in [f : {"strstr"}, h : Strs, n : {s \in Strs : Len(s) <= 2}]
     \/ call \in [f : {"exec"}, line : CommandLines]
     \/ call \in [f : {"path"}, path : Paths]
     \/ call \in [f : {"sort"}, array : Arrays]
     \/ call \in [f : {"search"}, array : Arrays, key : 0 .. 3]
     \/ call \in [f : {"atoi"}, s : Numerals]
     \/ call \in [f : {"divide"}, d : Divisors]
     \/ call \in [f : {"printf"}, flags : FormatFlags, width : Widths, precision : Precisions,
                  letter : Letters, arg : IntArgs]
     \/ call \in [f : {"prints"}, flags : {{}, {"-"}}, width : Widths, precision : Precisions,
                  letter : {<<"s">>}, arg : TextArgs]
     \/ call \in [f : {"header"}, name : FileNames, type : {USTAR_REGULAR, USTAR_DIRECTORY}, size : FileSizes]
     \/ call \in [f : {"dump"}, ofs : 0 .. PerLine + 1, size : 0 .. 2 * PerLine]
     \/ call \in [f : {"octal"}, s : OctalFields]

Returns(f, value) == call.f = f /\ ~done /\ done' = TRUE /\ ret' = value /\ UNCHANGED call

LibNext ==
  \/ Returns("memmove", memmove(call.m, call.dst, call.src, call.size))
  \/ Returns("strlcpy", strlcpy(Buffer(call.dst) \o Append(call.src, NUL), 1, Len(Buffer(call.dst)) + 1, call.size))
  \/ Returns("strlcat", strlcat(Buffer(call.dst) \o Append(call.src, NUL), 1, Len(Buffer(call.dst)) + 1, call.size))
  \/ Returns("strstr", strstr(Append(call.h, NUL) \o Append(call.n, NUL), 1, Len(call.h) + 2))
  \/ Returns("exec", fill_stack(ArgvOf(call.line)))
  \/ Returns("path", [dir |-> dirname(call.path), base |-> basename(call.path)])
  \/ Returns("sort", sort(call.array))
  \/ Returns("search", binary_search(call.key, sort(call.array)))
  \/ Returns("atoi", atoi(call.s))
  \/ Returns("divide", [n \in 0 .. B2 - 1 |-> udiv64(n, call.d)])
  \/ Returns("printf", __vprintf(FormatOf(call), <<call.arg>>))
  \/ Returns("prints", __vprintf(FormatOf(call), <<call.arg>>))
  \/ Returns("header", ustar_make_header(call.name, call.type, call.size))
  \/ Returns("dump", hex_dump(call.ofs, [i \in 1 .. call.size |-> 10 + i]))
  \/ Returns("octal", parse_octal_field(call.s))

LibSpec == LibInit /\ [][LibNext]_lvars

After(f) == done /\ call.f = f
-----------------------------------------------------------------------------
(* memmove gives the destination the bytes the source had before the call,  *)
(* however the two overlap, and touches nothing else.  It returns DST       *)
(* exactly when it copies downwards or nothing.                             *)
MemmoveCopies ==
  After("memmove") =>
    /\ (ret.ret = call.dst) = (call.dst >= call.src \/ call.size = 0)
    /\ ret.m = [i \in DOMAIN call.m |-> IF i \in call.dst .. call.dst + call.size - 1
                                        THEN call.m[call.src + i - call.dst] ELSE call.m[i]]

(* "Returns DST" (memmove).                                                 *)
MemmoveReturnsDst ==
  \A m \in Blocks, dst, src \in 1 .. 4, size \in 0 .. 3 : memmove(m, dst, src, size).ret = dst

(* strlcpy and strlcat stay inside the SIZE bytes, terminate what they      *)
(* wrote, keep as much as fits, and return the length the whole would have. *)
(* strlcat writes nothing, and no terminator, when DST fills the SIZE bytes *)
(* already.                                                                 *)
CopiesAreBounded ==
  After("strlcpy") \/ After("strlcat") =>
    LET old == Buffer(call.dst) \o Append(call.src, NUL)
        whole == IF call.f = "strlcpy" THEN call.src ELSE call.dst \o call.src
        acts == call.size > 0 /\ (call.f = "strlcpy" \/ Len(call.dst) < call.size)
    IN  /\ ret.ret = Len(whole)
        /\ \A i \in DOMAIN old : i > call.size => ret.m[i] = old[i]
        /\ IF acts THEN StringAt(ret.m, 1) = SubSeq(whole, 1, Min({Len(whole), call.size - 1}))
           ELSE ret.m = old

(* "A null terminator is always written to DST, unless SIZE is 0"           *)
(* (strlcat).                                                               *)
AlwaysTerminated ==
  \A dst, src \in Strs, size \in 1 .. 4 :
    \E i \in 1 .. size : strlcat(Buffer(dst) \o Append(src, NUL), 1, Len(Buffer(dst)) + 1, size).m[i] = NUL

(* strstr finds the first place where the needle is, and the searches for   *)
(* single characters agree with each other about it.                        *)
SearchesAgree ==
  After("strstr") =>
    LET m == Append(call.h, NUL) \o Append(call.n, NUL)
        At(i) == \A k \in DOMAIN call.n : i + k - 1 <= Len(call.h) /\ call.h[i + k - 1] = call.n[k]
        stop == {call.n[k] : k \in DOMAIN call.n}
    IN  /\ ret = FirstOr({i \in 1 .. Len(call.h) + 1 : At(i)}, NULL)
        /\ strcspn(m, 1, stop) = (IF strpbrk(m, 1, stop) = NULL THEN strlen(m, 1) ELSE strpbrk(m, 1, stop) - 1)
        /\ \A c \in stop : strchr(m, 1, c) = memchr(m, 1, c, strlen(m, 1))
        /\ \A c \in stop : strchr(m, 1, c) <= strrchr(m, 1, c) /\ (strchr(m, 1, c) = NULL) = (strrchr(m, 1, c) = NULL)
        /\ (strcmp(m, 1, Len(call.h) + 2) = 0) = (call.h = call.n)
        /\ strnlen(m, 1, 2) = Min({Len(call.h), 2})

Starts(s, sep) == {i \in DOMAIN s : s[i] # sep /\ (i = 1 \/ s[i - 1] = sep)}
WordAt(s, i, sep) == SubSeq(s, i, FirstOr({k \in i .. Len(s) : s[k] = sep}, Len(s) + 1) - 1)
(* The words of S between separators.                                       *)
Words(s, sep) ==
  LET starts == SetToSortSeq(Starts(s, sep), <)
  IN  [k \in 1 .. Len(starts) |-> WordAt(s, starts[k], sep)]

(* main finds the words of the command line, as many as argc says, a null   *)
(* pointer behind the last, and an aligned stack.                           *)
ArgumentsArrive ==
  After("exec") =>
    /\ ret.esp % 4 = 0
    /\ MainArgs(ret) = [argc |-> Len(Words(call.line, SPACE_CH)), end |-> NULL, words |-> Words(call.line, SPACE_CH)]

RECURSIVE PartsFrom(_, _)
PartsFrom(path, p) ==
  LET from(part) == IF part.ret = 1 THEN <<part.part>> \o PartsFrom(path, part.p) ELSE <<>>
  IN  from(get_next_part(path, p))

(* dirname and basename take a path apart so that the walk over the parts   *)
(* of dirname and then basename names what the path names, whatever slashes *)
(* are doubled or trail; get_next_part stops at a name that is too long.    *)
PathsSplit ==
  After("path") =>
    LET parts == Words(call.path, SLASH)
        ok == \A k \in DOMAIN parts : Len(parts[k]) <= NAME_MAX
        dir == IF ret.dir = <<46>> THEN <<>> ELSE PartsFrom(ret.dir, 1)
    IN  /\ ok => PartsFrom(call.path, 1) = parts
        /\ parts # <<>> => ret.base = parts[Len(parts)]
        /\ parts # <<>> /\ ok => dir = SubSeq(parts, 1, Len(parts) - 1)
        /\ parts # <<>> => (ret.dir[1] = SLASH) = (call.path[1] = SLASH)

(* The functions on memory, strings and paths compute what their reference  *)
(* definitions say, for every input of the bounds, also where lib/string.c  *)
(* says something else of them (MemmoveReturnsDst, AlwaysTerminated).       *)
StringsAgree ==
  /\ MemmoveCopies
  /\ CopiesAreBounded
  /\ SearchesAgree
  /\ ArgumentsArrive
  /\ PathsSplit

(* sort returns the elements of the array, each as often, in order.         *)
SortOrders ==
  After("sort") =>
    /\ \A i \in 1 .. Len(ret) - 1 : ret[i].key <= ret[i + 1].key
    /\ Len(ret) = Len(call.array) /\ ToSet(ret) = ToSet(call.array)

(* binary_search returns an element with the key whenever there is one.     *)
SearchFinds ==
  After("search") =>
    LET sorted == sort(call.array)
    IN  IF ret = 0 THEN \A i \in DOMAIN sorted : sorted[i].key # call.key
        ELSE sorted[ret].key = call.key

(* atoi returns the number a numeral stands for over the whole range of an  *)
(* int, its least value included.                                           *)
RECURSIVE NumeralValue(_)
NumeralValue(s) ==
  IF s = <<>> THEN 0 ELSE NumeralValue(SubSeq(s, 1, Len(s) - 1)) * 10 + s[Len(s)][2]

AtoiConverts ==
  After("atoi") =>
    LET digits == SelectSeq(call.s, LAMBDA c : c[1] = "d")
        v == NumeralValue(digits)
        value == IF \E i \in DOMAIN call.s : call.s[i] = <<"-">> THEN -v ELSE v
    IN  value \in -IntLimit .. IntLimit - 1 => ret = value

Magnitude(n) == IF n < 0 THEN -n ELSE n

(* The quotient rounded towards zero, and what is left.                     *)
Quotient(n, d) ==
  LET mag == Magnitude(n) \div Magnitude(d) IN IF (n < 0) = (d < 0) THEN mag ELSE -mag
Remainder(n, d) == n - d * Quotient(n, d)

(* The 64-bit quotients made of 32-bit divisions are exact for every        *)
(* dividend and never trap; signed division truncates towards zero.  The    *)
(* remainders are right exactly when they fit the 32 bits they are returned *)
(* in.  The one quotient that no signed word holds is left out.             *)
DivisionIsExact ==
  After("divide") =>
    \A n \in 0 .. B2 - 1 :
      LET d == call.d
          sn == Signed(n, B2)
          sd == Signed(d, B2)
      IN  /\ ret[n] = n \div d
          /\ (umod64(n, d) = n % d) = (n % d < B)
          /\ sn # -(B2 \div 2) \/ sd # -1 =>
               /\ sdiv64(sn, sd) = Quotient(sn, sd)
               /\ (smod64(sn, sd) = Remainder(sn, sd)) = (Remainder(sn, sd) \in -(B \div 2) .. B \div 2 - 1)

(* "Divides unsigned 64-bit N by unsigned 64-bit D and returns the          *)
(* remainder" (umod64).                                                     *)
RemainderReturned == \A d \in Divisors, n \in 0 .. B2 - 1 : umod64(n, d) = n % d

-----------------------------------------------------------------------------
BaseOf(letter) == CASE letter = "o" -> 8 [] letter \in {"x", "X"} -> 16 [] OTHER -> 10
DigitsOf(letter) == IF letter = "X" THEN UPPER_DIGITS ELSE DIGITS
RECURSIVE TextValue(_, _, _)
TextValue(s, base, digits) ==
  IF s = <<>> THEN 0
  ELSE TextValue(SubSeq(s, 1, Len(s) - 1), base, digits) * base
       + (CHOOSE d \in 0 .. base - 1 : digits[d + 1] = s[Len(s)])

(* What printf writes for an integer reads back as that integer in its      *)
(* base and of its C type, with a minus exactly when it is negative, in a   *)
(* field at least as wide as asked and padded no further.  The digits and   *)
(* commas fill the precision and fit the buffer they are collected in.      *)
IntegersPrint ==
  After("printf") =>
    LET letter == call.letter[Len(call.letter)]
        bits == IF Len(call.letter) = 1 THEN IntBits ELSE IF call.letter[1] = "h" THEN ShortBits ELSE 2 * IntBits
        value == IF letter = "d" THEN AsSigned(call.arg, bits) ELSE AsUnsigned(call.arg, bits)
        body == SelectSeq(ret, LAMBDA c : c \notin {" ", "-", "+", ",", "x", "X"})
        buf == SelectSeq(ret, LAMBDA c : c \notin {" ", "-", "+", "x", "X"})
        trim == SelectSeq(ret, LAMBDA c : c # " ")
        shown == Len(trim) + (IF letter = "d" /\ " " \in call.flags \ {"-"} /\ "+" \notin call.flags /\ value >= 0 THEN 1 ELSE 0)
    IN  /\ TextValue(body, BaseOf(letter), DigitsOf(letter)) = IF value < 0 THEN -value ELSE value
        /\ (\E i \in DOMAIN ret : ret[i] = "-") = (value < 0)
        /\ Len(ret) >= call.width
        /\ Len(ret) = Max({call.width, shown})
        /\ Len(buf) >= Min({call.precision, BufSize - 1})
        /\ "0" \notin call.flags => Len(buf) <= BufSize + Len(SelectSeq(ret, LAMBDA c : c \in {"x", "X"}))

(* A string is printed up to the precision and padded to the width, on the  *)
(* side the flag says, and "(null)" is printed for a null pointer.          *)
StringsPrint ==
  After("prints") =>
    LET whole == IF call.arg = NullString THEN <<"(", "n", "u", "l", "l", ")">> ELSE call.arg
        shown == IF call.precision < 0 THEN Len(whole) ELSE Min({call.precision, Len(whole)})
        skip == IF "-" \in call.flags THEN 0 ELSE Len(ret) - shown
    IN  /\ Len(ret) = Max({call.width, shown})
        /\ \A i \in DOMAIN ret : ret[i] = IF i - skip \in 1 .. shown THEN whole[i - skip] ELSE " "

(* snprintf never stores more than the size of the buffer, stores a prefix  *)
(* of the text and a terminator, and returns the length of the whole text.  *)
SnprintfIsBounded ==
  LET Bounded(r, size) ==
        /\ Len(r.buffer) <= size /\ r.ret = Len(ret)
        /\ size > 0 => /\ r.buffer[Len(r.buffer)] = "NUL"
                       /\ IsPrefix(SubSeq(r.buffer, 1, Len(r.buffer) - 1), ret)
                       /\ Len(r.buffer) = Min({size, Len(ret) + 1})
  IN  After("printf") => \A size \in 0 .. 4 : Bounded(vsnprintf(size, FormatOf(call), <<call.arg>>), size)

DigitSum(v) == FoldLeft(LAMBDA sum, ch : sum + Code(ch) - Code("0"), 0, ToOctal(v))

(* A header that was made parses back to the name without its dangerous     *)
(* prefixes, the type and the size.  A header with another type but the     *)
(* same checksum field is refused, and one with another size unless the     *)
(* octal digits of the two sizes add up to the same.                        *)
HeadersParseBack ==
  LET ParsesBack(r) ==
        /\ r.error = "" /\ r.type = call.type
        /\ r.size = IF call.type = USTAR_REGULAR THEN call.size ELSE 0
        /\ r.name = strip_antisocial_prefixes(call.name)
        /\ ~IsPrefix(<<"/">>, r.name) /\ ~IsPrefix(<<".", ".", "/">>, r.name) /\ r.name \notin {<<>>, <<".", ".">>}
  IN  After("header") /\ ret.ok =>
        /\ ParsesBack(ustar_parse_header(ret.h))
        /\ ustar_parse_header([ret.h EXCEPT !.typeflag = "7"]).error = "checksum mismatch"
        /\ \A size \in FileSizes :
             (ustar_parse_header([ret.h EXCEPT !.size = OctalField(size, SizeField)]).error = "checksum mismatch")
               = (DigitSum(size) # DigitSum(call.size))

(* An octal field is read as the number it holds or refused, never taken    *)
(* modulo the word size.                                                    *)
OctalFieldsExact ==
  After("octal") =>
    LET end == FirstOr({i \in DOMAIN call.s : call.s[i] \notin OctalDigits}, Len(call.s) + 1)
        value == TextValue(SubSeq(call.s, 1, end - 1), 8, DIGITS)
    IN  ret.ok = (end \in 2 .. Len(call.s) /\ call.s[end] \in {" ", "NUL"} /\ value <= ULONG_MAX)
        /\ (ret.ok => ret.value = value)

(* The rows of a dump hold every byte once, at its own offset, in rows of   *)
(* PerLine bytes that start at multiples of it.                             *)
DumpsCoverBytes ==
  After("dump") =>
    LET Places(r) == {<<ret[r].ofs + c, ret[r].byte[c]>> : c \in DOMAIN ret[r].byte}
    IN  /\ UNION {Places(r) : r \in DOMAIN ret} = {<<call.ofs + i - 1, 10 + i>> : i \in 1 .. call.size}
        /\ \A r \in DOMAIN ret : ret[r].ofs % PerLine = 0 /\ DOMAIN ret[r].byte \subseteq 0 .. PerLine - 1

(* Sorting, searching, conversion, division and formatting return what      *)
(* their reference definitions say, for every input of the bounds; a        *)
(* remainder too large for 32 bits is not returned (RemainderReturned).     *)
AlgorithmsAgree ==
  /\ SortOrders
  /\ SearchFinds
  /\ AtoiConverts
  /\ DivisionIsExact
  /\ IntegersPrint
  /\ StringsPrint
  /\ SnprintfIsBounded
  /\ DumpsCoverBytes
=============================================================================
