------------------------------- MODULE Ustar -------------------------------
(***************************************************************************)
(* The archive headers of lib/ustar.c.  A header is a record of its fields *)
(* that vary, each a sequence of one-character strings; the other fields   *)
(* are constant or zero and are summed up in FixedSum.  The field widths   *)
(* are scaled: NameSize is 100, SizeField 12, SumField 8 in the code.      *)
(***************************************************************************)
EXTENDS Integers, Sequences, FiniteSetsExt, SequencesExt

CONSTANTS NameSize, SizeField, SumField, ULONG_MAX, INT_MAX, FixedSum

Code(ch) ==
  CASE ch = "NUL" -> 0 [] ch = " " -> 32 [] ch = "." -> 46 [] ch = "/" -> 47 [] ch = "a" -> 97
    [] OTHER -> 48 + (CHOOSE d \in 0 .. 7 : ch = <<"0", "1", "2", "3", "4", "5", "6", "7">>[d + 1])

OctalDigits == {"0", "1", "2", "3", "4", "5", "6", "7"}
USTAR_REGULAR == "0"
USTAR_DIRECTORY == "5"

(* The name as the array of NameSize bytes, terminated and padded.          *)
Padded(s, n) == [i \in 1 .. n |-> IF i <= Len(s) THEN s[i] ELSE "NUL"]

(* snprintf with "%0<n>o" into a field of n + 1 bytes.                      *)
RECURSIVE ToOctal(_)
ToOctal(v) == IF v = 0 THEN <<>> ELSE Append(ToOctal(v \div 8), <<"0", "1", "2", "3", "4", "5", "6", "7">>[(v % 8) + 1])

OctalField(v, size) ==
  LET digits == ToOctal(v)
      full == [i \in 1 .. Max({size - 1 - Len(digits), 0}) |-> "0"] \o digits
  IN  Append(SubSeq(full, 1, size - 1), "NUL")

(* Wrong: the checksum field counts with the digits it holds.               *)
calculate_chksum_Raw(h) ==
  FixedSum + Code(h.typeflag) + FoldLeft(LAMBDA s, ch : s + Code(ch), 0, h.name \o h.size \o h.chksum)

calculate_chksum(h) ==
  FixedSum + Code(h.typeflag) + SumField * Code(" ")
    + FoldLeft(LAMBDA s, ch : s + Code(ch), 0, h.name \o h.size)

RECURSIVE strip_antisocial_prefixes(_)
strip_antisocial_prefixes(s) ==
  LET slash == Min({i \in DOMAIN s : s[i] = "/"})
  IN  IF \E prefix \in {<<"/">>, <<".", "/">>, <<".", ".", "/">>} : IsPrefix(prefix, s)
      THEN strip_antisocial_prefixes(SubSeq(s, slash + 1, Len(s)))
      ELSE IF s = <<>> \/ s = <<".", ".">> THEN <<".">> ELSE s

ustar_make_header(file_name, type, size) ==
  LET name == strip_antisocial_prefixes(file_name)
      h == [name |-> Padded(name, NameSize), typeflag |-> type, size |-> OctalField(size, SizeField),
            magic |-> TRUE, version |-> TRUE, prefix |-> FALSE,
            chksum |-> Padded(<<>>, SumField)]
  IN  IF Len(name) > NameSize - 1 THEN [ok |-> FALSE, h |-> h]
      ELSE [ok |-> TRUE, h |-> [h EXCEPT !.chksum = OctalField(calculate_chksum(h), SumField)]]

Overflows(value) == value > ULONG_MAX \div 8

RECURSIVE OctalFrom(_, _, _)
OctalFrom(s, ofs, value) ==
  IF ofs > Len(s) THEN [ok |-> FALSE, value |-> value]
  ELSE IF s[ofs] \in OctalDigits
  THEN IF Overflows(value) THEN [ok |-> FALSE, value |-> value]
       ELSE OctalFrom(s, ofs + 1, (Code(s[ofs]) - Code("0") + value * 8) % (ULONG_MAX + 1))
  ELSE [ok |-> s[ofs] \in {" ", "NUL"} /\ ofs > 1, value |-> value]

parse_octal_field(s) == OctalFrom(s, 1, 0)

UpToNul(s) == SubSeq(s, 1, Min({i \in DOMAIN s : s[i] = "NUL"}) - 1)

(* The error, or the name, the type and the size.                           *)
ustar_parse_header(h) ==
  LET sum == parse_octal_field(h.chksum)
      size == parse_octal_field(h.size)
  IN  CASE ~h.magic -> [error |-> "not a ustar archive"]
        [] h.magic /\ ~h.version -> [error |-> "invalid ustar version"]
        [] h.magic /\ h.version /\ ~sum.ok -> [error |-> "corrupt chksum field"]
        [] h.magic /\ h.version /\ sum.ok ->
             IF sum.value # calculate_chksum(h) THEN [error |-> "checksum mismatch"]
             ELSE IF h.name[NameSize] # "NUL" \/ h.prefix THEN [error |-> "file name too long"]
             ELSE IF h.typeflag \notin {USTAR_REGULAR, USTAR_DIRECTORY}
             THEN [error |-> "unimplemented file type"]
             ELSE IF h.typeflag = USTAR_REGULAR /\ ~size.ok THEN [error |-> "corrupt file size field"]
             ELSE IF h.typeflag = USTAR_REGULAR /\ size.value > INT_MAX THEN [error |-> "file too large"]
             ELSE [error |-> "", name |-> strip_antisocial_prefixes(UpToNul(h.name)), type |-> h.typeflag,
                   size |-> IF h.typeflag = USTAR_REGULAR THEN size.value ELSE 0]
=============================================================================
