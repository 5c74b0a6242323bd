----------------------------- MODULE MCLibrary -----------------------------
(* Small instances of the library: pure functions, lists, hash table,       *)
(* bitmap and archive, one of them in each behaviour.                       *)
EXTENDS Library, KernelList, HashTable, Bitmap, Fsutil

VARIABLE part   \* the component this behaviour is about

SeqsUpTo(S, n) == UNION {[1 .. k -> S] : k \in 0 .. n}

TheBlocks == {<<11, 12, 13, 14, 15, 16, 17>>}
TheStrs == SeqsUpTo({1, 2}, 4)
TheArrays == {[i \in DOMAIN k |-> [key |-> k[i], id |-> i]] : k \in SeqsUpTo({1, 2, 3}, 5)}
TheCommandLines == SeqsUpTo({32, 97}, 6)
ThePaths == SeqsUpTo({47, 97}, 6)
TheNumerals ==
  {pre \o s : pre \in {<<>>, <<<<" ">>>>, <<<<"-">>>>, <<<<" ">>, <<"+">>>>, <<<<" ">>, <<"-">>>>},
              s \in SeqsUpTo({<<"d", n>> : n \in {0, 1, 2, 7, 8}}, 3)}
TheDivisors == 1 .. B2 - 1
TheFlags ==
  {{}, {"-"}, {"+"}, {" "}, {"#"}, {"0"}, {"'"}, {"#", "0"}, {"-", "0"}, {"+", " "}, {"#", "'"}, {"0", "'", "+"}}
ThePrecisions == {-1, 0, 2, 9}
TheIntArgs == {0, 1, 9, 200, 255, -1, -128, -77}
TheLetters == {<<"d">>, <<"o">>, <<"x">>, <<"X">>, <<"h", "d">>, <<"l", "l", "u">>}
TheTextArgs == {<<>>, <<"a">>, <<"a", "b", "c", "d">>, NullString}
TheFileNames == SeqsUpTo({".", "/", "a"}, 4)
TheOctalFields == [1 .. 5 -> {"0", "1", "7", " ", "a"}]

TheKeys == <<1, 2, 1, 2, 1>>
TheHashKeys == <<1, 2, 3, 4, 5, 1>>
TheHashValues == <<0, 1, 4, 3, 5>>
TheFileData == {<<1>>, <<1, 2, 3>>}

mcvars == <<part, lvars, heap, hvars, bits, uvars>>

MCInit ==
  /\ part \in {"functions", "list", "hash", "bitmap", "archive"}
  /\ IF part = "functions" THEN LibInit ELSE call = [f |-> "none"] /\ done = FALSE /\ ret = <<>>
  /\ ListInit /\ hash_init /\ bits = NoBits /\ UtilInit

MCNext ==
  /\ UNCHANGED part
  /\ \/ part = "functions" /\ LibNext /\ UNCHANGED <<heap, hvars, bits, uvars>>
     \/ part = "list" /\ ListNext /\ UNCHANGED <<lvars, hvars, bits, uvars>>
     \/ part = "hash" /\ HashNext /\ UNCHANGED <<lvars, heap, bits, uvars>>
     \/ part = "bitmap" /\ BitmapNext /\ UNCHANGED <<lvars, heap, hvars, uvars>>
     \/ part = "archive" /\ UtilNext /\ UNCHANGED <<lvars, heap, hvars, bits>>

MCSpec == MCInit /\ [][MCNext]_mcvars

(* What fsutil appends to the scratch device reads back: headers parse to   *)
(* what made them and the archive holds the files in order, up to an end    *)
(* that may not be recognised (EndIsTwoSectors).                            *)
ArchivesAgree == HeadersParseBack /\ OctalFieldsExact /\ ArchiveHoldsAppended
=============================================================================
