------------------------------- MODULE Fsutil -------------------------------
(***************************************************************************)
(* The actions of the kernel command line on files, filesys/fsutil.c: the  *)
(* scratch device is an archive that `append' writes and `extract' reads.  *)
(* A sector is a header, a block of data or zeros; Ustar has the header's  *)
(* bytes.  A file is the sequence of its units, BlockUnits to a sector.    *)
(***************************************************************************)
EXTENDS Integers, Sequences, FiniteSetsExt

CONSTANTS Names, FileData, BlockUnits, ScratchSectors, MaxAppends

VARIABLES files,            \* the file system: name to contents
          scratch,          \* the sectors of the scratch device, from 0
          extract_sector,   \* the static variable of fsutil_extract
          append_sector,    \* the static variable of fsutil_append
          appended,         \* what append wrote since it started at sector 0
          panicked

uvars == <<files, scratch, extract_sector, append_sector, appended, panicked>>

Zeros == [kind |-> "zeros", name |-> 0, size |-> 0, data |-> <<>>]
(* All zeros but the last byte.                                             *)
AlmostZeros == [kind |-> "almost", name |-> 0, size |-> 0, data |-> <<>>]
Header(name, size) == [kind |-> "header", name |-> name, size |-> size, data |-> <<>>]
Data(units) == [kind |-> "data", name |-> 0, size |-> 0, data |-> units]

Chunks(data) == (Len(data) + BlockUnits - 1) \div BlockUnits
Chunk(data, k) == SubSeq(data, (k - 1) * BlockUnits + 1, Min({k * BlockUnits, Len(data)}))

(* block_write stops the machine at a sector past the end.                  *)
Fits(sector) == sector < ScratchSectors

(* Both sectors of the marker are written at the same place, the second     *)
(* from one byte further on: its last byte is whatever lies behind the      *)
(* buffer.                                                                  *)
fsutil_append == \E name \in DOMAIN files, marker \in {Zeros, AlmostZeros} :
  LET data == files[name]
      n == Chunks(data)
      end == append_sector + 1 + n
      written == [s \in DOMAIN scratch |->
                    IF s = append_sector THEN Header(name, Len(data))
                    ELSE IF s \in append_sector + 1 .. end - 1 THEN Data(Chunk(data, s - append_sector))
                    ELSE IF s = end THEN marker
                    ELSE scratch[s]]
  IN  /\ ~panicked
      /\ Len(appended) < MaxAppends \/ append_sector = 0
      /\ scratch' = written
      /\ panicked' = ~Fits(end)
      /\ append_sector' = end
      /\ appended' = IF append_sector = 0 THEN <<[name |-> name, data |-> data]>>
                     ELSE Append(appended, [name |-> name, data |-> data])
      /\ UNCHANGED <<files, extract_sector>>

(* The files read from sector S on: the first error or the end stops it.    *)
RECURSIVE ReadArchive(_, _, _)
ReadArchive(dev, s, into) ==
  LET h == dev[s]
      n == (h.size + BlockUnits - 1) \div BlockUnits
      Units(k) == Min({BlockUnits, h.size - (k - 1) * BlockUnits})
      RECURSIVE Join(_)
      Join(k) == IF k > n THEN <<>> ELSE SubSeq(dev[s + k].data, 1, Units(k)) \o Join(k + 1)
  IN  IF ~Fits(s) \/ h.kind \in {"data", "almost"} THEN [ok |-> FALSE, sector |-> s, files |-> into]
      ELSE IF h.kind = "zeros" THEN [ok |-> TRUE, sector |-> s + 1, files |-> into]
      ELSE IF h.name \in DOMAIN into THEN [ok |-> FALSE, sector |-> s, files |-> into]
      ELSE ReadArchive(dev, s + n + 1,
                       [x \in DOMAIN into \cup {h.name} |-> IF x = h.name THEN Join(1) ELSE into[x]])

Erase(dev) == [dev EXCEPT ![0] = Zeros, ![1] = Zeros]

(* Every extract of a boot comes before its appends.                        *)
fsutil_extract ==
  LET r == ReadArchive(scratch, extract_sector, files)
  IN  /\ ~panicked
      /\ append_sector = 0
      /\ extract_sector < ScratchSectors
      /\ files' = r.files
      /\ extract_sector' = r.sector
      /\ panicked' = ~r.ok
      /\ scratch' = IF r.ok THEN Erase(scratch) ELSE scratch
      /\ appended' = IF r.ok THEN <<>> ELSE appended
      /\ UNCHANGED append_sector

fsutil_rm == \E name \in DOMAIN files :
  /\ ~panicked
  /\ files' = [x \in DOMAIN files \ {name} |-> files[x]]
  /\ UNCHANGED <<scratch, extract_sector, append_sector, appended, panicked>>

(* A program makes a file.                                                  *)
MakeFile == \E name \in Names \ DOMAIN files, d \in FileData :
  /\ ~panicked
  /\ files' = [x \in DOMAIN files \cup {name} |-> IF x = name THEN d ELSE files[x]]
  /\ UNCHANGED <<scratch, extract_sector, append_sector, appended, panicked>>

(* The next boot has its own static variables and the same disks.           *)
NextBoot ==
  /\ ~panicked
  /\ extract_sector' = 0 /\ append_sector' = 0
  /\ UNCHANGED <<files, scratch, appended, panicked>>

UtilInit ==
  /\ files = [x \in {} |-> <<>>]
  /\ scratch = [s \in 0 .. ScratchSectors - 1 |-> Zeros]
  /\ extract_sector = 0 /\ append_sector = 0
  /\ appended = <<>> /\ panicked = FALSE

UtilNext == fsutil_append \/ fsutil_extract \/ fsutil_rm \/ MakeFile \/ NextBoot

UtilSpec == UtilInit /\ [][UtilNext]_uvars
-----------------------------------------------------------------------------
(* Reading the scratch device from its first sector finds the files that    *)
(* append wrote there, whole and in order, whatever an older, longer        *)
(* archive left behind them.  The reader then finds the end of the archive, *)
(* or stops the machine there exactly when the byte behind append's buffer  *)
(* was not zero.  After an extraction the next boot finds an empty archive, *)
(* as the comment there says.                                               *)
ArchiveHoldsAppended ==
  (~panicked /\ \A i, j \in DOMAIN appended : i # j => appended[i].name # appended[j].name) =>
    LET r == ReadArchive(scratch, 0, [x \in {} |-> <<>>])
    IN  /\ r.ok \/ scratch[r.sector] = AlmostZeros
        /\ r.files = [x \in {appended[i].name : i \in DOMAIN appended} |->
                        appended[CHOOSE i \in DOMAIN appended : appended[i].name = x].data]

(* "Write end-of-archive marker, which is two consecutive sectors full of   *)
(* zeros" (fsutil_append).                                                  *)
EndIsTwoSectors ==
  append_sector > 0 /\ Fits(append_sector + 1) =>
    scratch[append_sector] = Zeros /\ scratch[append_sector + 1] = Zeros
=============================================================================
