CONSTANTS
  Blocks <- TheBlocks
  Strs <- TheStrs
  Arrays <- TheArrays
  CommandLines <- TheCommandLines
  Paths <- ThePaths
  Numerals <- TheNumerals
  Divisors <- TheDivisors
  Letters <- TheLetters
  FormatFlags <- TheFlags
  Widths = {0, 3, 8}
  Precisions <- ThePrecisions
  IntArgs <- TheIntArgs
  TextArgs <- TheTextArgs
  FileNames <- TheFileNames
  FileSizes = {0, 7, 56, 100}
  OctalFields <- TheOctalFields
  PHYS_BASE = 48
  WordBits = 4
  IntLimit = 128
  CharBits = 4
  ShortBits = 6
  IntBits = 8
  BufSize = 8
  PerLine = 4
  NameSize = 4
  SizeField = 4
  SumField = 5
  ULONG_MAX = 1023
  INT_MAX = 100
  FixedSum = 200
  Elems = {1, 2, 3, 4, 5}
  Key <- TheKeys
  HashElems = {1, 2, 3, 4, 5, 6}
  HashKey <- TheHashKeys
  HashValue <- TheHashValues
  MinBuckets = 2
  BestElems = 1
  bit_cnt = 5
  ElemBits = 2
  Names = {1, 2}
  FileData <- TheFileData
  BlockUnits = 2
  ScratchSectors = 6
  MaxAppends = 2
SPECIFICATION MCSpec
INVARIANTS
  StringsAgree
  AlgorithmsAgree
  ListsSound
  ImplementsSequences
  BitmapsExact
  ArchivesAgree
PROPERTIES
  HashSetSteps
CHECK_DEADLOCK FALSE
