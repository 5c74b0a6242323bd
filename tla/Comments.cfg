CONSTANTS
  Blocks <- TheBlocks
  Strs <- TheStrs
  Arrays <- TheArrays
  CommandLines <- TheCommandLines
  Paths <- ThePaths
  Numerals <- TheNumerals
  Divisors <- TheDivisors
  Letters <- TheLetters
  FormatFlags <- TheFlags
  Widths = {0, 3, 8}
  Precisions <- ThePrecisions
  IntArgs <- TheIntArgs
  TextArgs <- TheTextArgs
  FileNames <- TheFileNames
  FileSizes = {0, 7, 56, 100}
  OctalFields <- TheOctalFields
  PHYS_BASE = 48
  WordBits = 2
  IntLimit = 128
  CharBits = 4
  ShortBits = 6
  IntBits = 8
  BufSize = 8
  PerLine = 4
  NameSize = 4
  SizeField = 4
  SumField = 5
  ULONG_MAX = 1023
  INT_MAX = 100
  FixedSum = 200
  Elems = {1, 2, 3, 4, 5}
  Key <- TheKeys
  HashElems = {1, 2, 3, 4, 5, 6}
  HashKey <- TheHashKeys
  HashValue <- TheHashValues
  MinBuckets = 2
  BestElems = 1
  bit_cnt = 5
  ElemBits = 2
  Names = {1, 2}
  FileData <- TheFileData
  BlockUnits = 2
  ScratchSectors = 6
  MaxAppends = 2
  PGSIZE = 16
  ArenaSize = 4
  MinBlock = 3
  ArenaPages = {1, 2, 3}
  MallocSizes = {}
  CallocFactors = {13}
  SizeBits = 6
  MaxBlocks = 1
  r1 = r1
  r2 = r2
  w1 = w1
  Readers <- TwoReaders
  Writers <- OneWriter
  INTQ_BUFSIZE = 2
  ByteMod = 2
SPECIFICATION CommentsSpec
INVARIANT LibraryCommentHolds
CHECK_DEADLOCK FALSE
