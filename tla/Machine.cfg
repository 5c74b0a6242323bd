SPECIFICATION MCSpec
CONSTANTS
  Callers = {1, 2}
  NoCaller = 0
  free_pages = 6
  user_page_limit = 2
  bm_pages = 1
  MaxCnt = 2
  PGSIZE = 16
  ArenaSize = 4
  MinBlock = 3
  ArenaPages = {1, 2, 3}
  MallocSizes = {0, 3, 7, 14, 62}
  CallocFactors = {0, 1, 5, 13}
  SizeBits = 6
  MaxBlocks = 3
  r1 = r1
  r2 = r2
  w1 = w1
  w2 = w2
  Readers <- TwoReaders
  Writers <- TwoWriters
  INTQ_BUFSIZE = 3
  ByteMod = 4
  IdeThreads = {1, 2}
  NoThread = 0
  Disks = {0, 1}
  IdeSectors = {3}
  MaxOps = 2
  MaxSpurious = 1
  MaxFailures = 1
  Printers = {1, 2, 3}
  NoPrinter = 0
  MaxChars = 2
  MaxNest = 3
  MaxLevel = 3
  Keys = {2, 30, 83, 42, 54, 56, 57400, 29, 57373, 58, 59}
  ROW_CNT = 2
  COL_CNT = 3
  TAB = 2
  Glyphs = {"x"}
  MaxRows = 4
SYMMETRY SerialSymmetry
INVARIANTS
  PagesExact
  BlocksExact
  NoByteLost
  CommandsApart
  ConsoleSafe
  KeysTypeRight
  DisplayIsTail
CHECK_DEADLOCK FALSE
