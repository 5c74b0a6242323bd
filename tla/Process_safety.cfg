CONSTANTS
  main = 1
  Procs <- FourProcs
  NULL = NULL
  Codes = {0}
  OwnOnly = FALSE
  LoadProcs = {1, 2}
  KernelPages = {1, 2, 3, 4}
  UserPages = {11, 12, 13}
  init_page_dir = 100
  LOAD_PGSIZE = 4
  PTPages = 2
  UserVPages = 4
  AddrSpace = 32
  FileLen = 6
  Programs <- MCPrograms
CHECK_DEADLOCK FALSE
SPECIFICATION ProgramSpec
INVARIANTS
  WaitDelivers
  ExecHandshake
  MemoryAccounted
  SegmentsArrive
