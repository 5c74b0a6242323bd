CONSTANTS
  main = 1
  Procs <- FourProcs
  NULL = NULL
  Codes = {0}
  OwnOnly = FALSE
CHECK_DEADLOCK FALSE
SPECIFICATION ProcessSpec
INVARIANTS
  WaitCommentHolds
