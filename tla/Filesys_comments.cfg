CONSTANTS
  NumSectors = 20
  BLOCK_SECTOR_SIZE = 3
  DIRECT_PTRS = 1
  INDIRECT_BLOCK_PTRS = 2
  Procs = {1}
  FilePaths <- ThroughFile
  DirPaths <- TheDirPaths
  InitialSizes = {9}
  Sizes = {4}
  MaxSize = 13
  Positions = {9}
  Values = {7}
  RootEntries = 1
  MaxFds = 2
  MaxOpens = 6
CHECK_DEADLOCK FALSE
SPECIFICATION CommentsSpec
INVARIANT InodeCommentHolds
