CONSTANTS
  NumSectors = 16
  BLOCK_SECTOR_SIZE = 3
  DIRECT_PTRS = 1
  INDIRECT_BLOCK_PTRS = 2
  Procs = {1,2}
  FilePaths <- TheFilePaths
  DirPaths <- TheDirPaths
  InitialSizes = {3}
  Sizes = {4}
  MaxSize = 12
  Positions = {8}
  Values = {7}
  RootEntries = 1
  MaxFds = 1
  MaxOpens = 3
CHECK_DEADLOCK FALSE
SPECIFICATION Spec
INVARIANTS
  SectorsSound
  RestartAgrees
  HeldAreOpen
PROPERTIES
  TreeSteps
  ProgramsUnwritten
  ImplementsFiles
