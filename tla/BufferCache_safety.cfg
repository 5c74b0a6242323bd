CONSTANTS
  t1 = t1
  t2 = t2
  s1 = s1
  s2 = s2
  s3 = s3
  Threads <- TwoThreads
  Resetters <- TwoThreads
  NoThread = NoThread
  Sectors <- ThreeSectors
  CACHE_BLOCKS = 2
  MaxWrites = 2
  MaxLookups = 3
SPECIFICATION Spec
SYMMETRY ThreadSymmetry
INVARIANTS
  CacheCoherent
  ReadReturnsLatest
  FlushMakesDurable
PROPERTIES
  DiskNeverGoesBack
