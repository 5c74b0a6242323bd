CONSTANTS
  t1 = t1
  t2 = t2
  s1 = s1
  s2 = s2
  s3 = s3
  Threads <- TwoThreads
  Resetters <- OneThread
  NoThread = NoThread
  Sectors <- TwoSectors
  CACHE_BLOCKS = 2
  MaxWrites = 1
  MaxLookups = 2
SPECIFICATION Spec
PROPERTIES
  NoLostWrite
