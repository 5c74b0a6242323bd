CONSTANTS
  main = main
  idle0 = idle0
  t1 = t1
  t2 = t2
  dev = dev
  mon = mon
  cond = cond
  Threads <- FourThreads
  initial_thread = main
  idle_page = idle0
  NoThread = NoThread
  TIME_SLICE = 1
  Semas <- BothSemas
  idle_started = idle_started
  Locks <- BothLocks
  tid_lock = tid_lock
  Conds <- OneCond
  LockOf <- CondLock
  MaxValue = 2
  MaxTid = 4
SPECIFICATION Spec
SYMMETRY WorkerSymmetry
INVARIANTS
  LocksExclude
  ElemExclusive
  NoLostWakeup
  SignalKept
PROPERTIES
  ImplementsThreads
