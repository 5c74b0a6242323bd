CONSTANTS
  boot = boot
  idle0 = idle0
  t1 = t1
  t2 = t2
  t3 = t3
  dev = dev
  mon = mon
  cond = cond
  Threads <- FiveThreads
  initial_thread = boot
  idle_page = idle0
  NoThread = NoThread
  TIME_SLICE = 4
  idle_started = idle_started
  tid_lock = tid_lock
  MaxValue = 2
  MaxTid = 4
  main = 1
  Procs <- FourProcs
  NULL = NULL
  Codes = {}
  OwnOnly = TRUE
SPECIFICATION LiveSpec
INVARIANTS
  SchedulerSafe
PROPERTIES
  ReadyRuns
  WakeupServed
  ExecReturns
  WaitReturns
