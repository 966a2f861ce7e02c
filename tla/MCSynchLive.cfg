SPECIFICATION SynchSpec
CONSTANTS
  Thread = {main, idle, t1, t2}
  initial_thread = main
  Idle = idle
  None = NULL
  TIME_SLICE = 1
  l1 = l1
  Lock = {l1}
  Sema <- AllSemas
  Cond = {c1}
  LockOf <- OneLock
  Semaphore = {}
  InitValue = 0
  MaxValue = 0
  MaxCalls = 2
PROPERTIES AcquireReturns SignalledReturns
