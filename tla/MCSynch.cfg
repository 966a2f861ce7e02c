SPECIFICATION SynchSpec
CONSTANTS
  Thread = {main, idle, t1, t2}
  initial_thread = main
  Idle = idle
  None = NULL
  TIME_SLICE = 1
  l1 = l1
  Lock = {l1}
  Sema <- AllSemas
  Cond = {c1}
  LockOf <- OneLock
  Semaphore = {s1}
  InitValue = 0
  MaxValue = 2
  MaxCalls = 2
INVARIANTS MutualExclusion WaitersOK NoLostWakeup SignalOnce
