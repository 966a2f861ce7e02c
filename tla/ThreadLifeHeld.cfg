SPECIFICATION LifeSpec
CONSTANTS
  Thread = {main, idle, t1, t2}
  initial_thread = main
  Idle = idle
  None = NULL
  TIME_SLICE = 1
  pool_lock = pool_lock
  tid_lock = tid_lock
  Lock = {pool_lock, tid_lock}
  Sema = {pool_lock, tid_lock}
  MaxCreate = 3
CHECK_DEADLOCK FALSE
INVARIANTS
  NeverHeldTwice
