SPECIFICATION IntqSpec
CONSTANTS
  t1 = t1
  t2 = t2
  t3 = t3
  Thread = {idle, t1, t2, t3}
  initial_thread = t1
  Idle = idle
  None = NULL
  TIME_SLICE = 1
  qlock = qlock
  Lock <- OneLock
  Sema <- OneLock
  Use <- Uses
  Byte = {a, b}
  INTQ_BUFSIZE = 3
CHECK_DEADLOCK FALSE
INVARIANTS WaiterOK
PROPERTIES IsFifo IntqReturns
