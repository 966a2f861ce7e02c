SPECIFICATION Spec
CONSTANTS
  Thread = {main, idle, t1, t2}
  initial_thread = main
  Idle = idle
  None = NULL
  TIME_SLICE = 3
INVARIANTS OneRunning ReadyListOK ReapOK
PROPERTIES StarvationFree
