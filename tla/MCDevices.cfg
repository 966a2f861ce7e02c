SPECIFICATION DevicesSpec
CONSTANTS
  TxSize = 2
  InSize = 2
  MaxOutput = 4
  MaxInput = 2
  CThread = {"c1", "c2"}
  Intr = "intr"
  NoOne = "none"
  MSG_LEN = 2
  MaxMsgs = 2
  MaxNest = 2
  IThread = {"t1", "t2"}
  Boot = "t1"
  Partition <- Partitions
  Capacity = 3
  SECTOR_T = 16
  MaxSector = 2
  MaxIo = 2
  MaxStray = 1
  TThread = {"s1", "s2"}
  HALF = 2
  TIMER_FREQ = 2
  DENOM = 4
  MaxNum = 4
  MaxTicks = 4
  RThread = {"r1", "r2"}
  FirstThread = "r1"
  Vec = {"timer", "other", "spurious"}
  Handled = {"timer"}
  Spurious = {"spurious"}
  MaxIrq = 5
  BUFSIZ = 2
  MaxTyped = 2
  MaxShown = 3
  MaxConn = 2
INVARIANTS SerialOK ConsoleOK DiskOK SleepNotShort InterruptsOK RelayOK
PROPERTIES CallsReturn DataDelivered
CHECK_DEADLOCK FALSE
