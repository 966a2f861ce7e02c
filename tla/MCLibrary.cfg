SPECIFICATION LibrarySpec
CONSTANTS
  List = {"a", "b"}
  Elem = {"e1", "e2", "e3", "e4"}
  head <- HeadOf
  tail <- TailOf
  NULL = "NULL"
  key <- ListKeys
  MaxOut = 2
  HElem = {"a", "a2", "b", "c", "d"}
  hkey <- HashKeys
  hash <- Hashes
  FEW_BUCKETS = 1
  BEST_ELEMS_PER_BUCKET = 1
  NoElem = "NULL"
  MThread = {"m1", "m2"}
  Page <- TwoPages
  PAGE_SIZE = 18
  ARENA = 6
  MIN_BLOCK = 4
  SIZE_T = 64
  MSize = {0, 3, 7, 13}
  MemSize = 5
  Byte = {0, 1, 2}
  WIDTH = 5
  CHAR_WIDTH = 2
  SHORT_WIDTH = 3
  INT_WIDTH = 4
  BUF = 8
  PER_LINE = 4
  FieldWidth <- FieldWidths
  Precision <- Precisions
  MaxDump = 9
  Key = {1, 3, 5}
  MaxCnt = 6
  INT_BITS = 8
  ELEM_BITS = 2
  BIT_CNT = 5
  HALF_BITS = 4
  N = 5
  Seed <- Seeds
  MaxBytes = 6
  NAME_LEN = 4
  SIZE_LEN = 3
  CHKSUM_LEN = 6
  ULONG_MAX = 4095
  INT_MAX = 15
  MaxName = 4
  Disks <- MbrDisks
  SECTOR_MOD = 16
  MaxFrames = 3
  Test = {"alarm"}
  CommandLines <- Lines
  init_ram_pages = 5
  PER_TABLE = 2
  KernelText = {1, 2}
  Machines <- AllMachines
  MAX_SECTORS = 3
  WORD = 8
  KeyRoom = 2
  MaxHeld = 4
  COL_CNT = 4
  ROW_CNT = 3
  TAB = 2
  MaxPutc = 7
  FirstLoops = 4
  BITS = 3
  MaxSpeed = 130
  Radix <- Radixes
  Starts <- ClockStarts
  MaxPassed = 6
INVARIANTS HeapOK StringsRight PrintfRight StdlibRight BitmapRight ArithRight UstarRight PartitionsRight StartUpRight TerminalRight ClockRight
PROPERTIES IsSequence IsMap
CHECK_DEADLOCK FALSE
