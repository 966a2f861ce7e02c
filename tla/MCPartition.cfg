SPECIFICATION PartitionSpec
CONSTANTS
  Disks <- LogicalDisks
  SECTOR_MOD = 16
  MaxFrames = 4
INVARIANT LogicalFound
CHECK_DEADLOCK FALSE
