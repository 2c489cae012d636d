SPECIFICATION ReaderSpec
CONSTANTS
  SectorSize = 2
  Disks <- FlatParts
  MaxDepth = 3
  MaxRead = 3
PROPERTIES
  ReadsTheDisk
CHECK_DEADLOCK FALSE
