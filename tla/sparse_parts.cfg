SPECIFICATION ReaderSpec
CONSTANTS
  SectorSize = 2
  Disks <- SparseParts
  MaxDepth = 3
  MaxRead = 3
PROPERTIES
  ReadsTheDisk
CHECK_DEADLOCK FALSE
