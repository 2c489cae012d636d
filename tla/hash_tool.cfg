SPECIFICATION ToolSpec
CONSTANTS
  SectorSize = 2
  Disks <- Images
  MaxDepth = 2
  MaxRead = 0
  CommandLines <- UpToTwoImages
  BufLen = 3
INVARIANT
  WholeImagesPrinted
PROPERTY
  ToolEnds
CHECK_DEADLOCK FALSE
