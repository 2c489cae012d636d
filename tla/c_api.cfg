SPECIFICATION CApiSpec
CONSTANTS
  SectorSize = 2
  MaxDepth = 1
  MaxRead = 0
  Disks <- CApiDisks
  Addresses = {1, 2, 3, 4, 5, 6, 7, 8}
  Offsets <- TriedOffsets
  Lengths = {0, 3}
INVARIANTS
  Owned
  ErrorTells
  ZeroIsTheEnd
