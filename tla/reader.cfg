SPECIFICATION ReaderSpec
CONSTANTS
  SectorSize = 2
  Disks <- ReaderDisks
  MaxDepth = 3
  MaxRead = 6
INVARIANTS
  ReaderTypeOK
  OpensOnlyNeeded
  SpansTile
PROPERTIES
  SourcesStay
  ReadsDoNotPanic
  OpenReturns
  ReadsTheDisk
  ReadReturns
CHECK_DEADLOCK FALSE
