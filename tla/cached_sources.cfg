SPECIFICATION CachedSpec
CONSTANTS
  Handles = {"h", "g"}
  FileLen <- TwoFiles
  ChLen = 2
  Sources = 2
  MaxLen = 3
INVARIANTS
  CachedTypeOK
  ChunksAreTheSources
  RangesAreWithin
  NoneBeyondEnd
  NothingForgotten
PROPERTIES
  IsACursor
  CachedReadReturns
CHECK_DEADLOCK FALSE
