SPECIFICATION InflateSpec
CONSTANTS
  GrainSize = 3
  MaxSize = 7
  MaxBytes = 5
INVARIANTS
  WholeGrain
  LostOnlyAtTheEnd
PROPERTY
  InflateEnds
CHECK_DEADLOCK FALSE
