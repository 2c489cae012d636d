SPECIFICATION InflateSpec
CONSTANTS
  GrainSize = 3
  MaxSize = 7
  MaxBytes = 5
INVARIANT
  TooLargeIsRefused
CHECK_DEADLOCK FALSE
