SPECIFICATION LoopSpec
CONSTANTS
  Headers <- AllHeaders
  Starts = {0, 3}
INVARIANTS
  NeverPastTheEnd
  BuildsTheTable
  GrainsFound
CHECK_DEADLOCK FALSE
