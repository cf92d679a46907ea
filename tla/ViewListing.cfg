SPECIFICATION ViewFairSpec
CONSTANTS
  MaxLocal = 2
  MaxForeign = 1
  MaxBreaks = 0
  Contention = FALSE
  Denials = FALSE
  Incomplete = FALSE
CHECK_DEADLOCK FALSE
INVARIANTS NoDuplicate AtMostOnce
PROPERTIES Converges RequestSettled
