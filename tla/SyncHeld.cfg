SPECIFICATION MCFairSpec
CONSTANTS
  MaxLocal = 1
  MaxForeign = 1
  MaxBreaks = 0
  Contention = FALSE
  Denials = TRUE
  Incomplete = FALSE
PROPERTY PatchesReach
CHECK_DEADLOCK FALSE
