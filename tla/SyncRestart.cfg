SPECIFICATION MCSpec
CONSTANTS
  MaxLocal = 2
  MaxForeign = 1
  MaxBreaks = 1
  Contention = TRUE
  Denials = TRUE
  Incomplete = TRUE
CHECK_DEADLOCK FALSE
INVARIANTS ReplicaPrefix PatchChain AnswersMatchCommands RequestNotLost
