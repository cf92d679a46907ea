SPECIFICATION BrowserSpec
CONSTANTS
  MaxLocal = 2
  MaxForeign = 1
  MaxBreaks = 0
  Contention = FALSE
  Denials = TRUE
  Incomplete = FALSE
  Programs = {"mdirc", "vadrouille"}
CHECK_DEADLOCK FALSE
INVARIANTS RefusalShown CountsRight ReadIsReal RowsCurrent
