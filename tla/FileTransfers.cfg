SPECIFICATION FairSpec
CONSTANTS
  Clients = {alice, bob}
  MaxCnxs = 2
  Resources = {r1}
  Server = filed
  NoOne = none
  Size = 2
  Block = 1
  MaxCmds = 1
  MaxMisses = 1
  Overlapping = FALSE
  DiskFails = TRUE
  Stored = {r1}
CHECK_DEADLOCK FALSE
INVARIANTS StreamHeld ThanksForAll AckedIsKept
 
