SPECIFICATION FairSpec
CONSTANTS
  Names = {a, b}
  MaxDirs = 2
  MaxTransient = 1
  MaxVersion = 3
  MaxCrashes = 1
CHECK_DEADLOCK FALSE
INVARIANTS LinksFollow RemovesWhatItShows
PROPERTY CatchesUp
