SPECIFICATION Spec
CONSTANTS
  MaxJnlSize = 2
  Msgs = {1}
  WithMarks = TRUE
  Readers = FALSE
  MaxVersion = 3
  MaxBlanks = 0
  MaxFaults = 2
INVARIANT VersionsUnique
