SPECIFICATION Spec
CONSTANTS
  MaxJnlSize = 2
  Msgs = {1}
  WithMarks = FALSE
  Readers = TRUE
  MaxVersion = 5
  MaxBlanks = 1
  MaxFaults = 0
INVARIANTS TypeOK ReadBack FilesAgree ListExact
PROPERTY ImplementsVersionLog
