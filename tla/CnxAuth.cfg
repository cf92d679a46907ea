SPECIFICATION FairSpec
CONSTANTS
  Queries = {q1, q2}
  SQ_TIMEOUT = 1
  BufDigits = 7
  AuthCloses = TRUE
  MaxSeq = 5
  MaxTime = 3
  MaxFailures = 1
CHECK_DEADLOCK FALSE
INVARIANTS AuthFirst TimelyAnswers
PROPERTY AuthEventually
