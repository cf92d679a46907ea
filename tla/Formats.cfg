SPECIFICATION Spec
CONSTANTS
  Lower <- MCLower
  Char <- MCChar
  Strings <- MCStrings
  Number <- MCNumber
  Matches <- MCMatches
  Strtoll <- MCStrtoll
  Inputs <- MCInputs
  Boundary = "B"
  MAX_HEADER_LINES = 4
  MAX_HEADLINE_LENGTH = 6
  my_hostname = "H"
  LineWidth = 8
  MAX_SMTP_LINE = 13
  MAX_MAILLINE_LENGTH = 14
  CMD_MAX_ARGS = 6
  Codes = {1, 2}
  MaxErrors = 4
  MaxAcks = 4
  Processes = {p1, p2}
  MaxNumber = 3
  MaxDeaths = 2
  MaxText = 6
  MaxLines = 4
  MaxData = 5
CHECK_DEADLOCK FALSE
INVARIANTS TextsKept DecidesAsDefined SavedErrorsKept SequenceRises
