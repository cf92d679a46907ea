SPECIFICATION Spec
CONSTANTS
  Names = {a, h}
  Skipped = {h}
  MaxEdits = 3
CHECK_DEADLOCK FALSE
 
PROPERTIES Deliberate InStep
