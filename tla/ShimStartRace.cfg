CONSTANTS
  MaxStarts = 2
  ExitCap = 2
SPECIFICATION Spec
INVARIANTS NoProcessLeft
CHECK_DEADLOCK FALSE
