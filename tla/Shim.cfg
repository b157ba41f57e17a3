CONSTANTS
  MaxStarts = 2
  ExitCap = 2
SPECIFICATION FairSpec
INVARIANTS OneGame RunningStopped
PROPERTIES ExitNoticed ShutdownReturns
CHECK_DEADLOCK FALSE
