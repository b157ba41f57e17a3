SPECIFICATION Spec
CONSTANTS
  NoServer = NoServer
  MaxPush = 2
  MaxCalls = 2
  Resyncs = 1
  MaxLost = 2
  Overlap = FALSE
  Timely = TRUE
INVARIANTS TypeOK NothingExposed
CHECK_DEADLOCK FALSE
