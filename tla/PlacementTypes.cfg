SPECIFICATION Spec
CONSTANTS
  Nodes = {n1, n2}
  None = None
  MaxTrouble = 1
  MaxWork = 2
  ForceDelete = TRUE
  Troubles = {"power", "kill", "class", "restart", "tls", "full", "lost", "error"}
INVARIANTS TypeOK
PROPERTIES
  WorkKept
  RunningKept
CHECK_DEADLOCK FALSE
