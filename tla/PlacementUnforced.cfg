SPECIFICATION FairSpec
CONSTANTS
  Nodes = {n1, n2}
  None = None
  MaxTrouble = 1
  MaxWork = 1
  ForceDelete = FALSE
  Troubles = {"power", "kill", "class", "restart", "tls", "full", "lost", "error"}
PROPERTIES
  WorkKept
  RunningKept
  Placed
