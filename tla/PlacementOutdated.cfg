SPECIFICATION Spec
CONSTANTS
  Nodes = {n1}
  None = None
  MaxTrouble = 1
  MaxWork = 1
  ForceDelete = TRUE
  Troubles = {"class"}
PROPERTY
  OutdatedAgentWaits
