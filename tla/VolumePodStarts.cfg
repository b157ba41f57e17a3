SPECIFICATION Spec
CONSTANTS
  None = None
  SnapshotRetain = 1
  MaxTrouble = 2
PROPERTIES
  Released
CHECK_DEADLOCK FALSE
