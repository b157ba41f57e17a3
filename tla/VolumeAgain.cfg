SPECIFICATION Spec
CONSTANTS
  None = None
  SnapshotRetain = 1
  MaxTrouble = 2
PROPERTIES
  SnapshotOfThis
CHECK_DEADLOCK FALSE
