SPECIFICATION Spec
CONSTANTS
  None = None
  SnapshotRetain = 1
  MaxTrouble = 3
INVARIANTS TypeOK NewestKept
CHECK_DEADLOCK FALSE
