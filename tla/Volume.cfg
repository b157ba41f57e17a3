SPECIFICATION FairSpec
CONSTANTS
  None = None
  SnapshotRetain = 1
  MaxTrouble = 2
PROPERTIES
  FinalSnapshot
  VolumeByPolicy
  UpgradeKeeps
  Deleted
CHECK_DEADLOCK FALSE
