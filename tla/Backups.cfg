SPECIFICATION FairSpec
CONSTANTS
  Replicas = {r1, r2}
  Names = {b1, b2}
  None = None
  MaxRequests = 2
  MaxTrouble = 1
INVARIANTS
  RunningRecorded
PROPERTIES
  ResultForwarded
  RecordsEnd
CHECK_DEADLOCK FALSE
