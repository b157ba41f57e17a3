SPECIFICATION FairSpec
CONSTANTS
  Replicas = {r1, r2}
  NoAnswer = NoAnswer
  Steps = 3
  Rounds = 2
  MaxChanges = 2
  MaxFails = 3
  MaxStale = 1
  MaxOther = 1
  MaxErrors = 1
  MaxCrashes = 1
INVARIANTS
  ClaimIsOwedPoll
PROPERTIES
  RegisterSpec
  LastStateRecorded
CHECK_DEADLOCK FALSE
