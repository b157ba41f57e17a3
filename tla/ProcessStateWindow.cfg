SPECIFICATION FairSpec
CONSTANTS
  Replicas = {r1}
  NoAnswer = NoAnswer
  Steps = 3
  Rounds = 2
  MaxChanges = 2
  MaxFails = 3
  MaxStale = 0
  MaxOther = 0
  MaxErrors = 0
  MaxCrashes = 0
PROPERTIES
  ClaimConfirmed
CHECK_DEADLOCK FALSE
