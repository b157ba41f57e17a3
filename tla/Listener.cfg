CONSTANTS
  c1 = c1
  c2 = c2
  Conns <- TwoConns
  MaxPending = 1
  ReadyCap = 1
  MaxEnvs = 2
SPECIFICATION FairSpec
PROPERTIES NewerNeverFollowedByOlder NewestIsUsed ReplacedLetsGo
CHECK_DEADLOCK FALSE
