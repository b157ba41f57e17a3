SPECIFICATION FairSpec
CONSTANTS
  None = None
  MaxEnds = 2
  MaxTokens = 2
INVARIANTS
  ConnectionsOwned
PROPERTIES
  SessionReleased
  SessionContinues
