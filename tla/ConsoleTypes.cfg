SPECIFICATION Spec
CONSTANTS
  None = None
  MaxEnds = 3
  MaxTokens = 3
INVARIANTS TypeOK ConnectionsOwned
CHECK_DEADLOCK FALSE
