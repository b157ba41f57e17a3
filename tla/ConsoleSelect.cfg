SPECIFICATION FairSpec
CONSTANTS
  None = None
  MaxEnds = 1
  MaxTokens = 1
PROPERTIES
  AlwaysReleased
