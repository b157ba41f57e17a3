SPECIFICATION FairSpec
CONSTANTS
  MaxGen = 3
  MaxUpsets = 0
  Prompt = {"posts", "stops", "starts", "console", "scale"}
PROPERTIES StoppedSettles
