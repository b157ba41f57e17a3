SPECIFICATION Spec
CONSTANTS
  MaxGen = 2
  MaxUpsets = 0
  Prompt = {"posts", "starts", "console", "scale"}
PROPERTIES RestartKeepsRunning
