SPECIFICATION Spec
CONSTANTS
  MaxGen = 1
  MaxUpsets = 2
  Prompt = {"posts", "stops", "starts", "console", "scale"}
PROPERTIES FreshPodStarted
