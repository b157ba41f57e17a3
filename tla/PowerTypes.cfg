SPECIFICATION Spec
CONSTANTS
  MaxGen = 2
  MaxUpsets = 1
  Prompt = {"posts", "stops", "starts", "console", "scale"}
INVARIANTS TypeOK
CHECK_DEADLOCK FALSE
