SPECIFICATION Spec
CONSTANTS
  MaxGen = 1
  MaxRestarts = 0
  MaxFaults = 0
  GamePod = FALSE
  PromptPatch = FALSE
  StaleReads = FALSE
  StaleJobs = FALSE
  StrictExitCode = TRUE
INVARIANTS
  FinishedStaysFinal
CHECK_DEADLOCK FALSE
