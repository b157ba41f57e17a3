SPECIFICATION Spec
CONSTANTS
  MaxGen = 1
  MaxRestarts = 1
  MaxFaults = 1
  GamePod = TRUE
  PromptPatch = FALSE
  StaleReads = TRUE
  StaleJobs = TRUE
  StrictExitCode = FALSE
INVARIANTS
  JobTracked
CHECK_DEADLOCK FALSE
