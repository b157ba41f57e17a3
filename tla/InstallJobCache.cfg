SPECIFICATION Spec
CONSTANTS
  MaxGen = 1
  MaxRestarts = 0
  MaxFaults = 1
  GamePod = FALSE
  PromptPatch = FALSE
  StaleReads = FALSE
  StaleJobs = TRUE
  StrictExitCode = TRUE
INVARIANTS
  ObservedJobsFinal
CHECK_DEADLOCK FALSE
