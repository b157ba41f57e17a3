SPECIFICATION Spec
CONSTANTS
  MaxGen = 2
  MaxRestarts = 0
  MaxFaults = 0
  GamePod = FALSE
  PromptPatch = FALSE
  StaleReads = FALSE
  StaleJobs = FALSE
  StrictExitCode = TRUE
PROPERTIES
  NoJobBeforePrepared
CHECK_DEADLOCK FALSE
