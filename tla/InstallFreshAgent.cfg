SPECIFICATION FairSpec
CONSTANTS
  MaxGen = 1
  MaxRestarts = 1
  MaxFaults = 0
  GamePod = TRUE
  PromptPatch = TRUE
  StaleReads = FALSE
  StaleJobs = FALSE
  StrictExitCode = TRUE
PROPERTIES
  InstallFinishes
CHECK_DEADLOCK FALSE
