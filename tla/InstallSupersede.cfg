SPECIFICATION FairSpec
CONSTANTS
  MaxGen = 2
  MaxRestarts = 0
  MaxFaults = 0
  GamePod = FALSE
  PromptPatch = TRUE
  StaleReads = FALSE
  StaleJobs = TRUE
  StrictExitCode = TRUE
INVARIANTS
  OneInstallJob
  NewerReportKept
PROPERTIES
  InstallFinishes
CHECK_DEADLOCK FALSE
