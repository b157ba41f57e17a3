SPECIFICATION FairSpec
CONSTANTS
  MaxGen = 2
  MaxUpsets = 1
  Prompt = {"posts", "stops", "starts", "console", "scale"}
INVARIANTS KillIsFinal
PROPERTIES RunningSettles GenerationsObserved KillTakesPod RestartKeepsRunning CrashCheckSparesStart
