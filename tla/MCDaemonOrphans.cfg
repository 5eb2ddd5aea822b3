INIT DaemonInit
NEXT DaemonNext
CONSTANTS
  Loops = {l1}
  NoLoop = NoLoop
  MaxRuns = 2
  ReportIds = {1, 2}
  AutopauseStreak = 0
  ModesInUse = {"cron"}
  OverlapsInUse = {"queue-one"}
  Results = {"ok"}
  Orphans = TRUE
  MaxFaults = 1
  Stimuli = {"schedule", "cancel"}
INVARIANTS OneAgentPerLoop
CHECK_DEADLOCK FALSE
