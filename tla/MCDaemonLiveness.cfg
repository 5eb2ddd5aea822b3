SPECIFICATION FairDaemonSpec
CONSTANTS
  Loops = {l1}
  NoLoop = NoLoop
  MaxRuns = 2
  ReportIds = {1, 2}
  AutopauseStreak = 0
  ModesInUse = {"cron"}
  OverlapsInUse = {"queue-one"}
  Results = {"ok"}
  Orphans = FALSE
  MaxFaults = 1
  Stimuli = {"schedule", "delete"}
PROPERTIES OutboxDrains QueuedRunsEnd DeletionsComplete
CHECK_DEADLOCK FALSE
