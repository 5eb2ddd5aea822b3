INIT MCInit
NEXT MCNext
CONSTANTS
  Loops = {l1}
  NoLoop = NoLoop
  MaxRuns = 2
  ReportIds = {1, 2}
  AutopauseStreak = 0
  ModesInUse = {"cron"}
  OverlapsInUse = {"queue-one"}
  Results = {"ok"}
  Orphans = FALSE
  MaxFaults = 1
  Stimuli = {"schedule"}
  MaxEdits = 1
INVARIANTS MemoryIsWhole
CHECK_DEADLOCK FALSE
