SPECIFICATION Spec
CONSTANTS
  Loops = {l1}
  NoLoop = NoLoop
  MaxRuns = 3
  ReportIds = {i1}
  AutopauseStreak = 2
  ModesInUse = {"cron", "continuous"}
  OverlapsInUse = {"skip", "queue-one"}
CONSTRAINT ThirdRunIsContinuous
INVARIANTS AuthorityMatchesPhase QueueIsStartable SingleAuthority IndexHistory
PROPERTIES StallsOnlyByCancel AutopauseIsEarned
CHECK_DEADLOCK FALSE
