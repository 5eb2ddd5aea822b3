INIT MCInit
NEXT MCNext
CONSTANTS
  Loops = {l1}
  NoLoop = NoLoop
  MaxRuns = 2
  ReportIds = {1, 2}
  AutopauseStreak = 0
  ModesInUse = {"cron"}
  OverlapsInUse = {"queue-one"}
  Results = {"ok"}
  Orphans = FALSE
  MaxFaults = 2
  Stimuli = {"schedule", "cancel", "force-delete"}
  MaxEdits = 1
CONSTRAINT Undisturbed
INVARIANTS OneAgentPerLoop OutboxIsReportable DeliveriesAreAccepted
  OnlyTheOwnerIsBlamed
PROPERTIES ReleasedRunsAreOver OwnersWriteStands
CHECK_DEADLOCK FALSE
