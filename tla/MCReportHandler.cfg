SPECIFICATION HandlerSpec
CONSTANTS
  Loops = {l1}
  NoLoop = NoLoop
  MaxRuns = 1
  ReportIds = {i1}
  AutopauseStreak = 0
  ModesInUse = {"cron"}
  OverlapsInUse = {"skip"}
  Handlers = {h1, h2}
  MaxRestarts = 1
  Results = {"ok", "canceled"}
PROPERTIES EveryReportIsAnswered
CHECK_DEADLOCK FALSE
