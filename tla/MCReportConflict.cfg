INIT HandlerInit
NEXT HandlerNext
CONSTANTS
  Loops = {l1}
  NoLoop = NoLoop
  MaxRuns = 2
  ReportIds = {i1}
  AutopauseStreak = 0
  ModesInUse = {"cron"}
  OverlapsInUse = {"skip"}
  Handlers = {h1, h2}
  MaxRestarts = 0
  Results = {"ok"}
SYMMETRY Symmetry
INVARIANTS AcksAreBacked HistoryFollowsVerdict
PROPERTIES HandlersKeepToStore
CHECK_DEADLOCK FALSE
