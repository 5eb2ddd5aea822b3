SPECIFICATION Spec
CONSTANTS
  Loops = {l1, l2}
  NoLoop = NoLoop
  MaxRuns = 2
  ReportIds = {i1, i2}
  AutopauseStreak = 1
  ModesInUse = {"continuous"}
  OverlapsInUse = {"queue-one"}
CONSTRAINT SwitchedOn
SYMMETRY LoopSymmetry
INVARIANTS ConsumedLeaseHasEvidence OneVerdictPerReport
PROPERTIES EvidenceIsFinal ImplementsLedger
CHECK_DEADLOCK FALSE
