SPECIFICATION MCSpec
CONSTANTS
  Connections = {q1, q2}
  NoConnection = NoConnection
  Reports = {f1, f2, a1}
  Answered = {a1}
  Workers = {w1, w2}
  NoReport = NoReport
  MaxEnds = 1
INVARIANTS NoLostWakeup FirstCauseWins
PROPERTIES OwnersRunIsTaken DueIsServed AnswerableReportsLeave EndedRunsSettle
CHECK_DEADLOCK FALSE
