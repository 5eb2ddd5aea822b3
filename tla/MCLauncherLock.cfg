INIT LauncherInit
NEXT LauncherNext
CONSTANTS
  Launchers = {1, 2, 3}
  Nobody = Nobody
  Verbs = {"start", "stop"}
  LockAttempts = 2
  MaxCrashes = 0
INVARIANT LaunchersTakeTurns
CHECK_DEADLOCK FALSE
