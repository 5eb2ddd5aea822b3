INIT MCInit
NEXT MCNext
CONSTANTS
  Launchers = {1, 2, 3}
  Nobody = Nobody
  Verbs = {"start", "foreground", "stop", "restart"}
  LockAttempts = 2
  MaxCrashes = 1
  Requests = {h1, h2}
  Ids = {l1, l2}
  NoId = NoId
  Creates <- MCCreates
  Patches <- MCPatches
  Versions <- MCVersions
  NoVersion = NoVersion
  Protocols = {6, 7}
  Attempts <- MCAttempts
  Costs <- MCCosts
  Pasts <- MCPasts
  MaxSpends = 3
CONSTRAINTS NotStolen InOrder Few Apart Current
INVARIANTS OneServer StopLeavesNothing EnvelopeIsCreatable RetriesCreateOnce EndsAgree UsageIsOwn
CHECK_DEADLOCK FALSE
