SPECIFICATION Spec
CONSTANTS
  Pids = {p1, p2}
  MaxProcesses = 3
  Clis = {c1}
  Servers = {s1, s2}
INVARIANTS DaemonIsVisible DaemonFollowsConnection ReadinessIsOwn
PROPERTIES StopMeansStopped CommandsReturn
CHECK_DEADLOCK FALSE
