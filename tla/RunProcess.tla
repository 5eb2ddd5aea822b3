----------------------------- MODULE RunProcess -----------------------------
(***************************************************************************)
(* One agent process, from its spawn to its terminal report: the timers,   *)
(* signals and events of runProcess (daemon/spawn.ts) and what             *)
(* executeDelivery (daemon/runner.ts) makes of how it ended.               *)
(*                                                                         *)
(* Cancel, shutdown, timeout, the exit of the agent, the SIGKILL after the *)
(* grace period, an error event and the two ways to settle race.  An agent *)
(* may obey SIGTERM, trap it and exit with any code, or ignore it; it may  *)
(* leave helpers in its process group that keep its pipes open; and after  *)
(* an error event it may outlive the report of its run.                    *)
(***************************************************************************)
VARIABLES
  leader,     \* the agent: "starting", "runs", or how it ended
  helpers,    \* are there other processes in its group
  abort,      \* why its AbortController was aborted, if it was
  aborted,    \* what the abort listener has recorded
  timedOut,
  killTimer,  \* "none", "armed", "fired"
  cause,      \* what first made the daemon end the process; only the properties read it
  result      \* of the report, "none" until runProcess has settled

pvars == <<leader, helpers, abort, aborted, timedOut, killTimer, cause, result>>

\* "timeouttext": it failed, and what it printed contains "timed out".  The result "broken"
\* is a failure whose error is "failed to run ...": runProcess rejected.
Exits == {"ok", "failed", "timeouttext"}
Exited == leader \in Exits \cup {"killed"}
Settled == result # "none"
InFlight == leader # "starting" /\ ~Settled

-----------------------------------------------------------------------------
\* The child runs, or could not be started: then its error event comes at once.
SpawnAgent ==
  /\ leader = "starting" /\ leader' = "runs"
  /\ UNCHANGED <<helpers, abort, aborted, timedOut, killTimer, cause, result>>

SpawnFails ==
  /\ leader = "starting" /\ leader' = "failed" /\ result' = "broken"
  /\ UNCHANGED <<helpers, abort, aborted, timedOut, killTimer, cause>>

AgentForks ==
  /\ leader = "runs" /\ helpers' = TRUE
  /\ UNCHANGED <<leader, abort, aborted, timedOut, killTimer, cause, result>>

HelpersEnd ==
  /\ helpers /\ helpers' = FALSE
  /\ UNCHANGED <<leader, abort, aborted, timedOut, killTimer, cause, result>>

AgentExits ==
  /\ leader = "runs" /\ leader' \in Exits
  /\ UNCHANGED <<helpers, abort, aborted, timedOut, killTimer, cause, result>>

\* SIGTERM has no handler in it.
AgentObeys ==
  /\ leader = "runs" /\ killTimer = "armed" /\ leader' = "killed"
  /\ UNCHANGED <<helpers, abort, aborted, timedOut, killTimer, cause, result>>

\* terminate: SIGTERM to the group, SIGKILL KILL_GRACE_MS later; one timer for both causes.
TerminateGently == UNCHANGED killTimer
Terminate == killTimer' = IF killTimer = "none" THEN "armed" ELSE killTimer

Because(c) == cause' = IF cause = "none" THEN c ELSE cause

\* ConcurrentRuntime.cancel and shutdown; an abort signal keeps its first reason.
AbortRun(reason) ==
  /\ InFlight /\ abort = "none"
  /\ abort' = reason /\ aborted' = TRUE
  /\ Terminate /\ Because(reason)
  /\ UNCHANGED <<leader, helpers, timedOut, result>>

\* Once the abort has begun, the timer is of no account.
TimeIsUpAlways == ~timedOut
TimeIsUp == ~timedOut /\ ~aborted
Timeout ==
  /\ InFlight /\ TimeIsUp
  /\ timedOut' = TRUE
  /\ Terminate /\ Because("timeout")
  /\ UNCHANGED <<leader, helpers, abort, aborted, result>>

KillGroup ==
  /\ InFlight /\ killTimer = "armed" /\ killTimer' = "fired"
  /\ leader' = IF Exited THEN leader ELSE "killed"
  /\ helpers' = FALSE
  /\ UNCHANGED <<abort, aborted, timedOut, cause, result>>

\* The text of the error decides as well.
ResultOf ==
  CASE timedOut -> "timeout"
    [] ~timedOut /\ aborted /\ abort = "cancel" -> "canceled"
    [] OTHER -> CASE leader = "ok" -> "success"
                  [] leader = "timeouttext" -> "timeout"
                  [] OTHER -> "failure"

\* close: the agent is gone and nobody holds its pipes ...
SettleOnClose ==
  /\ InFlight /\ Exited /\ ~helpers
  /\ result' = ResultOf
  /\ UNCHANGED <<leader, helpers, abort, aborted, timedOut, killTimer, cause>>

\* ... or, whoever holds them, STREAM_DRAIN_MS after the exit.  What is left of the group
\* is not waited for, and no timer will kill it any more.
SettleAfterExit ==
  /\ InFlight /\ Exited
  /\ result' = ResultOf
  /\ UNCHANGED <<leader, helpers, abort, aborted, timedOut, killTimer, cause>>

\* An error event of a child that was started (its stdin failed with something else than
\* EPIPE, a signal could not be sent) rejects whenever it comes, also during a cancel or
\* after the timeout: the run is reported, and its agent, should it live, goes on without
\* timer and without abort listener.
ErrorEvent ==
  /\ InFlight /\ result' = "broken"
  /\ UNCHANGED <<leader, helpers, abort, aborted, timedOut, killTimer, cause>>

-----------------------------------------------------------------------------
ProcessInit ==
  /\ leader = "starting" /\ helpers = FALSE
  /\ abort = "none" /\ aborted = FALSE /\ timedOut = FALSE
  /\ killTimer = "none" /\ cause = "none" /\ result = "none"

Settle == SettleOnClose \/ SettleAfterExit

ProcessNext ==
  \/ SpawnAgent \/ SpawnFails \/ AgentForks \/ HelpersEnd \/ AgentExits \/ AgentObeys
  \/ \E reason \in {"cancel", "shutdown"} : AbortRun(reason)
  \/ Timeout \/ KillGroup \/ ErrorEvent \/ Settle

\* Node fires its timers and events; nothing is expected of the agent.
ProcessFairness == WF_pvars(KillGroup) /\ WF_pvars(SettleAfterExit)

ProcessSpec == ProcessInit /\ [][ProcessNext]_pvars /\ ProcessFairness

-----------------------------------------------------------------------------
(* Properties.                                                             *)

\* The report names the first of cancel, shutdown and timeout, however many of them, and
\* whatever exit of the agent, follow before the process has settled: no cancel turns into
\* a timeout or a failure, no timeout into a cancel, no shutdown into a cancel or a timeout
\* of ours.  Only an error event of the child takes the name from any of them.
FirstCauseWins ==
  Settled => /\ result = "canceled" => cause = "cancel"
             /\ cause = "cancel" => result \in {"canceled", "broken"}
             /\ cause = "timeout" => result \in {"timeout", "broken"}
             /\ result = "timeout" => cause = "timeout" \/ leader = "timeouttext"

\* A run that was canceled, shut down or timed out is reported, although its agent ignores
\* SIGTERM and its helpers hold the pipes.
EndedRunsSettle == (cause # "none") ~> Settled
=============================================================================
