------------------------------- MODULE Daemon -------------------------------
(***************************************************************************)
(* The daemon of one machine and its conversation with the server.         *)
(*                                                                         *)
(* The daemon (packages/daemon/src/daemon.ts, report-outbox.ts, spawn.ts)  *)
(* polls the server, one request after another, with the runs it holds;    *)
(* the answer brings at most one run to execute and the cancels of those   *)
(* it named.  It executes an agent process per run and keeps the terminal  *)
(* report in a durable outbox until the server has answered it for good.   *)
(*                                                                         *)
(* The server side (gateway/index.ts: pollV4, pollCore, sweep, report) is  *)
(* made of the transactions of RunStore.  A poll is several of them, with  *)
(* the snapshot of its request in all; sweeps, reports and the owner come  *)
(* in between.  A report is one step here: ReportHandler shows that its    *)
(* handler, step by step, changes nothing that RunStore does not allow.    *)
(*                                                                         *)
(* Either side may stop at any time.  What survives is the database, the   *)
(* outbox and, if the daemon alone is killed, the agent processes.         *)
(***************************************************************************)
EXTENDS RunStore

CONSTANTS
  Results,      \* what agents that are left alone end with
  Orphans,      \* does an agent outlive a daemon that is killed?
  MaxFaults,    \* requests, answers and processes lost (bound)
  Stimuli       \* what happens around the daemon (bound)

\* A reportId is a fresh UUID of the run that reports.
ASSUME DaemonAssumption ==
  /\ Results \subseteq {"ok", "block", "failure"}
  /\ Orphans \in BOOLEAN /\ MaxFaults \in Nat
  /\ ReportIds = 1..MaxRuns
  /\ Stimuli \subseteq {"schedule", "run", "cancel", "delete", "force-delete"}

VARIABLES
  daemon,    \* the process: up, stopping (after SIGTERM) or down
  held,      \* its map of active runs
  aborted,   \* why the execution of a run is being aborted; the first reason stays
  agent,     \* the agent process of a run, or the result it left in memory
  outbox,    \* the results in the durable outbox
  poll,      \* the poll the daemon waits for, and one it gave up
  silent,    \* running runs not heard of for RUN_TIMEOUT_MS
  swept,     \* those among them that the sweep has read and not handled yet
  faults

dvars == <<daemon, held, aborted, agent, outbox, poll, silent, swept, faults>>
sysVars == <<vars, dvars>>

Stages == {"none", "executing", "reporting",
           "restored"}      \* reporting, read from the outbox: its loop is unknown
Ended == {"ok", "block", "failure", "canceled"}
AgentStates == {"none", "alive"} \cup Ended

Requests == {"current", "abandoned"}
PollSteps == {"idle", "sent", "heard", "released", "claim", "claimed", "answered"}
PollRow == [at : PollSteps, snapshot : SUBSET Runs, delivery : Runs \cup {NoRun},
            cancels : SUBSET Runs, due : SUBSET Loops, again : BOOLEAN]
NoPoll == [at |-> "idle", snapshot |-> {}, delivery |-> NoRun, cancels |-> {}, due |-> {},
           again |-> FALSE]

Held == {r \in Runs : held[r] # "none"}
Executing == {r \in Runs : held[r] = "executing"}
At(p, step) == poll[p].at = step

-----------------------------------------------------------------------------
(* A poll, from the request to the answer.                                 *)

SnapshotOfExecuting == Executing
Snapshot == Held

Send ==
  /\ daemon = "up" /\ At("current", "idle")
  /\ poll' = [poll EXCEPT !["current"] = [NoPoll EXCEPT !.at = "sent", !.snapshot = Snapshot]]
  /\ UNCHANGED <<vars, daemon, held, aborted, agent, outbox, silent, swept, faults>>

ToStep(p, step) ==
  /\ poll' = [poll EXCEPT ![p].at = step]
  /\ UNCHANGED <<daemon, held, aborted, agent, outbox, silent, swept, faults>>

\* refreshRunHeartbeats: of the runs the daemon names.
Heartbeat(p) ==
  /\ At(p, "sent")
  /\ poll' = [poll EXCEPT ![p].at = "heard"]
  /\ silent' = silent \ poll[p].snapshot
  /\ UNCHANGED <<vars, daemon, held, aborted, agent, outbox, swept, faults>>

\* advanceDueSchedules reads which loops are due now ...
Due(l) == Present(l) /\ loop[l].enabled /\ ~loop[l].deleting /\ loop[l].cadence = "due"
ReadDue(p) ==
  /\ poll' = [poll EXCEPT ![p].at = "released", ![p].due = {l \in Loops : Due(l)}]
  /\ UNCHANGED <<daemon, held, aborted, agent, outbox, silent, swept, faults>>

ReleaseAll(p) ==
  /\ At(p, "heard")
  /\ ReleaseAbsentReconciliations({})
  /\ ReadDue(p)

ReleaseNothing(p) == At(p, "heard") /\ UNCHANGED vars /\ ReadDue(p)

\* releaseAbsentReconciliations.
Release(p) ==
  /\ At(p, "heard")
  /\ ReleaseAbsentReconciliations(poll[p].snapshot)
  /\ ReadDue(p)

\* ... and takes them one transaction at a time, which looks again.
Advances(l) == Due(l) /\ ~GraceHolds(l) /\ \E r \in Runs : Fresh(r)
Advance(p) ==
  /\ At(p, "released")
  /\ \/ \E l \in poll[p].due :
          /\ AdvanceSchedule(l) \/ (~Advances(l) /\ UNCHANGED vars)
          /\ poll' = [poll EXCEPT ![p].due = @ \ {l}]
          /\ UNCHANGED <<daemon, held, aborted, agent, outbox, silent, swept, faults>>
     \/ /\ poll[p].due = {} /\ UNCHANGED vars /\ ToStep(p, "claim")

Claim(p) ==
  /\ At(p, "claim")
  /\ \/ \E r \in Runs :
          /\ ClaimReadyRun(r, poll[p].snapshot)
          /\ poll' = [poll EXCEPT ![p].at = "claimed", ![p].delivery = r]
     \/ /\ \A r \in Runs : ~Claimable(r, poll[p].snapshot)
        /\ poll' = [poll EXCEPT ![p].at = "claimed"]
        /\ UNCHANGED vars
  /\ UNCHANGED <<daemon, held, aborted, agent, outbox, silent, swept, faults>>

Respond(p) ==
  /\ At(p, "claimed")
  /\ poll' = [poll EXCEPT ![p].at = "answered",
                ![p].cancels = {r \in poll[p].snapshot : run[r].phase = "running" /\ run[r].cancel}]
  /\ UNCHANGED <<vars, daemon, held, aborted, agent, outbox, silent, swept, faults>>

\* pollV4Wait: the poll of a daemon that holds nothing waits for work, and is
\* then done a second time with the same request.
PollAgain(p) ==
  /\ At(p, "answered") /\ poll[p].snapshot = {} /\ poll[p].delivery = NoRun /\ ~poll[p].again
  /\ poll' = [poll EXCEPT ![p].at = "sent", ![p].again = TRUE]
  /\ UNCHANGED <<vars, daemon, held, aborted, agent, outbox, silent, swept, faults>>

\* A restored entry does not say which loop it occupies.
Occupies(r) == held[r] \in {"executing", "reporting"}
CanAccept(r) ==
  /\ held[r] = "none"
  /\ \A q \in Runs : Occupies(q) => run[q].loop # run[r].loop

Receive ==
  LET answer == poll["current"]
      r == answer.delivery
  IN  /\ daemon = "up" /\ answer.at = "answered"
      /\ aborted' = [q \in Runs |-> IF q \in answer.cancels /\ held[q] = "executing"
                                       /\ aborted[q] = "none"
                                    THEN "cancel" ELSE aborted[q]]
      /\ held' = IF r # NoRun /\ CanAccept(r) THEN [held EXCEPT ![r] = "executing"] ELSE held
      /\ poll' = [poll EXCEPT !["current"] = NoPoll]
      /\ UNCHANGED <<vars, daemon, agent, outbox, silent, swept, faults>>

\* The answer to a poll the daemon gave up reaches nobody.
Discard ==
  /\ At("abandoned", "answered")
  /\ poll' = [poll EXCEPT !["abandoned"] = NoPoll]
  /\ UNCHANGED <<vars, daemon, held, aborted, agent, outbox, silent, swept, faults>>

\* The daemon stops waiting; what the server has begun it will finish.
HangUp ==
  LET left == At("current", "idle") \/ At("current", "answered")
  IN  /\ left \/ At("abandoned", "idle")
      /\ poll' = [p \in Requests |-> IF p = "abandoned" /\ ~left THEN poll["current"]
                                     ELSE IF p = "abandoned" THEN poll["abandoned"] ELSE NoPoll]

-----------------------------------------------------------------------------
(* An execution.                                                           *)

Spawn(r) ==
  /\ r \in Executing /\ agent[r] = "none" /\ aborted[r] = "none"
  /\ agent' = [agent EXCEPT ![r] = "alive"]
  /\ UNCHANGED <<vars, daemon, held, aborted, outbox, poll, silent, swept, faults>>

\* Aborted before the provider is spawned.
SkipSpawn(r) ==
  /\ r \in Executing /\ agent[r] = "none" /\ aborted[r] # "none"
  /\ agent' = [agent EXCEPT ![r] = IF aborted[r] = "cancel" THEN "canceled" ELSE "failure"]
  /\ UNCHANGED <<vars, daemon, held, aborted, outbox, poll, silent, swept, faults>>

\* An agent that is terminated at a cancel counts as canceled, however it ends; at
\* a shutdown what it ends with counts.  An error event of a child that was started is
\* left out: it makes a failure of either, and the agent may outlive it (ErrorEvent of
\* RunProcess).
EndsWith(r) == IF aborted[r] = "cancel" THEN {"canceled"} ELSE Results
\* An agent that has outlived its daemon ends unheard.
Exit(r) ==
  /\ agent[r] = "alive"
  /\ \E result \in (IF r \in Executing THEN EndsWith(r) ELSE {"none"}) :
       agent' = [agent EXCEPT ![r] = result]
  /\ UNCHANGED <<vars, daemon, held, aborted, outbox, poll, silent, swept, faults>>

\* outbox.put, retried until it succeeds.
Persist(r) ==
  /\ r \in Executing /\ agent[r] \in Ended
  /\ outbox' = [outbox EXCEPT ![r] = agent[r]]
  /\ held' = [held EXCEPT ![r] = "reporting"]
  /\ agent' = [agent EXCEPT ![r] = "none"] /\ aborted' = [aborted EXCEPT ![r] = "none"]
  /\ UNCHANGED <<vars, daemon, poll, silent, swept, faults>>

\* The server handles a copy of the report; its answer may still be lost.
Report(r) ==
  /\ daemon = "up" /\ outbox[r] # "none"
  /\ \/ FinalizeRunningRun(r, r, outbox[r])
     \/ ReconcileReclaimedRun(r, r, outbox[r])
     \/ AcknowledgeRetiredReport(r, r)
  /\ UNCHANGED dvars

AcknowledgeAccepted(r) ==
  /\ daemon = "up" /\ outbox[r] # "none" /\ receipt[r] = [run |-> r, status |-> 200]
  /\ outbox' = [outbox EXCEPT ![r] = "none"]
  /\ held' = [held EXCEPT ![r] = "none"]
  /\ UNCHANGED <<vars, daemon, aborted, agent, poll, silent, swept, faults>>

\* An answer arrives: 200 and 410 are for good.
Acknowledge(r) ==
  /\ daemon = "up" /\ outbox[r] # "none" /\ receipt[r].run = r
  /\ outbox' = [outbox EXCEPT ![r] = "none"]
  /\ held' = [held EXCEPT ![r] = "none"]
  /\ UNCHANGED <<vars, daemon, aborted, agent, poll, silent, swept, faults>>

-----------------------------------------------------------------------------
(* The process itself.                                                     *)

Fault == faults < MaxFaults /\ faults' = faults + 1

\* SIGTERM: no more polls and reports, and every execution is aborted.
Terminate ==
  /\ daemon = "up" /\ daemon' = "stopping" /\ Fault
  /\ HangUp
  /\ aborted' = [r \in Runs |-> IF r \in Executing /\ aborted[r] = "none"
                                THEN "shutdown" ELSE aborted[r]]
  /\ UNCHANGED <<vars, held, agent, outbox, silent, swept>>

StoppedAtOnce ==
  /\ daemon = "stopping" /\ daemon' = "down"
  /\ held' = [r \in Runs |-> "none"]
  /\ UNCHANGED <<vars, aborted, agent, outbox, poll, silent, swept, faults>>

\* waitForPersistence: it exits when the last result is in the outbox.
Stopped ==
  /\ daemon = "stopping" /\ daemon' = "down" /\ Executing = {}
  /\ held' = [r \in Runs |-> "none"]
  /\ UNCHANGED <<vars, aborted, agent, outbox, poll, silent, swept, faults>>

\* SIGKILL, or the whole machine goes down.
Killed(r) == IF agent[r] = "alive" /\ Orphans THEN "alive" ELSE "none"
Kill ==
  /\ daemon # "down" /\ daemon' = "down" /\ Fault
  /\ HangUp
  /\ held' = [r \in Runs |-> "none"]
  /\ agent' = [r \in Runs |-> Killed(r)]
  /\ aborted' = [r \in Runs |-> "none"]
  /\ UNCHANGED <<vars, outbox, silent, swept>>

Restored == [r \in Runs |-> IF outbox[r] # "none" THEN "restored" ELSE "none"]
Start ==
  /\ daemon = "down" /\ daemon' = "up"
  /\ held' = Restored
  /\ UNCHANGED <<vars, aborted, agent, outbox, poll, silent, swept, faults>>

\* The request never arrives, its answer is lost, or the daemon gives it up.
LosePoll ==
  /\ daemon = "up" /\ ~At("current", "idle") /\ Fault
  /\ \/ HangUp
     \/ At("current", "sent") /\ poll' = [poll EXCEPT !["current"] = NoPoll]
  /\ UNCHANGED <<vars, daemon, held, aborted, agent, outbox, silent, swept>>

\* The server stops: requests break off, the sweep forgets what it read.
ServerRestarts ==
  /\ Fault
  /\ poll' = [p \in Requests |-> NoPoll] /\ swept' = {}
  /\ UNCHANGED <<vars, daemon, held, aborted, agent, outbox, silent>>

-----------------------------------------------------------------------------
(* The sweep, the clock and the owner.                                     *)

\* Twenty minutes without a heartbeat.  No request lives that long: one that was
\* in flight when the run was claimed has been processed, or is gone.
GoesSilent(r) ==
  /\ run[r].phase = "running" /\ r \notin silent
  /\ At("abandoned", "idle") /\ poll["current"].delivery # r
  /\ silent' = silent \cup {r}
  /\ UNCHANGED <<vars, daemon, held, aborted, agent, outbox, poll, swept, faults>>

\* The sweep reads all open runs first ...
SweepReads ==
  LET read == {r \in silent : run[r].phase = "running"}
  IN  /\ swept = {} /\ read # {} /\ swept' = read
      /\ UNCHANGED <<vars, daemon, held, aborted, agent, outbox, poll, silent, faults>>

\* ... and gives up those it read as silent, unless they have ended.
SweepReclaims(r) ==
  /\ r \in swept /\ swept' = swept \ {r} /\ silent' = silent \ {r}
  /\ \/ ReclaimRun(r)
     \/ run[r].phase # "running" /\ UNCHANGED vars
  /\ UNCHANGED <<daemon, held, aborted, agent, outbox, poll, faults>>

\* 24 hours after a run was given up; the machine may have been asleep meanwhile.
GraceElapses(r) == At("abandoned", "idle") /\ LeaseElapses(r) /\ UNCHANGED dvars
Prune(r) == RetireElapsed(r) /\ UNCHANGED dvars

CadenceDue(l) ==
  /\ "schedule" \in Stimuli /\ (\E r \in Runs : Fresh(r))
  /\ CadenceFallsDue(l) /\ UNCHANGED dvars

Owner ==
  /\ UNCHANGED dvars
  /\ \/ "run" \in Stimuli /\ \E l \in Loops : EnqueueRun(l)
     \/ "cancel" \in Stimuli /\ \E r \in Runs : RequestRunCancel(r)
     \/ "delete" \in Stimuli /\ \E l \in Loops : RequestDeleteLoop(l)
     \/ "force-delete" \in Stimuli /\ \E l \in Loops : ForceDeleteLoop(l)

Delete(l) == TryDeleteLoop(l) /\ UNCHANGED dvars

-----------------------------------------------------------------------------
DaemonInit ==
  /\ machine = "online"
  /\ loop = [l \in Loops |->
       [state |-> "present", enabled |-> TRUE, mode |-> "cron", overlap |-> "queue-one",
        cadence |-> "future", deleting |-> FALSE, lastRunIndex |-> 0]]
  /\ run = [r \in Runs |-> [phase |-> "unborn", loop |-> NoLoop, by |-> "system",
                            index |-> 0, cancel |-> FALSE]]
  /\ lease = [r \in Runs |-> [state |-> "none", elapsed |-> FALSE]]
  /\ receipt = [rid \in ReportIds |-> [run |-> NoRun, status |-> 0]]
  /\ incident = {}
  /\ daemon = "up"
  /\ held = [r \in Runs |-> "none"]
  /\ aborted = [r \in Runs |-> "none"]
  /\ agent = [r \in Runs |-> "none"]
  /\ outbox = [r \in Runs |-> "none"]
  /\ poll = [p \in Requests |-> NoPoll]
  /\ silent = {} /\ swept = {} /\ faults = 0

Serve(p) == \/ Heartbeat(p) \/ Release(p) \/ Advance(p) \/ Claim(p) \/ Respond(p)

Execute(r) == Spawn(r) \/ SkipSpawn(r) \/ Exit(r) \/ Persist(r)

DaemonNext ==
  \/ Send \/ Receive \/ Discard \/ LosePoll
  \/ \E p \in Requests : Serve(p) \/ PollAgain(p)
  \/ \E r \in Runs : \/ Execute(r) \/ Report(r) \/ Acknowledge(r)
                     \/ GoesSilent(r) \/ SweepReclaims(r) \/ GraceElapses(r) \/ Prune(r)
  \/ Terminate \/ Stopped \/ Kill \/ Start
  \/ ServerRestarts \/ SweepReads \/ Owner
  \/ \E l \in Loops : CadenceDue(l) \/ Delete(l)

DaemonSpec == DaemonInit /\ [][DaemonNext]_sysVars

\* The daemon's process goes on (a stopped one is started again), the server handles
\* what reached it, agents end (they are given PIEVO_EXEC_TIMEOUT_MS) and reports are
\* retried, the sweep comes round, and time passes for a run nobody mentions.  Faults
\* and the owner's verbs are not fair.
Process == Send \/ Receive \/ Stopped \/ Start
Carry(r) == Execute(r) \/ Report(r) \/ Acknowledge(r)
Sweep == SweepReads \/ (\E r \in Runs : SweepReclaims(r) \/ Prune(r)) \/ \E l \in Loops : Delete(l)

DaemonFairness ==
  /\ WF_sysVars(Process)
  /\ \A p \in Requests : WF_sysVars(Serve(p) \/ (p = "abandoned" /\ Discard))
  /\ \A r \in Runs : WF_sysVars(Carry(r)) /\ WF_sysVars(r \notin Held /\ GoesSilent(r))
  /\ WF_sysVars(Sweep)

FairDaemonSpec == DaemonSpec /\ DaemonFairness

-----------------------------------------------------------------------------
(* Properties.                                                             *)

\* Daemon, requests, agents and outbox have their shapes.
DaemonTypeOK ==
  /\ daemon \in {"up", "stopping", "down"}
  /\ held \in [Runs -> Stages]
  /\ aborted \in [Runs -> {"none", "cancel", "shutdown"}]
  /\ agent \in [Runs -> AgentStates]
  /\ outbox \in [Runs -> {"none"} \cup Ended]
  /\ poll \in [Requests -> PollRow]
  /\ silent \subseteq Runs /\ swept \subseteq Runs /\ faults \in 0..MaxFaults

\* Runs of a loop never overlap: whatever is swept, canceled, lost, given up or
\* restarted, no two agents work on one loop at a time.  (Of agents whose child process
\* got an error event this says nothing: see EndsWith.)
OneAgentPerLoop ==
  \A q, r \in Runs : agent[q] = "alive" /\ agent[r] = "alive" /\ run[q].loop = run[r].loop => q = r

\* When a poll makes a swept run stop holding up its loop because the daemon does
\* not name it, no agent executes it: it is absent from the snapshot because it has
\* ended, not because the snapshot is old.
ReleasedRunsAreOver ==
  [][\A r \in Runs : lease[r].state = "terminal-grace" /\ lease'[r].state = "reconciliation-only"
                      => agent[r] # "alive"]_sysVars

\* The server never answers a poll with a run of a loop that the daemon still
\* executes or reports: a run that is claimed is accepted.
DeliveriesAreAccepted ==
  daemon = "up" /\ At("current", "answered") /\ poll["current"].delivery # NoRun
    => CanAccept(poll["current"].delivery)

\* A result in the outbox is the only copy there is: until the server has taken it
\* over, the run can still be reported, however long ago it was given up.
OutboxIsReportable ==
  \A r \in Runs : outbox[r] # "none" =>
    \/ receipt[r].run = r
    \/ lease[r].state \in {"active", "terminal-grace", "reconciliation-only", "retired"}

\* Every result reaches the server and leaves the outbox, whatever was lost on the
\* way, and although the run was given up, disowned, retired or deleted meanwhile.
OutboxDrains == \A r \in Runs : outbox[r] # "none" ~> outbox[r] = "none"

\* What is queued runs and ends, or is canceled: a run that was swept does not block
\* its loop for long, because the next snapshot says whether it still executes; and a
\* claimed run ends by its report, or by the sweep if the answer that carried it, the
\* agent or its result was lost.
QueuedRunsEnd == \A r \in Runs : run[r].phase \in Open ~> run[r].phase \notin Open

\* A deletion the owner asked for completes without waiting for the grace period.
DeletionsComplete == \A l \in Loops : loop[l].deleting ~> ~Present(l)
=============================================================================
