------------------------------ MODULE RunStore ------------------------------
(***************************************************************************)
(* The durable state of the Pievo server and every transaction that        *)
(* writes it: loops, their runs, the run leases, and the report receipts   *)
(* and incidents (packages/server/src/db/store.ts).                        *)
(*                                                                         *)
(* Every action below is ONE database transaction.  Each of them first     *)
(* locks the row of the loop it works on, so transactions of a loop are    *)
(* serialised and an action is a single step.  WHO calls a transaction,    *)
(* and with which stale observations, is left open here: the gateway, the  *)
(* sweep and the dashboard may call any of them at any time.  What this    *)
(* module establishes therefore holds whatever order the callers choose.   *)
(*                                                                         *)
(* Data is reduced to what the transactions branch on.  Time becomes two   *)
(* facts: a cadence is still in the FUTURE or has fallen DUE, and the      *)
(* expiry of a lease has ELAPSED or not.  A run's text, usage and          *)
(* telemetry are left out; its memory is the subject of LoopMemory.        *)
(***************************************************************************)
EXTENDS Integers, FiniteSets

CONSTANTS
  Loops,            \* the ids of the loops of one machine
  NoLoop,           \* the loop of a run that does not exist yet
  MaxRuns,          \* runs ever inserted (bound)
  ReportIds,        \* the reportIds daemons choose
  AutopauseStreak,  \* PIEVO_FAILURE_AUTOPAUSE_STREAK; 0 switches it off
  ModesInUse,       \* the schedule modes owners choose
  OverlapsInUse     \* the cron overlap policies owners choose

Modes == {"cron", "continuous"}
Overlaps == {"skip", "queue-one"}

ASSUME ConstantsAssumption ==
  /\ NoLoop \notin Loops
  /\ ModesInUse \subseteq Modes /\ OverlapsInUse \subseteq Overlaps
  /\ MaxRuns \in Nat
  /\ AutopauseStreak \in Nat

VARIABLES
  machine,    \* the machine row: is it there, and is it marked online
  loop,       \* table loops
  run,        \* table runs; row r is the r-th run inserted
  lease,      \* table run_leases; at most one lease is minted per run
  receipt,    \* table run_report_receipts, by reportId
  incident    \* table terminal_report_incidents: <<reportId, run>>

vars == <<machine, loop, run, lease, receipt, incident>>

-----------------------------------------------------------------------------
(* Rows.                                                                   *)

Runs == 1..MaxRuns
NoRun == 0

LoopRow == [state : {"unborn", "present", "deleted"}, enabled : BOOLEAN,
            mode : Modes, overlap : Overlaps,
            cadence : {"none", "future", "due"},      \* nextCadenceAt
            deleting : BOOLEAN,                       \* deleteRequestedAt
            lastRunIndex : Nat]

RunRow == [phase : {"unborn", "pending", "running", "done", "error",
                    "canceled", "deleted"},
           loop : Loops \cup {NoLoop}, by : {"owner", "system"},
           index : Nat,                               \* runIndex, 0 for null
           cancel : BOOLEAN]                          \* cancelRequestedAt

\* "none": never minted; "consumed": the row was deleted.
LeaseRow == [state : {"none", "active", "terminal-grace",
                      "reconciliation-only", "retired", "consumed"},
             elapsed : BOOLEAN]                       \* expiresAt has passed

ReceiptRow == [run : Runs \cup {NoRun}, status : {0, 200, 410}]

Terminal == {"done", "error", "canceled"}
Open == {"pending", "running"}

-----------------------------------------------------------------------------
(* What the transactions read.                                             *)

Present(l) == loop[l].state = "present"
HasPhase(l, phases) == \E r \in Runs : run[r].loop = l /\ run[r].phase \in phases

\* The runs a daemon was ever handed, and so may report.
Minted == {r \in Runs : lease[r].state # "none"}

\* Runs are inserted in the order of their numbers, so createdAt is the number.
Fresh(r) == run[r].phase = "unborn" /\ \A q \in 1..(r - 1) : run[q].phase # "unborn"

\* A live terminal-grace lease: a swept process may still be running.
Grace(r) == lease[r].state = "terminal-grace" /\ ~lease[r].elapsed
Fences(r) == lease[r].state = "active" \/ Grace(r)
FencedByActive(l) == \E r \in Runs : run[r].loop = l /\ lease[r].state = "active"
Fenced(l) == \E r \in Runs : run[r].loop = l /\ Fences(r)

\* Authority to report late, checked against the clock inside the transaction.
Reconcilable(r) == /\ lease[r].state \in {"terminal-grace", "reconciliation-only"}
                   /\ ~lease[r].elapsed

Queued(l, who) == {r \in Runs : run[r].loop = l /\ run[r].phase = "pending"
                                 /\ run[r].by \in who}
-----------------------------------------------------------------------------
(* Pieces of a transaction: the rows it leaves behind.                     *)

\* cancelPendingTx: the queue slot ends as canceled, with a history number.
QueueCanceled(l, who) ==
  [r \in Runs |-> IF r \in Queued(l, who)
                  THEN [run[r] EXCEPT !.phase = "canceled",
                                      !.index = loop[l].lastRunIndex + 1]
                  ELSE run[r]]

IndexKept(l, who) == loop[l].lastRunIndex
IndexAfterCancel(l, who) ==
  IF Queued(l, who) = {} THEN loop[l].lastRunIndex ELSE loop[l].lastRunIndex + 1

\* updateLoopTx.  on is the patch's value for enabled or "keep"; m and o are the
\* mode and overlap left effective; retimed: its cron or timezone changes.
EnabledBy(on, row) == IF on = "keep" THEN row.enabled ELSE on = "yes"
CadenceBy(l, enabled, m, retimed) ==
  LET row == loop[l]
      activating == ~row.enabled \/ m # row.mode
  IN  CASE ~enabled -> "none"
        [] enabled /\ activating /\ m = "cron" -> "future"
        [] enabled /\ activating /\ m = "continuous" ->
             IF HasPhase(l, Open) THEN "none" ELSE "due"
        [] enabled /\ ~activating ->
             IF retimed /\ m = "cron" THEN "future" ELSE row.cadence

PatchLoop(l, on, m, o, retimed) ==
  LET enabled == EnabledBy(on, loop[l]) /\ ~loop[l].deleting
  IN  /\ Present(l)
      /\ loop' = [loop EXCEPT ![l].enabled = enabled, ![l].mode = m,
                   ![l].overlap = o, ![l].cadence = CadenceBy(l, enabled, m, retimed),
                   ![l].lastRunIndex = IF on = "no" THEN IndexAfterCancel(l, {"system"})
                                       ELSE @]
      /\ run' = IF on = "no" THEN QueueCanceled(l, {"system"}) ELSE run
      /\ UNCHANGED <<machine, lease, receipt, incident>>

\* failureStreakTx: the errors numbered after the last done run, r being at ph.
FailureStreak(r, ph) ==
  LET at(q) == IF q = r THEN ph ELSE run[q].phase
      Of(phase) == {q \in Runs : run[q].loop = run[r].loop /\ at(q) = phase}
  IN  Cardinality({q \in Of("error") :
                     \A d \in Of("done") : run[d].index < run[q].index})

\* terminalLifecycleTx: does this terminal result switch the loop off?
Pauses(r, ph, block, streak) ==
  \/ ph = "done" /\ block
  \/ /\ ph = "error" /\ streak > 0 /\ loop[run[r].loop].enabled
     /\ FailureStreak(r, ph) >= streak

\* Only a success schedules the next run.
CadenceAfterSuccess(r, ph) ==
  LET row == loop[run[r].loop]
  IN  IF row.mode = "continuous" /\ ph = "done" /\ row.enabled THEN "future" ELSE row.cadence

\* terminalLifecycleTx: the next cadence of a loop that stays as it is.
CadenceAfter(r, ph) ==
  LET row == loop[run[r].loop]
      busy == \E q \in Runs \ {r} : run[q].loop = run[r].loop /\ run[q].phase \in Open
  IN  IF row.mode = "continuous" /\ ph \in {"done", "error"}
      THEN IF row.enabled /\ ~busy THEN "future" ELSE "none"
      ELSE row.cadence

\* Run r becomes ph, and the loop follows.
SettleRun(r, ph, block, streak) ==
  LET l == run[r].loop
      pauses == Pauses(r, ph, block, streak)
      rows == IF pauses THEN QueueCanceled(l, {"system"}) ELSE run
  IN  /\ run' = [rows EXCEPT ![r].phase = ph]
      /\ loop' = [loop EXCEPT ![l] =
           IF pauses THEN [@ EXCEPT !.enabled = FALSE, !.cadence = "none",
                                    !.lastRunIndex = IndexAfterCancel(l, {"system"})]
                     ELSE [@ EXCEPT !.cadence = CadenceAfter(r, ph)]]

\* deleteLoopDataTx, after the leases that stay were retired.
DropLoopRows(S) ==
  /\ loop' = [l \in Loops |-> IF l \in S
                THEN [loop[l] EXCEPT !.state = "deleted", !.enabled = FALSE,
                                     !.cadence = "none"]
                ELSE loop[l]]
  /\ run' = [r \in Runs |-> IF run[r].loop \in S
                            THEN [run[r] EXCEPT !.phase = "deleted"] ELSE run[r]]

RetireByDeleting(S, states) ==
  lease' = [r \in Runs |-> IF run[r].loop \in S /\ lease[r].state # "none"
                           THEN [state |-> "consumed", elapsed |-> FALSE] ELSE lease[r]]
RetireLeases(S, states) ==
  lease' = [r \in Runs |-> IF run[r].loop \in S /\ lease[r].state \in states
                           THEN [state |-> "retired", elapsed |-> FALSE] ELSE lease[r]]
-----------------------------------------------------------------------------
(* Owner transactions.                                                     *)

\* rowSchedule: what the row of a continuous loop says of overlap.
RowSchedule(m, o) == m = "continuous" => o = "queue-one"

\* createLoop, fenced by the machine row so that a machine deletion waits.
CreateLoop(l, e, m, o) ==
  /\ machine # "deleted" /\ loop[l].state = "unborn" /\ RowSchedule(m, o)
  /\ loop' = [loop EXCEPT ![l] =
       [state |-> "present", enabled |-> e, mode |-> m, overlap |-> o,
        cadence |-> IF ~e THEN "none" ELSE IF m = "continuous" THEN "due" ELSE "future",
        deleting |-> FALSE, lastRunIndex |-> 0]]
  /\ UNCHANGED <<machine, run, lease, receipt, incident>>

UpdateLoop(l) == \E on \in {"keep", "yes", "no"}, m \in ModesInUse, o \in OverlapsInUse,
                    retimed \in BOOLEAN : RowSchedule(m, o) /\ PatchLoop(l, on, m, o, retimed)

PauseLoop(l) == PatchLoop(l, "no", loop[l].mode, loop[l].overlap, FALSE)

StartLoop(l) == /\ ~loop[l].deleting
                /\ PatchLoop(l, "yes", loop[l].mode, loop[l].overlap, FALSE)

\* stopLoopTx: nothing queued survives, and what runs is asked to stop.
StopRowsUnmarked(l) == QueueCanceled(l, {"owner", "system"})
StopRows(l) ==
  [r \in Runs |-> IF run[r].loop = l /\ run[r].phase = "running"
                  THEN [run[r] EXCEPT !.cancel = TRUE]
                  ELSE QueueCanceled(l, {"owner", "system"})[r]]
Stop(l, deleting) ==
  /\ Present(l)
  /\ loop' = [loop EXCEPT ![l].enabled = FALSE, ![l].cadence = "none",
                ![l].deleting = deleting,
                ![l].lastRunIndex = IndexAfterCancel(l, {"owner", "system"})]
  /\ run' = StopRows(l)
  /\ UNCHANGED <<machine, lease, receipt, incident>>

StopLoop(l) == Stop(l, loop[l].deleting)
RequestDeleteLoop(l) == Stop(l, TRUE)

RequestRunCancel(r) ==
  /\ \/ /\ run[r].phase = "pending"
        /\ run' = [run EXCEPT ![r].phase = "canceled",
                              ![r].index = loop[run[r].loop].lastRunIndex + 1]
        /\ loop' = [loop EXCEPT ![run[r].loop].lastRunIndex = @ + 1]
     \/ /\ run[r].phase = "running"
        /\ run' = [run EXCEPT ![r].cancel = TRUE]
        /\ UNCHANGED loop
  /\ UNCHANGED <<machine, lease, receipt, incident>>

\* Tombstones hold the deletion up, too.
TryDeleteLoopUnleased(l) ==
  /\ Present(l) /\ loop[l].deleting /\ ~HasPhase(l, Open)
  /\ \A r \in Runs : run[r].loop = l => lease[r].state \in {"none", "consumed"}
  /\ DropLoopRows({l})
  /\ UNCHANGED <<machine, lease, receipt, incident>>

\* The expiry of a terminal-grace lease is not looked at: an elapsed one blocks
\* the deletion until it is retired.
Deletable(l) ==
  /\ Present(l) /\ loop[l].deleting /\ ~HasPhase(l, Open)
  /\ \A r \in Runs : run[r].loop = l => lease[r].state \notin {"active", "terminal-grace"}
TryDeleteLoop(l) ==
  /\ Deletable(l)
  /\ RetireLeases({l}, {"reconciliation-only"})
  /\ DropLoopRows({l})
  /\ UNCHANGED <<machine, receipt, incident>>

Authorities == {"active", "terminal-grace", "reconciliation-only", "retired"}

ForceDeleteLoop(l) ==
  /\ Present(l)
  /\ RetireLeases({l}, Authorities)
  /\ DropLoopRows({l})
  /\ UNCHANGED <<machine, receipt, incident>>

ForceDeleteMachine ==
  LET owned == {l \in Loops : Present(l)}
  IN  /\ machine # "deleted"
      /\ machine' = "deleted"
      /\ RetireLeases(owned, Authorities)
      /\ DropLoopRows(owned)
      /\ UNCHANGED <<receipt, incident>>

-----------------------------------------------------------------------------
(* The run queue.                                                          *)

\* enqueueRunTx: coalesce with the queued run, where the owner's claim wins, or
\* insert.
Enqueue(l, who) ==
  IF HasPhase(l, {"pending"})
  THEN run' = [r \in Runs |-> IF run[r].loop = l /\ run[r].phase = "pending" /\ who = "owner"
                              THEN [run[r] EXCEPT !.by = "owner"] ELSE run[r]]
  ELSE \E r \in Runs :
         /\ Fresh(r)
         /\ run' = [run EXCEPT ![r] = [phase |-> "pending", loop |-> l, by |-> who,
                                       index |-> 0, cancel |-> FALSE]]

\* runNow: Run-once works on a paused loop too.
EnqueueRun(l) ==
  /\ Present(l) /\ ~loop[l].deleting
  /\ Enqueue(l, "owner")
  /\ UNCHANGED <<machine, loop, lease, receipt, incident>>

\* advanceDueSchedules, for one loop.
SkipsOccurrence(l) ==
  /\ HasPhase(l, Open)
  /\ loop[l].mode = "continuous" \/ loop[l].overlap = "skip"
GraceHolds(l) == \E r \in Runs : run[r].loop = l /\ Grace(r)
AdvanceSchedule(l) ==
  /\ Present(l) /\ loop[l].enabled /\ ~loop[l].deleting /\ loop[l].cadence = "due"
  /\ ~GraceHolds(l)
  /\ IF SkipsOccurrence(l) THEN UNCHANGED run ELSE Enqueue(l, "system")
  /\ loop' = [loop EXCEPT ![l].cadence = IF loop[l].mode = "cron" THEN "future" ELSE "none"]
  /\ UNCHANGED <<machine, lease, receipt, incident>>

\* Only the running run of a loop keeps another from starting.
ClaimableBehindGrace(r, reported) ==
  LET l == run[r].loop
  IN  /\ run[r].phase = "pending" /\ ~run[r].cancel
      /\ loop[l].enabled \/ run[r].by = "owner"
      /\ ~loop[l].deleting
      /\ l \notin {run[q].loop : q \in reported}
      /\ ~HasPhase(l, {"running"})

\* claimReadyRunForMachine: what may be handed to the daemon, which reported the
\* runs it still holds (in a poll request, so as they were some time ago).
Claimable(r, reported) ==
  LET l == run[r].loop
  IN  /\ run[r].phase = "pending" /\ ~run[r].cancel
      /\ loop[l].enabled \/ run[r].by = "owner"
      /\ ~loop[l].deleting
      /\ l \notin {run[q].loop : q \in reported}
      /\ ~HasPhase(l, {"running"})
      /\ ~Fenced(l)
ClaimReadyRun(r, reported) ==
  LET l == run[r].loop
  IN  /\ machine # "deleted"
      /\ Claimable(r, reported) /\ \A q \in 1..(r - 1) : ~Claimable(q, reported)
      /\ run' = [run EXCEPT ![r].phase = "running", ![r].index = loop[l].lastRunIndex + 1]
      /\ loop' = [loop EXCEPT ![l].lastRunIndex = @ + 1,
                    ![l].cadence = IF loop[l].mode = "continuous" THEN "none" ELSE @]
      /\ lease' = [lease EXCEPT ![r] = [state |-> "active", elapsed |-> FALSE]]
      /\ UNCHANGED <<machine, receipt, incident>>

\* expirePendingRun: only unattended work of an offline machine is dropped.
ExpirePendingRun(r) ==
  /\ run[r].phase = "pending" /\ run[r].by = "system" /\ machine # "online"
  /\ run' = [run EXCEPT ![r].phase = "canceled",
                        ![r].index = loop[run[r].loop].lastRunIndex + 1]
  /\ loop' = [loop EXCEPT ![run[r].loop].lastRunIndex = @ + 1]
  /\ UNCHANGED <<machine, lease, receipt, incident>>

-----------------------------------------------------------------------------
(* The end of a run.                                                       *)

\* What a report says: ok and block are the statuses of a successful exit.
Outcomes == {"ok", "block", "failure", "canceled"}
PhaseOf(outcome) == CASE outcome \in {"ok", "block"} -> "done"
                      [] outcome = "failure" -> "error"
                      [] outcome = "canceled" -> "canceled"

LeaseKept(r) == UNCHANGED lease
Consume(r) == lease' = [lease EXCEPT ![r] = [state |-> "consumed", elapsed |-> FALSE]]
AnyReceipt(rid) == TRUE
Unanswered(rid) == receipt[rid].run = NoRun
Answer(r, rid, status) == receipt' = [receipt EXCEPT ![rid] = [run |-> r, status |-> status]]
NoIncident(rid) == \A q \in Runs : <<rid, q>> \notin incident
OwnedByAnother(rid, r) == \/ receipt[rid].run \notin {NoRun, r}
                          \/ \E q \in Runs \ {r} : <<rid, q>> \in incident

\* finalizeRunningRun.  A receipt of the same reportId makes the insert, and so
\* the whole transaction, fail.
FinalizeRunningRun(r, rid, outcome) ==
  /\ run[r].phase = "running" /\ lease[r].state = "active"
  /\ NoIncident(rid) /\ Unanswered(rid)
  /\ SettleRun(r, PhaseOf(outcome), outcome = "block", AutopauseStreak)
  /\ Consume(r) /\ Answer(r, rid, 200)
  /\ UNCHANGED <<machine, incident>>

\* reconcileReclaimedRun: the late report of a run the sweep gave up.  Once the
\* daemon disavowed the run, the loop has moved on and is left alone.
ReconcileReclaimedRun(r, rid, outcome) ==
  /\ run[r].phase = "error" /\ Reconcilable(r)
  /\ NoIncident(rid) /\ Unanswered(rid)
  /\ IF lease[r].state = "reconciliation-only"
     THEN run' = [run EXCEPT ![r].phase = PhaseOf(outcome)] /\ UNCHANGED loop
     ELSE SettleRun(r, PhaseOf(outcome), outcome = "block", AutopauseStreak)
  /\ Consume(r) /\ Answer(r, rid, 200)
  /\ UNCHANGED <<machine, incident>>

\* rejectTerminalReport: an unacceptable report is still an end of the run.
Rejectable(r) == \/ run[r].phase = "running" /\ lease[r].state = "active"
                 \/ run[r].phase \in Terminal /\ Reconcilable(r)
RejectTerminalReport(r, rid) ==
  /\ Rejectable(r)
  /\ receipt[rid].run # r /\ <<rid, r>> \notin incident
  /\ \/ /\ run[r].phase = "running"
        /\ SettleRun(r, "error", FALSE, AutopauseStreak)
     \/ /\ run[r].phase \in Terminal
        /\ UNCHANGED <<loop, run>>
  /\ Consume(r)
  /\ incident' = incident \cup {<<rid, r>>}
  /\ UNCHANGED <<machine, receipt>>

\* The provisional timeout counts against the breaker.
ReclaimRunCounted(r) ==
  /\ run[r].phase = "running"
  /\ SettleRun(r, "error", FALSE, AutopauseStreak)
  /\ lease' = [lease EXCEPT ![r] = [state |-> "terminal-grace", elapsed |-> FALSE]]
  /\ UNCHANGED <<machine, receipt, incident>>

\* reclaimRun: the sweep gives up a silent run, provisionally; 0 for the streak
\* because a late report may still clear it.
ReclaimRun(r) ==
  /\ run[r].phase = "running"
  /\ SettleRun(r, "error", FALSE, 0)
  /\ lease' = [lease EXCEPT ![r] = IF @.state = "active"
                 THEN [state |-> "terminal-grace", elapsed |-> FALSE] ELSE @]
  /\ UNCHANGED <<machine, receipt, incident>>

\* releaseAbsentReconciliations: the daemon does not hold these runs any more.
ReleaseAbsentReconciliations(reported) ==
  /\ lease' = [r \in Runs |-> IF Grace(r) /\ r \notin reported
                 THEN [lease[r] EXCEPT !.state = "reconciliation-only"] ELSE lease[r]]
  /\ UNCHANGED <<machine, loop, run, receipt, incident>>

\* pruneExpiredLeases and resolveLease: authority that ran out leaves a tombstone.
RetireElapsed(r) ==
  /\ lease[r].state \in {"terminal-grace", "reconciliation-only"} /\ lease[r].elapsed
  /\ lease' = [lease EXCEPT ![r] = [state |-> "retired", elapsed |-> FALSE]]
  /\ UNCHANGED <<machine, loop, run, receipt, incident>>

\* acknowledgeRetiredReport: 410, durably, and only then is the tombstone gone.
AcknowledgeRetiredReport(r, rid) ==
  /\ lease[r].state = "retired"
  /\ Unanswered(rid) \/ receipt[rid] = [run |-> r, status |-> 410]
  /\ Answer(r, rid, 410) /\ Consume(r)
  /\ UNCHANGED <<machine, loop, run, incident>>

\* acknowledgeRetiredTerminalIncident: the reportId belongs to another run.
AcknowledgeRetiredTerminalIncident(r, rid) ==
  /\ lease[r].state = "retired" /\ OwnedByAnother(rid, r)
  /\ incident' = incident \cup {<<rid, r>>} /\ Consume(r)
  /\ UNCHANGED <<machine, loop, run, receipt>>

\* Any receipt that is already there counts as another run's.
IgnoreCanceledReportTwice(r, rid) ==
  /\ run[r].phase = "canceled" /\ lease[r].state # "none"
  /\ \/ /\ Unanswered(rid) /\ Answer(r, rid, 200)
        /\ UNCHANGED incident
     \/ /\ receipt[rid].run # NoRun
        /\ incident' = incident \cup {<<rid, r>>}
        /\ UNCHANGED receipt
  /\ Consume(r)
  /\ UNCHANGED <<machine, loop, run>>

\* ignoreCanceledReport: a report that finds its run canceled.
IgnoreCanceledReport(r, rid) ==
  /\ run[r].phase = "canceled" /\ lease[r].state # "none"
  /\ \/ /\ Unanswered(rid) /\ Answer(r, rid, 200)
        /\ UNCHANGED incident
     \/ /\ receipt[rid].run \notin {NoRun, r}
        /\ incident' = incident \cup {<<rid, r>>}
        /\ UNCHANGED receipt
  /\ Consume(r)
  /\ UNCHANGED <<machine, loop, run>>

-----------------------------------------------------------------------------
(* The clock and the machine row.                                          *)

CadenceFallsDue(l) ==
  /\ loop[l].cadence = "future"
  /\ loop' = [loop EXCEPT ![l].cadence = "due"]
  /\ UNCHANGED <<machine, run, lease, receipt, incident>>

LeaseElapses(r) ==
  /\ Reconcilable(r)
  /\ lease' = [lease EXCEPT ![r].elapsed = TRUE]
  /\ UNCHANGED <<machine, loop, run, receipt, incident>>

\* A poll marks the machine online, the sweep marks a silent one offline.
SetMachineOnline(status) ==
  /\ machine # "deleted" /\ machine' = status
  /\ UNCHANGED <<loop, run, lease, receipt, incident>>

-----------------------------------------------------------------------------
Init ==
  /\ machine = "offline"
  /\ loop = [l \in Loops |-> [state |-> "unborn", enabled |-> FALSE, mode |-> "cron",
                              overlap |-> "skip", cadence |-> "none",
                              deleting |-> FALSE, lastRunIndex |-> 0]]
  /\ run = [r \in Runs |-> [phase |-> "unborn", loop |-> NoLoop, by |-> "system",
                            index |-> 0, cancel |-> FALSE]]
  /\ lease = [r \in Runs |-> [state |-> "none", elapsed |-> FALSE]]
  /\ receipt = [rid \in ReportIds |-> [run |-> NoRun, status |-> 0]]
  /\ incident = {}

LoopStep(l) ==
  \/ \E e \in BOOLEAN, m \in ModesInUse, o \in OverlapsInUse : CreateLoop(l, e, m, o)
  \/ UpdateLoop(l) \/ PauseLoop(l) \/ StartLoop(l) \/ StopLoop(l)
  \/ RequestDeleteLoop(l) \/ TryDeleteLoop(l) \/ ForceDeleteLoop(l)
  \/ EnqueueRun(l) \/ AdvanceSchedule(l) \/ CadenceFallsDue(l)

RunStep(r) ==
  \/ RequestRunCancel(r) \/ ExpirePendingRun(r) \/ ReclaimRun(r)
  \/ RetireElapsed(r) \/ LeaseElapses(r)
  \/ \E reported \in SUBSET Minted : ClaimReadyRun(r, reported)

ReportStep(r, rid) ==
  \/ \E outcome \in Outcomes : \/ FinalizeRunningRun(r, rid, outcome)
                               \/ ReconcileReclaimedRun(r, rid, outcome)
  \/ RejectTerminalReport(r, rid) \/ AcknowledgeRetiredReport(r, rid)
  \/ AcknowledgeRetiredTerminalIncident(r, rid) \/ IgnoreCanceledReport(r, rid)

MachineStep ==
  \/ ForceDeleteMachine
  \/ \E status \in {"online", "offline"} : SetMachineOnline(status)
  \/ \E reported \in SUBSET Minted : ReleaseAbsentReconciliations(reported)

Next == \/ \E l \in Loops : LoopStep(l)
        \/ \E r \in Runs : RunStep(r)
        \/ \E r \in Runs, rid \in ReportIds : ReportStep(r, rid)
        \/ MachineStep

Spec == Init /\ [][Next]_vars

-----------------------------------------------------------------------------
(* Properties.                                                             *)

\* Every row has the shape the schema gives it.
TypeOK ==
  /\ machine \in {"online", "offline", "deleted"}
  /\ loop \in [Loops -> LoopRow]
  /\ run \in [Runs -> RunRow]
  /\ lease \in [Runs -> LeaseRow]
  /\ receipt \in [ReportIds -> ReceiptRow]
  /\ incident \subseteq ReportIds \X Runs

\* At most one run of a loop holds authority that keeps others from starting:
\* the claim, the sweep's reclaim, the daemon's disavowal and every report
\* together never let two processes of a loop be trusted at once.
SingleAuthority ==
  \A q, r \in Runs : Fences(q) /\ Fences(r) /\ run[q].loop = run[r].loop => q = r

\* A run is running exactly while its lease is active, and a lease that lets a
\* late report in belongs to a run that was given up (or that its reporter
\* rejected): no transaction moves one without the other.
AuthorityMatchesPhase ==
  \A r \in Runs :
    /\ run[r].phase = "running" <=> lease[r].state = "active"
    /\ lease[r].state \in {"terminal-grace", "reconciliation-only"} => run[r].phase = "error"
    /\ run[r].phase \in {"unborn", "pending"} => lease[r].state = "none"

\* What waits in the queue may still be started: a loop that is off keeps only
\* what its owner asked for, a loop being deleted keeps nothing queued and has
\* told what is running to stop, and there is one queue slot per loop.
QueueIsStartable ==
  \A l \in Loops :
    /\ \A r \in Queued(l, {"system"}) : loop[l].enabled
    /\ loop[l].deleting => /\ Queued(l, {"owner", "system"}) = {}
                           /\ \A r \in Runs : run[r].loop = l /\ run[r].phase = "running"
                                                => run[r].cancel
    /\ \A q, r \in Queued(l, {"owner", "system"}) : q = r

\* The cadence fact of a loop follows its switch: an enabled cron loop always has
\* a next occurrence (so the boot repair initializeCronCadence finds nothing to
\* do), and a loop that is off or being deleted has none.
CadenceFollowsSwitch ==
  \A l \in Loops :
    /\ Present(l) /\ loop[l].enabled /\ loop[l].mode = "cron" => loop[l].cadence # "none"
    /\ ~loop[l].enabled \/ loop[l].deleting => loop[l].cadence = "none"

\* The history of a loop is numbered without reuse: exactly the runs that were
\* started or ended carry a number, no two of them the same one, and none is
\* beyond the counter, whichever of claim, cancel, pause or expiry numbered them.
IndexHistory ==
  \A q, r \in Runs :
    /\ run[r].phase \in {"unborn", "pending"} => run[r].index = 0
    /\ run[r].phase \in {"running"} \cup Terminal =>
         run[r].index \in 1..loop[run[r].loop].lastRunIndex
    /\ run[q].loop = run[r].loop /\ run[q].index = run[r].index /\ run[r].index # 0
         => q = r

\* A lease is given up only against durable evidence: once the row is gone, a
\* receipt or an incident answers the replay of a report whose response was lost.
ConsumedLeaseHasEvidence ==
  \A r \in Runs : lease[r].state = "consumed" =>
    \E rid \in ReportIds : receipt[rid].run = r \/ <<rid, r>> \in incident

\* A report of a run is accepted or rejected, never both.
OneVerdictPerReport ==
  \A rid \in ReportIds, r \in Runs : ~(receipt[rid].run = r /\ <<rid, r>> \in incident)

\* Receipts and incidents are final: a daemon that replays its outbox after any
\* delay is told the same thing.
EvidenceIsFinal ==
  [][/\ \A rid \in ReportIds : receipt[rid].run # NoRun => receipt'[rid] = receipt[rid]
     /\ incident \subseteq incident']_vars

\* The failure breaker and a block report are the only results that switch a loop
\* off, and only a result that is final may: an accepted block, or a failure that
\* completes a streak of AutopauseStreak errors with no later success.  The sweep's
\* provisional timeout never does.
ErrorStreak(l, S) ==
  /\ Cardinality(S) = AutopauseStreak
  /\ \A r \in S : run[r].loop = l /\ run[r].phase = "error"
  /\ \A d \in Runs, r \in S : run[d].loop = l /\ run[d].phase = "done"
                              => run[d].index < run[r].index
AutopauseIsEarned ==
  [][\A l \in Loops, r \in Runs :
       /\ run[r].loop = l /\ Present(l)' /\ loop[l].enabled /\ ~loop[l].enabled'
       /\ lease[r] # lease[r]'
       => /\ lease[r].state' = "consumed"
          /\ run[r].phase' = "done" \/ \E S \in SUBSET Runs : ErrorStreak(l, S)']_vars

\* An enabled continuous loop with nothing queued or running and no cadence left:
\* nothing but its owner will ever start it again.
Stalled(l) == /\ Present(l) /\ loop[l].enabled /\ loop[l].mode = "continuous"
              /\ loop[l].cadence = "none" /\ ~HasPhase(l, Open)

\* A continuous loop keeps itself going through failures, rejected reports,
\* sweeps and edits: only a run that ends as canceled can leave it stalled.
StallsOnlyByCancel ==
  [][\A l \in Loops : ~Stalled(l) /\ Stalled(l)' =>
       \E r \in Runs : /\ run[r].loop = l /\ run[r].phase \in Open
                       /\ run'[r].phase = "canceled"]_vars

-----------------------------------------------------------------------------
(* Refinement: what the store promises about a run.                        *)

StageOf(r) ==
  CASE run[r].phase = "pending" -> "queued"
    [] run[r].phase = "running" -> "executing"
    [] run[r].phase = "error" /\ Grace(r) -> "suspect"
    [] run[r].phase = "error" /\ ~Grace(r) /\ Reconcilable(r) -> "disowned"
    [] run[r].phase = "error" /\ ~Reconcilable(r) -> "error"
    [] OTHER -> run[r].phase

Ledger == INSTANCE RunLedger WITH owner <- [r \in Runs |-> run[r].loop],
                                  stage <- [r \in Runs |-> StageOf(r)]

\* The store implements the ledger: the stages of a run are passed in one
\* direction, an outcome once settled is frozen, and no run of a loop starts
\* while another one executes or may still be executing.
ImplementsLedger == Ledger!Spec
=============================================================================
