--------------------------- MODULE ReportHandler ---------------------------
(***************************************************************************)
(* MachineGateway.report(): what the server does with a terminal report,   *)
(* await by await (packages/server/src/gateway/index.ts).                  *)
(*                                                                         *)
(* A handler resolves the run token, reads the evidence of earlier         *)
(* attempts, reads the run, and only then opens a transaction of RunStore. *)
(* Between any two of these steps other handlers (a retry of the same      *)
(* report, a report of another run under the same reportId), the sweep, a  *)
(* poll that disavows the run, and the owner's deletions commit their own. *)
(*                                                                         *)
(* Every step reads or writes the database once.  A report is the row of   *)
(* the daemon's outbox: its reportId, whether the server finds it valid,   *)
(* and the outcome it carries never change, however often it is sent.      *)
(***************************************************************************)
EXTENDS RunStore

CONSTANTS
  Handlers,     \* requests in progress at once (bound)
  Results,      \* the outcomes reports carry
  MaxRestarts   \* restarts of the server (bound)

ASSUME HandlerAssumption == MaxRestarts \in Nat /\ Results \subseteq Outcomes

VARIABLES
  body,      \* the report each run's daemon keeps sending
  acked,     \* what the daemon was definitively told of it
  hd,        \* the handlers
  restarts

hvars == <<body, acked, hd, restarts>>
allVars == <<vars, hvars>>

Verdicts == {"accepted", "retired", "rejected"}
Steps == {"idle", "resolve", "receipt", "incident", "incidents", "run", "finalize",
          "reconcile", "ignore", "unlease", "reread", "reresolve", "reject", "tail",
          "retire", "winner", "conflict", "cleanup", "answer"}

\* Why committedReportEvidence is called: by a report with a live lease or with
\* none, after a transaction that collided or lost, after a refused rejection.
Reasons == {"none", "report", "replay", "raced", "lost", "lost-late", "refused"}

Handler == [at : Steps, run : Runs \cup {NoRun}, why : Reasons,
            seen : {"none", "active", "terminal-grace", "reconciliation-only", "retired"},
            receipt : {"none", "mine", "foreign"},        \* as read
            phase : {"none", "error", "other"},           \* as read after losing
            answer : Verdicts \cup {"none", "refused"}]

Idle == [at |-> "idle", run |-> NoRun, why |-> "none", seen |-> "none",
         receipt |-> "none", phase |-> "none", answer |-> "none"]

R(h) == hd[h].run
Rid(h) == body[R(h)].id
At(h, step) == hd[h].at = step

Goto(h, step) == hd' = [hd EXCEPT ![h].at = step] /\ UNCHANGED <<body, acked, restarts>>
Ask(h, reason) == /\ hd' = [hd EXCEPT ![h].at = "receipt", ![h].why = reason]
                  /\ UNCHANGED <<body, acked, restarts>>
Leave(h, step, a) ==
  /\ hd' = [hd EXCEPT ![h] = [Idle EXCEPT !.at = step, !.run = R(h), !.answer = a]]
  /\ UNCHANGED <<body, acked, restarts>>
Reply(h, a) == Leave(h, "answer", a)
Drop(h, step) == Leave(h, step, "none")        \* nothing read so far matters any more
Cleanup(h, a) == Leave(h, "cleanup", a)

-----------------------------------------------------------------------------
(* The request arrives and its authority is resolved.                      *)

Receive(h, r) ==
  /\ At(h, "idle") /\ acked[r] = "none"
  /\ hd' = [hd EXCEPT ![h] = [Idle EXCEPT !.at = "resolve", !.run = r]]
  /\ UNCHANGED <<vars, body, acked, restarts>>

\* resolveLease also retires authority that has run out.
LeaseNow(r) == IF lease[r].elapsed THEN "retired"
               ELSE IF lease[r].state = "consumed" THEN "none" ELSE lease[r].state
ResolveLease(r) == IF lease[r].elapsed THEN RetireElapsed(r) ELSE UNCHANGED vars

Resolve(h) ==
  /\ At(h, "resolve")
  /\ ResolveLease(R(h))
  /\ hd' = [hd EXCEPT ![h].at = "receipt", ![h].seen = LeaseNow(R(h)),
              ![h].why = IF LeaseNow(R(h)) = "none" THEN "replay" ELSE "report"]
  /\ UNCHANGED <<body, acked, restarts>>

-----------------------------------------------------------------------------
(* committedReportEvidence: three reads, one after another.                *)

AnyOwner(h) == IF receipt[Rid(h)].run = NoRun THEN "none" ELSE "mine"
Owner(h) == CASE receipt[Rid(h)].run = NoRun -> "none"
              [] receipt[Rid(h)].run = R(h) -> "mine"
              [] OTHER -> "foreign"

ReadReceipt(h) ==
  /\ At(h, "receipt")
  /\ hd' = [hd EXCEPT ![h].at = "incident", ![h].receipt = Owner(h)]
  /\ UNCHANGED <<vars, body, acked, restarts>>

Replayed(rid) == IF receipt[rid].status = 410 THEN "retired" ELSE "accepted"
ReadIncident(h) ==
  /\ At(h, "incident") /\ UNCHANGED vars
  /\ CASE <<Rid(h), R(h)>> \in incident -> Reply(h, "rejected")
       [] <<Rid(h), R(h)>> \notin incident /\ hd[h].receipt = "mine" -> Reply(h, Replayed(Rid(h)))
       [] OTHER -> Goto(h, "incidents")

\* Where a caller goes that found no response for its own run.
ConflictWhenRetired(h, foreign) == Drop(h, "conflict")
RefusedWhenRetired(h, foreign) == Reply(h, "refused")
Retired(h, foreign) == Drop(h, IF foreign THEN "conflict" ELSE "retire")
Resume(h, step) ==
  /\ hd' = [hd EXCEPT ![h].at = step, ![h].why = "none", ![h].receipt = "none"]
  /\ UNCHANGED <<body, acked, restarts>>
Continue(h, foreign) ==
  CASE hd[h].why = "replay" -> Reply(h, "refused")
    [] hd[h].why = "report" /\ hd[h].seen = "retired" -> Retired(h, foreign)
    [] hd[h].why = "report" /\ hd[h].seen # "retired" ->
         Resume(h, IF foreign \/ ~body[R(h)].valid THEN "reject" ELSE "run")
    [] hd[h].why = "raced" -> IF foreign THEN Resume(h, "reject") ELSE Reply(h, "refused")
    [] hd[h].why \in {"lost", "lost-late"} ->
         IF foreign THEN Resume(h, "reject") ELSE Goto(h, "reread")
    [] hd[h].why = "refused" -> Drop(h, "tail")

ReadIncidents(h) ==
  /\ At(h, "incidents") /\ UNCHANGED vars
  /\ Continue(h, hd[h].receipt = "foreign" \/ ~NoIncident(Rid(h)))

-----------------------------------------------------------------------------
(* The run is read, and the transaction is tried.                          *)

IgnoreWhatEnded(h, phase) ==
  IF phase \in Terminal THEN Drop(h, "ignore") ELSE Goto(h, "finalize")
Route(h, phase) ==
  CASE phase = "canceled" -> Drop(h, "ignore")
    [] phase = "done" -> Reply(h, "refused")
    [] phase = "error" /\ hd[h].seen \in {"terminal-grace", "reconciliation-only"} ->
         Goto(h, "reconcile")
    [] OTHER -> Goto(h, "finalize")

ReadRun(h) == At(h, "run") /\ Route(h, run[R(h)].phase) /\ UNCHANGED vars

\* finalizeRunningRun: it commits, its receipt collides, or it finds that
\* another actor was first.
Finalizable(r, rid) ==
  run[r].phase = "running" /\ lease[r].state = "active" /\ NoIncident(rid)
Finalize(h) ==
  /\ At(h, "finalize")
  /\ \/ /\ FinalizeRunningRun(R(h), Rid(h), body[R(h)].outcome)
        /\ Cleanup(h, "accepted")
     \/ /\ Finalizable(R(h), Rid(h)) /\ ~Unanswered(Rid(h))
        /\ Ask(h, "raced") /\ UNCHANGED vars
     \/ /\ ~Finalizable(R(h), Rid(h))
        /\ Ask(h, "lost") /\ UNCHANGED vars

\* reconcileReclaimedReport.
Reconcile(h) ==
  LET possible == run[R(h)].phase = "error" /\ Reconcilable(R(h)) /\ NoIncident(Rid(h))
  IN  /\ At(h, "reconcile")
      /\ \/ /\ ReconcileReclaimedRun(R(h), Rid(h), body[R(h)].outcome)
            /\ Cleanup(h, "accepted")
         \/ /\ possible /\ ~Unanswered(Rid(h)) /\ Ask(h, "raced") /\ UNCHANGED vars
         \/ /\ ~possible /\ Ask(h, "lost-late") /\ UNCHANGED vars

\* Cleanup: a loop that waits to be deleted is tried at once.
TryDelete(h) ==
  LET l == run[R(h)].loop
  IN  /\ At(h, "cleanup")
      /\ \/ TryDeleteLoop(l)
         \/ ~Deletable(l) /\ UNCHANGED vars
      /\ Reply(h, hd[h].answer)

-----------------------------------------------------------------------------
(* resolveLostTerminalRace, after its own look at the evidence.            *)

Reread(h) ==
  /\ At(h, "reread") /\ UNCHANGED vars
  /\ CASE run[R(h)].phase = "canceled" -> Drop(h, "ignore")
       [] run[R(h)].phase = "done" -> Reply(h, "refused")
       [] OTHER ->
            /\ hd' = [hd EXCEPT ![h].at = "reresolve",
                 ![h].phase = IF run[R(h)].phase = "error" THEN "error" ELSE "other"]
            /\ UNCHANGED <<body, acked, restarts>>

Reresolve(h) ==
  LET now == LeaseNow(R(h))
  IN  /\ At(h, "reresolve")
      /\ ResolveLease(R(h))
      /\ CASE now = "retired" -> Drop(h, "retire")
           [] hd[h].why = "lost" /\ hd[h].phase = "error" /\ now = "terminal-grace" ->
                /\ hd' = [hd EXCEPT ![h].at = "reconcile", ![h].seen = now,
                             ![h].why = "none", ![h].phase = "none"]
                /\ UNCHANGED <<body, acked, restarts>>
           [] OTHER -> Reply(h, "refused")

-----------------------------------------------------------------------------
(* Reports that are refused for good.                                      *)

\* rejectTerminalAttempt: the transaction wants the lease in the state, active
\* or reclaimed, in which it was resolved.
Reject(h) ==
  LET r == R(h)
      possible == Rejectable(r) /\ (hd[h].seen = "active" <=> lease[r].state = "active")
  IN  /\ At(h, "reject")
      /\ CASE hd[h].seen = "retired" -> Drop(h, "retire") /\ UNCHANGED vars
           [] hd[h].seen # "retired" /\ Present(run[r].loop) /\ receipt[Rid(h)].run = r ->
                Reply(h, Replayed(Rid(h))) /\ UNCHANGED vars
           [] hd[h].seen # "retired" /\ Present(run[r].loop) /\ <<Rid(h), r>> \in incident ->
                Reply(h, "rejected") /\ UNCHANGED vars
           [] OTHER ->
                \/ possible /\ RejectTerminalReport(r, Rid(h)) /\ Cleanup(h, "rejected")
                \/ ~possible /\ Ask(h, "refused") /\ UNCHANGED vars

Tail(h) ==
  /\ At(h, "tail")
  /\ ResolveLease(R(h))
  /\ IF LeaseNow(R(h)) = "retired" THEN Drop(h, "retire") ELSE Reply(h, "refused")

\* retiredReport.
Retire(h) ==
  LET r == R(h)
      rid == Rid(h)
  IN  /\ At(h, "retire")
      /\ CASE lease[r].state # "retired" -> Drop(h, "winner") /\ UNCHANGED vars
           [] lease[r].state = "retired" /\ receipt[rid].run \notin {NoRun, r} ->
                Drop(h, "conflict") /\ UNCHANGED vars
           [] OTHER -> AcknowledgeRetiredReport(r, rid) /\ Reply(h, "retired")

Winner(h) ==
  /\ At(h, "winner") /\ UNCHANGED vars
  /\ CASE Owner(h) = "foreign" -> Drop(h, "conflict")
       [] Owner(h) = "mine" -> Reply(h, Replayed(Rid(h)))
       [] Owner(h) = "none" -> Reply(h, "refused")

\* rejectRetiredConflict: the transaction does not ask who owns the reportId.
Conflict(h) ==
  LET r == R(h)
  IN  /\ At(h, "conflict")
      /\ IF lease[r].state # "retired"
         THEN Reply(h, "refused") /\ UNCHANGED vars
         ELSE /\ incident' = incident \cup {<<Rid(h), r>>} /\ Consume(r)
              /\ UNCHANGED <<machine, loop, run, receipt>>
              /\ Reply(h, "rejected")

\* ignoreCanceledReport: the evidence first, in a transaction of its own, ...
Ignore(h) ==
  LET r == R(h)
      rid == Rid(h)
  IN  /\ At(h, "ignore")
      /\ CASE Unanswered(rid) -> /\ Answer(r, rid, 200)
                                 /\ UNCHANGED <<machine, loop, run, lease, incident>>
                                 /\ Leave(h, "unlease", "accepted")
           [] receipt[rid].run = r /\ Replayed(rid) = "accepted" ->
                UNCHANGED vars /\ Leave(h, "unlease", "accepted")
           [] receipt[rid].run = r /\ Replayed(rid) = "retired" ->
                UNCHANGED vars /\ Reply(h, "retired")
           [] OTHER -> /\ incident' = incident \cup {<<rid, r>>}
                       /\ UNCHANGED <<machine, loop, run, lease, receipt>>
                       /\ Leave(h, "unlease", "rejected")

\* ... then the lease.
Unlease(h) ==
  /\ At(h, "unlease")
  /\ Consume(R(h)) /\ UNCHANGED <<machine, loop, run, receipt, incident>>
  /\ Reply(h, hd[h].answer)

-----------------------------------------------------------------------------
(* The answer, and what can happen to a request.                           *)

\* A definitive answer makes the daemon drop the row; anything else is retried.
Deliver(h) ==
  /\ At(h, "answer")
  /\ acked' = IF hd[h].answer \in Verdicts /\ acked[R(h)] = "none"
              THEN [acked EXCEPT ![R(h)] = hd[h].answer] ELSE acked
  /\ hd' = [hd EXCEPT ![h] = Idle]
  /\ UNCHANGED <<vars, body, restarts>>

LoseAnswer(h) ==
  /\ At(h, "answer")
  /\ hd' = [hd EXCEPT ![h] = Idle]
  /\ UNCHANGED <<vars, body, acked, restarts>>

\* The server stops: every handler is gone, the tables stay.
Restart ==
  /\ restarts < MaxRestarts /\ restarts' = restarts + 1
  /\ hd' = [h \in Handlers |-> Idle]
  /\ UNCHANGED <<vars, body, acked>>

\* What else commits: the sweep, the clock, a poll, the owner.  (A cancel only
\* marks the running run; no handler looks at the mark.)
Interfere ==
  /\ UNCHANGED hvars
  /\ \/ \E r \in Runs : ReclaimRun(r) \/ RetireElapsed(r) \/ LeaseElapses(r)
     \/ \E l \in Loops : RequestDeleteLoop(l) \/ TryDeleteLoop(l) \/ ForceDeleteLoop(l)
     \/ \E reported \in SUBSET Minted : ReleaseAbsentReconciliations(reported)

Handle(h) ==
  \/ Resolve(h) \/ ReadReceipt(h) \/ ReadIncident(h) \/ ReadIncidents(h) \/ ReadRun(h)
  \/ Finalize(h) \/ Reconcile(h) \/ TryDelete(h) \/ Reread(h) \/ Reresolve(h)
  \/ Reject(h) \/ Tail(h) \/ Retire(h) \/ Winner(h) \/ Conflict(h) \/ Ignore(h) \/ Unlease(h)

-----------------------------------------------------------------------------
(* The runs of one loop, claimed one after another: all but the last were  *)
(* swept and disowned, the last one executes.  The agents have finished    *)
(* meanwhile, and the daemon holds a report of each run.                   *)

Reports == [id : ReportIds, valid : BOOLEAN, outcome : Results]

HandlerInit ==
  /\ machine = "online"
  /\ loop = [l \in Loops |->
       [state |-> "present", enabled |-> TRUE, mode |-> "cron", overlap |-> "skip",
        cadence |-> "future", deleting |-> FALSE, lastRunIndex |-> MaxRuns]]
  /\ \E l \in Loops :
       run = [r \in Runs |-> [phase |-> IF r = MaxRuns THEN "running" ELSE "error",
                               loop |-> l, by |-> "system", index |-> r, cancel |-> FALSE]]
  /\ lease = [r \in Runs |-> [state |-> IF r = MaxRuns THEN "active" ELSE "reconciliation-only",
                               elapsed |-> FALSE]]
  /\ receipt = [rid \in ReportIds |-> [run |-> NoRun, status |-> 0]]
  /\ incident = {}
  /\ body \in [Runs -> Reports]
  /\ acked = [r \in Runs |-> "none"]
  /\ hd = [h \in Handlers |-> Idle]
  /\ restarts = 0

HandlerNext ==
  \/ \E h \in Handlers : Handle(h) \/ Deliver(h) \/ LoseAnswer(h)
                         \/ \E r \in Runs : Receive(h, r)
  \/ Restart \/ Interfere

\* The daemon sends an unacknowledged report again and again, requests are served,
\* and not every answer is lost.
HandlerFairness ==
  /\ \A r \in Runs : SF_allVars(\E h \in Handlers : Receive(h, r))
  /\ \A h \in Handlers : WF_allVars(Handle(h))
  /\ \A r \in Runs : SF_allVars(\E h \in Handlers : hd[h].run = r /\ Deliver(h))

HandlerSpec == HandlerInit /\ [][HandlerNext]_allVars /\ HandlerFairness

-----------------------------------------------------------------------------
(* Properties.                                                             *)

\* Handlers, reports and acknowledgements have their shapes.
HandlerTypeOK ==
  /\ hd \in [Handlers -> Handler]
  /\ body \in [Runs -> Reports]
  /\ acked \in [Runs -> {"none"} \cup Verdicts]
  /\ restarts \in 0..MaxRestarts

Backed(r, verdict) ==
  \/ verdict = "accepted" /\ receipt[body[r].id] = [run |-> r, status |-> 200]
  \/ verdict = "retired" /\ receipt[body[r].id] = [run |-> r, status |-> 410]
  \/ verdict = "rejected" /\ <<body[r].id, r>> \in incident

\* Whatever the handlers raced with, a definitive answer is backed by durable
\* evidence of this very run, so that the next copy of the report is answered the
\* same way although the lease that authenticated it is gone.
AcksAreBacked ==
  /\ \A h \in Handlers : At(h, "answer") /\ hd[h].answer \in Verdicts => Backed(R(h), hd[h].answer)
  /\ \A r \in Runs : acked[r] \in Verdicts => Backed(r, acked[r])

\* A report the daemon is told was accepted is what the history says of the run: an
\* accepted success never stands as the timeout the sweep wrote, nor as anything a
\* faster handler wrote; a rejected one never stands as a success.
HistoryFollowsVerdict ==
  \A r \in Runs : run[r].phase # "deleted" =>
    /\ receipt[body[r].id] = [run |-> r, status |-> 200] => run[r].phase = PhaseOf(body[r].outcome)
    /\ <<body[r].id, r>> \in incident => run[r].phase = "error"

\* However its steps interleave, a handler changes the tables only as RunStore
\* allows: the callers' checks that RunStore states as guards (a foreign reportId
\* before a conflict incident, a canceled run before an ignored report) still hold
\* when the transaction commits.
HandlersKeepToStore == [][Next]_vars

\* Every report is answered for good in the end: no race leaves a run whose report
\* the server refuses for ever, which would keep its row in the outbox.
EveryReportIsAnswered == \A r \in Runs : <>(acked[r] # "none")
=============================================================================
