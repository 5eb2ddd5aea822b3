---------------------------- MODULE DaemonProofs ----------------------------
(***************************************************************************)
(* Proofs about Daemon and LoopMemory, for every set of loops, every       *)
(* number of runs and any number of faults: the steps of the composed      *)
(* system are steps of RunStore, a daemon accepts what the server hands    *)
(* it, a result in the outbox can always be reported, a run the server     *)
(* takes for over is over, two agents never work on one loop (the last two *)
(* as long as an agent dies with its daemon), and an edit of the owner is  *)
(* neither lost to a run that has not read it nor made up.                 *)
(***************************************************************************)
EXTENDS LoopMemory, RunStoreProofs

\* LoopMemory adds the timeout to the ends of an agent.
SystemNext == DaemonNext \/ \E r \in Runs : TimesOut(r)

-----------------------------------------------------------------------------
(* The inductive invariant.                                                *)

\* The runs a daemon or a poll knows of were claimed once.
KnownRunsAreMinted ==
  /\ \A r \in Runs : held[r] # "none" \/ outbox[r] # "none" => r \in Minted
  /\ \A p \in Requests : /\ poll[p].snapshot \subseteq Minted
                         /\ poll[p].delivery # NoRun => poll[p].delivery \in Minted

\* A daemon that is not up waits for no poll, one that is down holds nothing, and
\* an idle poll carries nothing.
IdlePolls ==
  /\ daemon # "up" => At("current", "idle")
  /\ daemon = "down" => \A r \in Runs : held[r] = "none"
  /\ At("current", "idle") => poll["current"].delivery = NoRun

\* A result in the outbox keeps its run held until it is acknowledged.
OutboxIsHeld ==
  daemon # "down" => \A r \in Runs : outbox[r] # "none" => held[r] \in {"reporting", "restored"}

\* An agent belongs to a run the daemon executes.
AgentsAreHeld == \A r \in Runs : agent[r] # "none" => held[r] = "executing"

\* The poll under way names all the runs that occupy a loop in the daemon: runs are
\* accepted only when it is answered.
SnapshotCovers ==
  ~At("current", "idle") => \A q \in Runs : Occupies(q) => q \in poll["current"].snapshot

\* No two runs of a loop occupy the daemon.
OccupantsAreApart ==
  \A q, r \in Runs : Occupies(q) /\ Occupies(r) /\ run[q].loop = run[r].loop => q = r

\* What the poll under way has claimed, the daemon can accept.
ClaimIsAcceptable ==
  poll["current"].delivery # NoRun => CanAccept(poll["current"].delivery)

StoreInv == TypeInv /\ Authority
Polling == KnownRunsAreMinted /\ IdlePolls
Occupancy == SnapshotCovers /\ OccupantsAreApart /\ ClaimIsAcceptable
Agents == OutboxIsHeld /\ (~Orphans => AgentsAreHeld)
DaemonInv == StoreInv /\ DaemonTypeOK /\ Polling /\ Occupancy /\ Agents

-----------------------------------------------------------------------------
(* What a step of the store does to the rows of a run that was claimed.    *)

RowsStay ==
  \A r \in Runs : /\ run[r].phase # "unborn" => run'[r].loop = run[r].loop
                  /\ lease[r].state # "none" => lease'[r].state # "none"

\* Dropping loops keeps the loop of every run.
LEMMA DropStays ==
  ASSUME TypeInv, NEW S, NEW states, DropLoopRows(S), RetireLeases(S, states)
  PROVE  RowsStay
<1>1. ASSUME NEW r \in Runs
      PROVE  [run[r] EXCEPT !.phase = "deleted"].loop = run[r].loop
  BY DEF TypeInv, TypeOK, RunRow
<1> QED
  BY <1>1 DEF DropLoopRows, RetireLeases, RowsStay

\* The steps on a loop.
LEMMA LoopStepStays ==
  ASSUME TypeInv, NEW l \in Loops, LoopStep(l)
  PROVE  RowsStay
<1>1. CASE TryDeleteLoop(l)
  BY <1>1, DropStays DEF TryDeleteLoop
<1>2. CASE ForceDeleteLoop(l)
  BY <1>2, DropStays DEF ForceDeleteLoop
<1>3. CASE ~TryDeleteLoop(l) /\ ~ForceDeleteLoop(l)
  BY <1>3, LoopStepQuiet DEF QuietRow, RowsStay
<1> QED
  BY <1>1, <1>2, <1>3

\* Moving the lease of one run.
LEMMA LeaseMoved ==
  ASSUME TypeInv, NEW r \in Runs, NEW st, st # "none",
         lease' = lease \/ lease' = [lease EXCEPT ![r] = [state |-> st, elapsed |-> FALSE]],
         \A q \in Runs : run[q].phase # "unborn" => run'[q].loop = run[q].loop
  PROVE  RowsStay
  BY DEF TypeInv, TypeOK, RowsStay

\* Settling a run.
LEMMA SettleStays ==
  ASSUME TypeInv, NEW r \in Runs, NEW ph, NEW block, NEW streak,
         SettleRun(r, ph, block, streak)
  PROVE  \A q \in Runs : run[q].phase # "unborn" => run'[q].loop = run[q].loop
  BY SettleRunQuiet DEF TypeInv, QuietRow

\* One run changes, but not its loop.
LEMMA RowChanged ==
  ASSUME TypeInv, NEW r \in Runs, NEW ph, NEW n
  PROVE  /\ [run[r] EXCEPT !.phase = ph].loop = run[r].loop
         /\ [run[r] EXCEPT !.phase = ph, !.index = n].loop = run[r].loop
         /\ [run[r] EXCEPT !.cancel = TRUE].loop = run[r].loop
  BY DEF TypeInv, TypeOK, RunRow

\* The steps on a run.
LEMMA RunStepStays ==
  ASSUME TypeInv, NEW r \in Runs, RunStep(r)
  PROVE  RowsStay
<1> DEFINE n == loop[run[r].loop].lastRunIndex + 1
<1>1. CASE RequestRunCancel(r) \/ ExpirePendingRun(r)
  <2>1. lease' = lease
    BY <1>1 DEF RequestRunCancel, ExpirePendingRun
  <2>2. \/ run' = [run EXCEPT ![r] = [run[r] EXCEPT !.phase = "canceled", !.index = n]]
        \/ run' = [run EXCEPT ![r] = [run[r] EXCEPT !.cancel = TRUE]]
    BY <1>1 DEF RequestRunCancel, ExpirePendingRun, TypeInv, TypeOK
  <2> HIDE DEF n
  <2>3. /\ [run[r] EXCEPT !.phase = "canceled", !.index = n].loop = run[r].loop
        /\ [run[r] EXCEPT !.cancel = TRUE].loop = run[r].loop
    BY RowChanged
  <2>4. \A q \in Runs : run'[q].loop = run[q].loop
    BY <2>2, <2>3 DEF TypeInv, TypeOK
  <2> QED
    BY <2>1, <2>4 DEF RowsStay
<1>2. CASE ReclaimRun(r)
  <2>1. \/ lease' = [lease EXCEPT ![r] = [state |-> "terminal-grace", elapsed |-> FALSE]]
        \/ lease' = lease
    BY <1>2 DEF ReclaimRun, TypeInv, TypeOK
  <2> QED
    BY <1>2, <2>1, LeaseMoved, SettleStays DEF ReclaimRun
<1>3. CASE RetireElapsed(r)
  BY <1>3, LeaseMoved DEF RetireElapsed
<1>4. CASE LeaseElapses(r)
  <2>1. /\ [lease[r] EXCEPT !.elapsed = TRUE].state # "none"
        /\ lease' = [lease EXCEPT ![r] = [lease[r] EXCEPT !.elapsed = TRUE]]
        /\ run' = run
    BY <1>4 DEF LeaseElapses, Reconcilable, TypeInv, TypeOK, LeaseRow
  <2> QED
    BY <2>1 DEF TypeInv, TypeOK, RowsStay
<1>5. ASSUME NEW reported, ClaimReadyRun(r, reported)
      PROVE  RowsStay
  <2>1. /\ run' = [run EXCEPT ![r] = [run[r] EXCEPT !.phase = "running", !.index = n]]
        /\ lease' = [lease EXCEPT ![r] = [state |-> "active", elapsed |-> FALSE]]
    BY <1>5 DEF ClaimReadyRun, TypeInv, TypeOK
  <2> HIDE DEF n
  <2>2. \A q \in Runs : run'[q].loop = run[q].loop
    BY <2>1, RowChanged DEF TypeInv, TypeOK
  <2> QED
    BY <2>1, <2>2, LeaseMoved
<1> QED
  BY <1>1, <1>2, <1>3, <1>4, <1>5 DEF RunStep

\* The steps of a report.
LEMMA ReportStepStays ==
  ASSUME TypeInv, NEW r \in Runs, NEW rid \in ReportIds, ReportStep(r, rid)
  PROVE  RowsStay
<1>1. lease' = [lease EXCEPT ![r] = [state |-> "consumed", elapsed |-> FALSE]]
  BY DEF ReportStep, FinalizeRunningRun, ReconcileReclaimedRun, RejectTerminalReport,
     AcknowledgeRetiredReport, AcknowledgeRetiredTerminalIncident, IgnoreCanceledReport, Consume
<1>2. \/ run' = run
      \/ \E ph : run' = [run EXCEPT ![r] = [run[r] EXCEPT !.phase = ph]]
      \/ \E ph, block, streak : SettleRun(r, ph, block, streak)
  <2>1. ASSUME NEW outcome \in Outcomes, FinalizeRunningRun(r, rid, outcome)
        PROVE  \E ph, block, streak : SettleRun(r, ph, block, streak)
    BY <2>1 DEF FinalizeRunningRun
  <2>2. ASSUME NEW outcome \in Outcomes, ReconcileReclaimedRun(r, rid, outcome)
        PROVE  \/ \E ph : run' = [run EXCEPT ![r] = [run[r] EXCEPT !.phase = ph]]
               \/ \E ph, block, streak : SettleRun(r, ph, block, streak)
    BY <2>2 DEF ReconcileReclaimedRun, TypeInv, TypeOK
  <2>3. CASE RejectTerminalReport(r, rid)
    BY <2>3 DEF RejectTerminalReport
  <2> QED
    BY <2>1, <2>2, <2>3 DEF ReportStep, AcknowledgeRetiredReport,
       AcknowledgeRetiredTerminalIncident, IgnoreCanceledReport
<1>3. \A q \in Runs : run[q].phase # "unborn" => run'[q].loop = run[q].loop
  <2>1. CASE \E ph : run' = [run EXCEPT ![r] = [run[r] EXCEPT !.phase = ph]]
    BY <2>1, RowChanged DEF TypeInv, TypeOK
  <2> QED
    BY <1>2, <2>1, SettleStays
<1> QED
  BY <1>1, <1>3, LeaseMoved

\* A run keeps its loop once it exists, and a run that was claimed stays claimed.
LEMMA StepStays ==
  ASSUME TypeInv, [Next]_vars
  PROVE  RowsStay
<1>1. CASE UNCHANGED vars
  BY <1>1 DEF vars, RowsStay
<1>2. CASE MachineStep
  <2>1. CASE ForceDeleteMachine
    BY <2>1, DropStays DEF ForceDeleteMachine
  <2>2. ASSUME NEW status, SetMachineOnline(status) PROVE RowsStay
    BY <2>2 DEF SetMachineOnline, RowsStay
  <2>3. ASSUME NEW reported, ReleaseAbsentReconciliations(reported) PROVE RowsStay
    <3>1. \A r \in Runs : lease'[r] = lease[r]
            \/ lease'[r] = [lease[r] EXCEPT !.state = "reconciliation-only"]
      BY <2>3 DEF ReleaseAbsentReconciliations
    <3>2. \A r \in Runs :
            [lease[r] EXCEPT !.state = "reconciliation-only"].state = "reconciliation-only"
      BY DEF TypeInv, TypeOK, LeaseRow
    <3>3. run' = run
      BY <2>3 DEF ReleaseAbsentReconciliations
    <3> QED
      BY <3>1, <3>2, <3>3 DEF RowsStay
  <2> QED
    BY <1>2, <2>1, <2>2, <2>3 DEF MachineStep
<1> QED
  BY <1>1, <1>2, LoopStepStays, RunStepStays, ReportStepStays DEF Next

\* Who is still claimed, and where it belongs, after a step of the store.
LEMMA MintedStay ==
  ASSUME StoreInv, RowsStay, NEW r \in Minted
  PROVE  r \in Minted' /\ r \in Runs /\ run'[r].loop = run[r].loop
<1>1. r \in Runs /\ lease[r].state # "none"
  BY DEF Minted
<1>2. run[r].phase # "unborn"
  BY <1>1 DEF StoreInv, Authority, AuthorityMatchesPhase
<1> QED
  BY <1>1, <1>2 DEF RowsStay, Minted

-----------------------------------------------------------------------------
(* The steps of the composed system are steps of RunStore.                 *)

\* What the daemon, its polls, the sweep and the owner do to the tables, the
\* transactions of RunStore allow.
LEMMA StoreAllows ==
  ASSUME DaemonTypeOK, KnownRunsAreMinted, [SystemNext]_sysVars
  PROVE  [Next]_vars
<1>1. ASSUME NEW p \in Requests, Serve(p) \/ PollAgain(p)
      PROVE  [Next]_vars
  <2>1. poll[p].snapshot \in SUBSET Minted
    BY DEF KnownRunsAreMinted
  <2>2. CASE Release(p)
    BY <2>1, <2>2 DEF Release, Next, MachineStep
  <2>3. CASE Advance(p)
    <3>1. poll[p].due \subseteq Loops
      BY DEF DaemonTypeOK, PollRow
    <3> QED
      BY <2>3, <3>1 DEF Advance, Next, LoopStep
  <2>4. CASE Claim(p)
    BY <2>1, <2>4 DEF Claim, Next, RunStep
  <2> QED
    BY <1>1, <2>2, <2>3, <2>4 DEF Serve, Heartbeat, Respond, PollAgain
<1>2. ASSUME NEW r \in Runs, Report(r)
      PROVE  [Next]_vars
  <2>1. r \in ReportIds
    BY DaemonAssumption DEF Runs
  <2>2. outbox[r] \in Outcomes
    BY <1>2 DEF Report, DaemonTypeOK, Ended, Outcomes
  <2> QED
    BY <1>2, <2>1, <2>2 DEF Report, Next, ReportStep
<1>3. ASSUME NEW r \in Runs, SweepReclaims(r) \/ GraceElapses(r) \/ Prune(r)
      PROVE  [Next]_vars
  BY <1>3 DEF SweepReclaims, GraceElapses, Prune, Next, RunStep
<1>4. CASE Owner
  BY <1>4 DEF Owner, Next, LoopStep, RunStep
<1>5. ASSUME NEW l \in Loops, CadenceDue(l) \/ Delete(l)
      PROVE  [Next]_vars
  BY <1>5 DEF CadenceDue, Delete, Next, LoopStep
<1>6. CASE \/ Send \/ Receive \/ Discard \/ LosePoll \/ Terminate \/ Stopped \/ Kill \/ Start
           \/ ServerRestarts \/ SweepReads \/ UNCHANGED sysVars
  BY <1>6 DEF Send, Receive, Discard, LosePoll, Terminate, Stopped, Kill, Start,
     ServerRestarts, SweepReads, sysVars
<1>7. ASSUME NEW r \in Runs, Execute(r) \/ TimesOut(r) \/ Acknowledge(r) \/ GoesSilent(r)
      PROVE  [Next]_vars
  BY <1>7 DEF Execute, Spawn, SkipSpawn, Exit, TimesOut, Persist, Acknowledge, GoesSilent
<1> QED
  BY <1>1, <1>2, <1>3, <1>4, <1>5, <1>6, <1>7 DEF SystemNext, DaemonNext

-----------------------------------------------------------------------------
(* Shapes.                                                                 *)

\* A poll that moves on is still a poll.
LEMMA PollRowUpdate ==
  ASSUME NEW row \in PollRow, NEW at \in PollSteps, NEW r \in Runs \cup {NoRun},
         NEW S \in SUBSET Runs, NEW b \in BOOLEAN, NEW L \in SUBSET Loops
  PROVE  /\ [row EXCEPT !.at = at] \in PollRow
         /\ [row EXCEPT !.at = at, !.due = L] \in PollRow
         /\ [row EXCEPT !.at = at, !.delivery = r] \in PollRow
         /\ [row EXCEPT !.at = at, !.snapshot = S] \in PollRow
         /\ [row EXCEPT !.at = at, !.cancels = S] \in PollRow
         /\ [row EXCEPT !.at = at, !.again = b] \in PollRow
  BY DEF PollRow

\* Giving up a poll leaves well-formed polls.
LEMMA HangUpType ==
  ASSUME DaemonTypeOK, HangUp
  PROVE  poll' \in [Requests -> PollRow]
<1>1. NoPoll \in PollRow
  BY DEF NoPoll, PollRow, PollSteps
<1> QED
  BY <1>1 DEF HangUp, DaemonTypeOK, Requests

\* A step that moves polls along without starting, answering or giving up one, and
\* leaves the daemon alone.
DaemonStill ==
  /\ UNCHANGED <<daemon, held, aborted, agent, outbox>>
  /\ poll' \in [Requests -> PollRow]
  /\ \A p \in Requests : /\ poll'[p].snapshot = poll[p].snapshot
                         /\ poll'[p].delivery = poll[p].delivery
                         /\ poll'[p].at = "idle" <=> poll[p].at = "idle"

\* Moving a poll along.
LEMMA MovedPoll ==
  ASSUME DaemonTypeOK, NEW p \in Requests, NEW at \in PollSteps, at # "idle",
         ~At(p, "idle"), NEW b \in BOOLEAN, NEW S \in SUBSET Runs, NEW L \in SUBSET Loops,
         \/ poll' = [poll EXCEPT ![p] = [poll[p] EXCEPT !.at = at]]
         \/ poll' = [poll EXCEPT ![p] = [poll[p] EXCEPT !.at = at, !.again = b]]
         \/ poll' = [poll EXCEPT ![p] = [poll[p] EXCEPT !.at = at, !.cancels = S]]
         \/ poll' = [poll EXCEPT ![p] = [poll[p] EXCEPT !.at = at, !.due = L]],
         UNCHANGED <<daemon, held, aborted, agent, outbox>>
  PROVE  DaemonStill
<1>1. poll \in [Requests -> PollRow]
  BY DEF DaemonTypeOK
<1>2. PICK row \in PollRow : /\ poll' = [poll EXCEPT ![p] = row]
                             /\ row.at = at /\ row.snapshot = poll[p].snapshot
                             /\ row.delivery = poll[p].delivery
  <2> DEFINE x == poll[p]
  <2>1. x \in PollRow
    BY <1>1
  <2> HIDE DEF x
  <2>2. CASE poll' = [poll EXCEPT ![p] = [x EXCEPT !.at = at]]
    <3>1. /\ [x EXCEPT !.at = at].at = at /\ [x EXCEPT !.at = at].snapshot = x.snapshot
          /\ [x EXCEPT !.at = at].delivery = x.delivery
      BY <2>1 DEF PollRow
    <3> QED
      BY <2>1, <2>2, <3>1, PollRowUpdate DEF x
  <2>3. CASE poll' = [poll EXCEPT ![p] = [x EXCEPT !.at = at, !.again = b]]
    <3>1. /\ [x EXCEPT !.at = at, !.again = b].at = at
          /\ [x EXCEPT !.at = at, !.again = b].snapshot = x.snapshot
          /\ [x EXCEPT !.at = at, !.again = b].delivery = x.delivery
      BY <2>1 DEF PollRow
    <3> QED
      BY <2>1, <2>3, <3>1, PollRowUpdate DEF x
  <2>4. CASE poll' = [poll EXCEPT ![p] = [x EXCEPT !.at = at, !.cancels = S]]
    <3>1. /\ [x EXCEPT !.at = at, !.cancels = S].at = at
          /\ [x EXCEPT !.at = at, !.cancels = S].snapshot = x.snapshot
          /\ [x EXCEPT !.at = at, !.cancels = S].delivery = x.delivery
      BY <2>1 DEF PollRow
    <3> QED
      BY <2>1, <2>4, <3>1, PollRowUpdate DEF x
  <2>5. CASE poll' = [poll EXCEPT ![p] = [x EXCEPT !.at = at, !.due = L]]
    <3>1. /\ [x EXCEPT !.at = at, !.due = L].at = at
          /\ [x EXCEPT !.at = at, !.due = L].snapshot = x.snapshot
          /\ [x EXCEPT !.at = at, !.due = L].delivery = x.delivery
      BY <2>1 DEF PollRow
    <3> QED
      BY <2>1, <2>5, <3>1, PollRowUpdate DEF x
  <2> QED
    BY <2>2, <2>3, <2>4, <2>5 DEF x
<1>3. poll' \in [Requests -> PollRow]
  BY <1>1, <1>2
<1>4. poll'[p] = row /\ \A q \in Requests \ {p} : poll'[q] = poll[q]
  BY <1>1, <1>2
<1> QED
  BY <1>2, <1>3, <1>4 DEF DaemonStill, At

\* The steps of a poll on the server that claim nothing.
LEMMA ServeStill ==
  ASSUME DaemonTypeOK, NEW p \in Requests,
         \/ Heartbeat(p) \/ Release(p) \/ Advance(p) \/ Respond(p) \/ PollAgain(p)
  PROVE  DaemonStill /\ silent' \subseteq silent /\ UNCHANGED <<swept, faults>>
<1>1. poll \in [Requests -> PollRow]
  BY DEF DaemonTypeOK
<1>2. CASE Heartbeat(p)
  BY <1>1, <1>2, MovedPoll DEF Heartbeat, At, PollSteps
<1>3. CASE Release(p)
  <2> DEFINE L == {l \in Loops : Due(l)}
  <2>1. L \in SUBSET Loops
    OBVIOUS
  <2>2. poll' = [poll EXCEPT ![p] = [poll[p] EXCEPT !.at = "released", !.due = L]]
    BY <1>1, <1>3 DEF Release, ReadDue
  <2> HIDE DEF L
  <2> QED
    BY <1>1, <1>3, <2>1, <2>2, MovedPoll DEF Release, ReadDue, At, PollSteps
<1>4. CASE Advance(p)
  <2>1. ASSUME NEW l \in poll[p].due,
               poll' = [poll EXCEPT ![p].due = @ \ {l}],
               UNCHANGED <<daemon, held, aborted, agent, outbox, silent, swept, faults>>
        PROVE  DaemonStill /\ silent' \subseteq silent /\ UNCHANGED <<swept, faults>>
    <3> DEFINE L == poll[p].due \ {l}
    <3>1. L \in SUBSET Loops
      BY <1>1 DEF PollRow
    <3>2. poll' = [poll EXCEPT ![p] = [poll[p] EXCEPT !.at = "released", !.due = L]]
      <4> DEFINE row == poll[p]
      <4>1. row \in PollRow /\ poll' = [poll EXCEPT ![p] = [row EXCEPT !.due = L]]
        BY <1>1, <2>1
      <4>2. row.at = "released"
        BY <1>4 DEF Advance, At
      <4> HIDE DEF row, L
      <4>3. [row EXCEPT !.due = L] = [row EXCEPT !.at = "released", !.due = L]
        BY <4>1, <4>2 DEF PollRow
      <4> QED
        BY <4>1, <4>3 DEF row
    <3> HIDE DEF L
    <3> QED
      BY <1>1, <1>4, <2>1, <3>1, <3>2, MovedPoll DEF Advance, At, PollSteps
  <2>2. CASE poll[p].due = {}
    BY <1>1, <1>4, <2>2, MovedPoll DEF Advance, ToStep, At, PollSteps
  <2> QED
    BY <1>4, <2>1, <2>2 DEF Advance
<1>5. CASE Respond(p)
  <2> DEFINE S == {r \in poll[p].snapshot : run[r].phase = "running" /\ run[r].cancel}
  <2>1. S \in SUBSET Runs
    BY <1>1 DEF PollRow
  <2>2. poll' = [poll EXCEPT ![p] = [poll[p] EXCEPT !.at = "answered", !.cancels = S]]
    BY <1>1, <1>5 DEF Respond
  <2> HIDE DEF S
  <2> QED
    BY <1>1, <1>5, <2>1, <2>2, MovedPoll DEF Respond, At, PollSteps
<1>6. CASE PollAgain(p)
  <2>1. poll' = [poll EXCEPT ![p] = [poll[p] EXCEPT !.at = "sent", !.again = TRUE]]
    BY <1>1, <1>6 DEF PollAgain
  <2> QED
    BY <1>1, <1>6, <2>1, MovedPoll DEF PollAgain, At, PollSteps
<1> QED
  BY <1>2, <1>3, <1>4, <1>5, <1>6

\* Such a step keeps the invariant, whatever transaction goes with it.
LEMMA StillInv ==
  ASSUME DaemonInv, RowsStay, DaemonStill
  PROVE  Polling' /\ Occupancy' /\ Agents'
<1> USE DEF DaemonStill
<1>1. KnownRunsAreMinted'
  BY MintedStay DEF DaemonInv, Polling, KnownRunsAreMinted
<1>2. IdlePolls'
  BY DEF DaemonInv, Polling, IdlePolls, At, Requests
<1>3. Agents'
  BY DEF DaemonInv, Agents, OutboxIsHeld, AgentsAreHeld
<1>4. \A q \in Runs : /\ Occupies(q)' <=> Occupies(q)
                      /\ Occupies(q) => run'[q].loop = run[q].loop
  BY MintedStay DEF DaemonInv, Polling, KnownRunsAreMinted, Occupies
<1>5. SnapshotCovers'
  BY <1>4 DEF DaemonInv, Occupancy, SnapshotCovers, At, Requests
<1>6. OccupantsAreApart'
  BY <1>4 DEF DaemonInv, Occupancy, OccupantsAreApart
<1>7. ClaimIsAcceptable'
  <2> DEFINE d == poll["current"].delivery
  <2> SUFFICES ASSUME d # NoRun
               PROVE  CanAccept(poll["current"].delivery)'
    BY DEF ClaimIsAcceptable, Requests
  <2>1. run'[d].loop = run[d].loop
    BY MintedStay DEF DaemonInv, Polling, KnownRunsAreMinted, Requests
  <2>2. CanAccept(d)
    BY DEF DaemonInv, Occupancy, ClaimIsAcceptable
  <2>3. poll'["current"].delivery = d
    BY DEF Requests
  <2> HIDE DEF d
  <2> QED
    BY <1>4, <2>1, <2>2, <2>3 DEF CanAccept
<1> QED
  BY <1>1, <1>2, <1>3, <1>5, <1>6, <1>7 DEF Polling, Occupancy

-----------------------------------------------------------------------------
(* Steps of the daemon.                                                    *)

\* A step that lets runs go, and keeps, drops or puts aside polls.
LEMMA LettingGo ==
  ASSUME DaemonInv, RowsStay,
         \A r \in Runs : /\ Occupies(r)' => Occupies(r)
                         /\ held'[r] # "none" \/ outbox'[r] # "none"
                              => held[r] # "none" \/ outbox[r] # "none",
         \A p \in Requests : poll'[p] \in {NoPoll, poll["current"], poll["abandoned"]},
         \/ poll'["current"] = NoPoll
         \/ /\ poll'["current"] = poll["current"]
            /\ \A r \in Runs : held[r] = "none" => held'[r] = "none"
  PROVE  KnownRunsAreMinted' /\ Occupancy'
<1>1. NoPoll.snapshot = {} /\ NoPoll.delivery = NoRun /\ NoPoll.at = "idle"
  BY DEF NoPoll
<1>2. KnownRunsAreMinted'
  BY <1>1, MintedStay DEF DaemonInv, Polling, KnownRunsAreMinted, Requests
<1>3. \A q \in Runs : Occupies(q) => run'[q].loop = run[q].loop
  BY MintedStay DEF DaemonInv, Polling, KnownRunsAreMinted, Occupies
<1>4. OccupantsAreApart'
  BY <1>3 DEF DaemonInv, Occupancy, OccupantsAreApart
<1>5. SnapshotCovers'
  BY <1>1 DEF DaemonInv, Occupancy, SnapshotCovers, At
<1>6. ClaimIsAcceptable'
  <2> DEFINE d == poll'["current"].delivery
  <2> SUFFICES ASSUME d # NoRun
               PROVE  CanAccept(poll["current"].delivery)'
    BY DEF ClaimIsAcceptable
  <2>1. /\ d = poll["current"].delivery
        /\ \A r \in Runs : held[r] = "none" => held'[r] = "none"
    BY <1>1
  <2>2. CanAccept(d)
    BY <2>1 DEF DaemonInv, Occupancy, ClaimIsAcceptable
  <2>3. d \in Runs /\ run'[d].loop = run[d].loop
    BY <2>1, MintedStay DEF DaemonInv, Polling, KnownRunsAreMinted, Requests
  <2> QED
    BY <1>3, <2>1, <2>2, <2>3 DEF CanAccept
<1> QED
  BY <1>2, <1>4, <1>5, <1>6 DEF Occupancy

\* An agent starts or ends.
LEMMA AgentStep ==
  ASSUME DaemonInv, RowsStay, NEW r \in Runs,
         Spawn(r) \/ SkipSpawn(r) \/ Exit(r) \/ TimesOut(r)
  PROVE  DaemonTypeOK' /\ Polling' /\ Occupancy' /\ Agents'
<1>1. PICK x \in AgentStates : /\ agent' = [agent EXCEPT ![r] = x]
                               /\ x # "none" => held[r] = "executing"
  <2>1. CASE Spawn(r)
    BY <2>1 DEF Spawn, Executing, AgentStates
  <2>2. CASE SkipSpawn(r)
    BY <2>2 DEF SkipSpawn, Executing, AgentStates, Ended
  <2>3. CASE Exit(r)
    BY <2>3, DaemonAssumption DEF Exit, EndsWith, Executing, AgentStates, Ended
  <2>4. CASE TimesOut(r)
    BY <2>4 DEF TimesOut, Executing, AgentStates, Ended
  <2> QED
    BY <2>1, <2>2, <2>3, <2>4
<1>2. UNCHANGED <<daemon, held, aborted, outbox, poll, silent, swept, faults>>
  BY DEF Spawn, SkipSpawn, Exit, TimesOut
<1>3. DaemonTypeOK'
  BY <1>1, <1>2 DEF DaemonInv, DaemonTypeOK
<1>4. KnownRunsAreMinted' /\ Occupancy'
  BY <1>2, LettingGo DEF Occupies, Requests
<1>5. IdlePolls' /\ OutboxIsHeld'
  BY <1>2 DEF DaemonInv, Polling, IdlePolls, Agents, OutboxIsHeld, At
<1>6. ~Orphans => AgentsAreHeld'
  BY <1>1, <1>2 DEF DaemonInv, DaemonTypeOK, Agents, AgentsAreHeld
<1> QED
  BY <1>3, <1>4, <1>5, <1>6 DEF Polling, Agents

\* A result goes into the outbox.
LEMMA PersistStep ==
  ASSUME DaemonInv, RowsStay, NEW r \in Runs, Persist(r)
  PROVE  DaemonTypeOK' /\ Polling' /\ Occupancy' /\ Agents'
<1>1. /\ held[r] = "executing" /\ agent[r] \in Ended
      /\ outbox' = [outbox EXCEPT ![r] = agent[r]]
      /\ held' = [held EXCEPT ![r] = "reporting"]
      /\ agent' = [agent EXCEPT ![r] = "none"]
      /\ aborted' = [aborted EXCEPT ![r] = "none"]
      /\ UNCHANGED <<daemon, poll, silent, swept, faults>>
  BY DEF Persist, Executing
<1>2. DaemonTypeOK'
  BY <1>1 DEF DaemonInv, DaemonTypeOK, Stages, AgentStates
<1>3. KnownRunsAreMinted' /\ Occupancy'
  BY <1>1, LettingGo DEF Occupies, Requests, DaemonInv, DaemonTypeOK
<1>4. IdlePolls'
  BY <1>1 DEF DaemonInv, DaemonTypeOK, Polling, IdlePolls, At
<1>5. OutboxIsHeld'
  BY <1>1 DEF DaemonInv, DaemonTypeOK, Agents, OutboxIsHeld
<1>6. ~Orphans => AgentsAreHeld'
  BY <1>1 DEF DaemonInv, DaemonTypeOK, Agents, AgentsAreHeld
<1> QED
  BY <1>2, <1>3, <1>4, <1>5, <1>6 DEF Polling, Agents

\* A result is acknowledged.
LEMMA AcknowledgeStep ==
  ASSUME DaemonInv, RowsStay, NEW r \in Runs, Acknowledge(r)
  PROVE  DaemonTypeOK' /\ Polling' /\ Occupancy' /\ Agents'
<1>1. /\ daemon = "up" /\ outbox[r] # "none"
      /\ outbox' = [outbox EXCEPT ![r] = "none"]
      /\ held' = [held EXCEPT ![r] = "none"]
      /\ UNCHANGED <<daemon, aborted, agent, poll, silent, swept, faults>>
  BY DEF Acknowledge
<1>2. DaemonTypeOK'
  BY <1>1 DEF DaemonInv, DaemonTypeOK, Stages
<1>3. KnownRunsAreMinted' /\ Occupancy'
  BY <1>1, LettingGo DEF Occupies, Requests, DaemonInv, DaemonTypeOK
<1>4. IdlePolls'
  BY <1>1 DEF DaemonInv, DaemonTypeOK, Polling, IdlePolls, At
<1>5. OutboxIsHeld'
  BY <1>1 DEF DaemonInv, DaemonTypeOK, Agents, OutboxIsHeld
<1>6. held[r] # "executing"
  BY <1>1 DEF DaemonInv, Agents, OutboxIsHeld
<1>7. ~Orphans => AgentsAreHeld'
  BY <1>1, <1>6 DEF DaemonInv, DaemonTypeOK, Agents, AgentsAreHeld
<1> QED
  BY <1>2, <1>3, <1>4, <1>5, <1>7 DEF Polling, Agents

\* What giving up the current poll leaves behind.
LEMMA HangUpPolls ==
  ASSUME HangUp
  PROVE  /\ \A p \in Requests : poll'[p] \in {NoPoll, poll["current"], poll["abandoned"]}
         /\ poll'["current"] = NoPoll
  BY DEF HangUp, Requests

\* The daemon or the server stops, or loses a request.
LEMMA FaultStep ==
  ASSUME DaemonInv, RowsStay, LosePoll \/ Terminate \/ Kill \/ ServerRestarts \/ Stopped
  PROVE  DaemonTypeOK' /\ Polling' /\ Occupancy' /\ Agents'
<1> USE DEF Fault
<1>1. NoPoll \in PollRow /\ NoPoll.delivery = NoRun /\ NoPoll.at = "idle"
  BY DEF NoPoll, PollRow, PollSteps
<1>2. /\ poll' \in [Requests -> PollRow]
      /\ \A p \in Requests : poll'[p] \in {NoPoll, poll["current"], poll["abandoned"]}
      /\ poll'["current"] = NoPoll \/ (daemon = "stopping" /\ poll' = poll)
  <2>1. CASE HangUp
    BY <2>1, HangUpType, HangUpPolls DEF DaemonInv
  <2>2. CASE LosePoll /\ ~HangUp
    BY <1>1, <2>2 DEF LosePoll, Requests, DaemonInv, DaemonTypeOK
  <2>3. CASE ServerRestarts
    BY <1>1, <2>3 DEF ServerRestarts, Requests
  <2>4. CASE Stopped
    BY <2>4 DEF Stopped, Requests, DaemonInv, DaemonTypeOK
  <2> QED
    BY <2>1, <2>2, <2>3, <2>4 DEF Terminate, Kill
<1>3. /\ \A r \in Runs : held'[r] = held[r] \/ held'[r] = "none"
      /\ outbox' = outbox
  BY DEF LosePoll, Terminate, Kill, ServerRestarts, Stopped, DaemonInv, DaemonTypeOK
<1>4. faults' \in 0..MaxFaults
  BY ConstantsAssumption, DaemonAssumption
     DEF LosePoll, Terminate, Kill, ServerRestarts, Stopped, DaemonInv, DaemonTypeOK
<1>5. /\ held' \in [Runs -> Stages] /\ daemon' \in {"up", "stopping", "down"}
      /\ silent' \subseteq Runs /\ swept' \subseteq Runs
  BY DEF LosePoll, Terminate, Kill, ServerRestarts, Stopped, DaemonInv, DaemonTypeOK, Stages
<1>6. /\ agent' \in [Runs -> AgentStates]
      /\ aborted' \in [Runs -> {"none", "cancel", "shutdown"}]
  BY DEF LosePoll, Terminate, Kill, Killed, ServerRestarts, Stopped, DaemonInv, DaemonTypeOK,
     AgentStates
<1>7. DaemonTypeOK'
  BY <1>2, <1>3, <1>4, <1>5, <1>6 DEF DaemonInv, DaemonTypeOK
<1>8. At("current", "idle")'
  BY <1>1, <1>2 DEF At, DaemonInv, Polling, IdlePolls
<1>9. poll'["current"].delivery = NoRun
  BY <1>1, <1>2 DEF At, DaemonInv, Polling, IdlePolls
<1>10. KnownRunsAreMinted' /\ Occupancy'
  BY <1>2, <1>3, LettingGo DEF Occupies, DaemonInv, Polling, IdlePolls
<1>11. IdlePolls'
  <2>1. daemon' = "down" => \A r \in Runs : held'[r] = "none"
    BY DEF LosePoll, Terminate, Kill, ServerRestarts, Stopped, DaemonInv, Polling, IdlePolls
  <2> QED
    BY <1>8, <1>9, <2>1 DEF IdlePolls, At
<1>12. OutboxIsHeld'
  BY <1>3 DEF LosePoll, Terminate, Kill, ServerRestarts, Stopped, DaemonInv, Agents, OutboxIsHeld
<1>13. ~Orphans => AgentsAreHeld'
  BY DEF LosePoll, Terminate, Kill, Killed, ServerRestarts, Stopped, Executing, DaemonInv,
     DaemonTypeOK, Agents, AgentsAreHeld
<1> QED
  BY <1>7, <1>10, <1>11, <1>12, <1>13 DEF Polling, Agents

\* The daemon starts with what its outbox holds.
LEMMA StartStep ==
  ASSUME DaemonInv, RowsStay, Start
  PROVE  DaemonTypeOK' /\ Polling' /\ Occupancy' /\ Agents'
<1>1. /\ daemon = "down" /\ daemon' = "up" /\ held' = Restored
      /\ UNCHANGED <<aborted, agent, outbox, poll, silent, swept, faults>>
  BY DEF Start
<1>2. \A r \in Runs : held'[r] = IF outbox[r] # "none" THEN "restored" ELSE "none"
  BY <1>1 DEF Restored
<1>3. DaemonTypeOK'
  BY <1>1 DEF DaemonInv, DaemonTypeOK, Restored, Stages
<1>4. At("current", "idle") /\ poll["current"].delivery = NoRun
  BY <1>1 DEF DaemonInv, Polling, IdlePolls
<1>5. KnownRunsAreMinted'
  BY <1>1, <1>2, MintedStay DEF DaemonInv, Polling, KnownRunsAreMinted
<1>6. Occupancy'
  BY <1>1, <1>2, <1>4 DEF Occupancy, SnapshotCovers, OccupantsAreApart, ClaimIsAcceptable,
     Occupies, At
<1>7. IdlePolls'
  BY <1>1, <1>4 DEF IdlePolls, At
<1>8. Agents'
  BY <1>1, <1>2 DEF DaemonInv, Polling, IdlePolls, Agents, OutboxIsHeld, AgentsAreHeld
<1> QED
  BY <1>3, <1>5, <1>6, <1>7, <1>8 DEF Polling

-----------------------------------------------------------------------------
(* Polls.                                                                  *)

\* The answer to a poll that was given up is thrown away.
LEMMA DiscardStep ==
  ASSUME DaemonInv, RowsStay, Discard
  PROVE  DaemonTypeOK' /\ Polling' /\ Occupancy' /\ Agents'
<1>1. /\ poll' = [poll EXCEPT !["abandoned"] = NoPoll]
      /\ UNCHANGED <<daemon, held, aborted, agent, outbox, silent, swept, faults>>
  BY DEF Discard
<1>2. NoPoll \in PollRow
  BY DEF NoPoll, PollRow, PollSteps
<1>3. DaemonTypeOK'
  BY <1>1, <1>2 DEF DaemonInv, DaemonTypeOK
<1>4. /\ poll'["current"] = poll["current"] /\ poll'["abandoned"] = NoPoll
  BY <1>1 DEF DaemonInv, DaemonTypeOK, Requests
<1>5. KnownRunsAreMinted' /\ Occupancy'
  BY <1>1, <1>4, LettingGo DEF Occupies, Requests
<1>6. IdlePolls' /\ Agents'
  BY <1>1, <1>4 DEF DaemonInv, Polling, IdlePolls, Agents, OutboxIsHeld, AgentsAreHeld, At
<1> QED
  BY <1>3, <1>5, <1>6 DEF Polling

\* A poll leaves with the runs the daemon holds.
LEMMA SendStep ==
  ASSUME DaemonInv, RowsStay, Send
  PROVE  DaemonTypeOK' /\ Polling' /\ Occupancy' /\ Agents'
<1> DEFINE row == [NoPoll EXCEPT !.at = "sent", !.snapshot = Held]
<1>1. /\ daemon = "up" /\ poll' = [poll EXCEPT !["current"] = row]
      /\ UNCHANGED <<daemon, held, aborted, agent, outbox, silent, swept, faults>>
  BY DEF Send, Snapshot
<1>2. row \in PollRow /\ row.at = "sent" /\ row.snapshot = Held /\ row.delivery = NoRun
  BY DEF NoPoll, PollRow, PollSteps, Held
<1> HIDE DEF row
<1>3. poll'["current"] = row /\ poll'["abandoned"] = poll["abandoned"]
  BY <1>1 DEF DaemonInv, DaemonTypeOK, Requests
<1>4. DaemonTypeOK'
  BY <1>1, <1>2 DEF DaemonInv, DaemonTypeOK
<1>5. Held \subseteq Minted
  BY DEF Held, DaemonInv, Polling, KnownRunsAreMinted
<1>6. KnownRunsAreMinted'
  BY <1>1, <1>2, <1>3, <1>5, MintedStay DEF DaemonInv, Polling, KnownRunsAreMinted, Requests
<1>7. \A q \in Runs : /\ Occupies(q)' <=> Occupies(q)
                      /\ Occupies(q) => q \in Held /\ run'[q].loop = run[q].loop
  BY <1>1, <1>5, MintedStay DEF Occupies, Held, DaemonInv
<1>8. OccupantsAreApart'
  BY <1>7 DEF DaemonInv, Occupancy, OccupantsAreApart
<1>9. SnapshotCovers' /\ ClaimIsAcceptable'
  BY <1>2, <1>3, <1>7 DEF SnapshotCovers, ClaimIsAcceptable
<1>10. IdlePolls' /\ Agents'
  BY <1>1, <1>2, <1>3 DEF DaemonInv, Polling, IdlePolls, Agents, OutboxIsHeld, AgentsAreHeld, At
<1> QED
  BY <1>4, <1>6, <1>8, <1>9, <1>10 DEF Polling, Occupancy

\* The answer arrives: cancels, and a run that is accepted.
LEMMA ReceiveStep ==
  ASSUME DaemonInv, RowsStay, Receive
  PROVE  DaemonTypeOK' /\ Polling' /\ Occupancy' /\ Agents'
<1> DEFINE r == poll["current"].delivery
<1>1. /\ daemon = "up"
      /\ held' = IF r # NoRun /\ CanAccept(r) THEN [held EXCEPT ![r] = "executing"] ELSE held
      /\ poll' = [poll EXCEPT !["current"] = NoPoll]
      /\ UNCHANGED <<daemon, agent, outbox, silent, swept, faults>>
  BY DEF Receive
<1>2. aborted' \in [Runs -> {"none", "cancel", "shutdown"}]
  BY DEF Receive, DaemonInv, DaemonTypeOK
<1>3. NoPoll \in PollRow /\ NoPoll.at = "idle" /\ NoPoll.snapshot = {} /\ NoPoll.delivery = NoRun
  BY DEF NoPoll, PollRow, PollSteps
<1>4. poll'["current"] = NoPoll /\ poll'["abandoned"] = poll["abandoned"]
  BY <1>1 DEF DaemonInv, DaemonTypeOK, Requests
<1>5. r # NoRun => r \in Minted /\ r \in Runs /\ CanAccept(r)
  BY DEF DaemonInv, Polling, KnownRunsAreMinted, Occupancy, ClaimIsAcceptable, Requests, Minted
<1> HIDE DEF r
<1>6. DaemonTypeOK'
  BY <1>1, <1>2, <1>3, <1>5 DEF DaemonInv, DaemonTypeOK, Stages
<1>7. /\ \A q \in Runs : q # r => held'[q] = held[q]
      /\ r # NoRun => held[r] = "none" /\ held'[r] = "executing"
      /\ r = NoRun => held' = held
  BY <1>1, <1>5 DEF CanAccept, DaemonInv, DaemonTypeOK
<1>8. KnownRunsAreMinted'
  BY <1>1, <1>3, <1>4, <1>5, <1>7, MintedStay
     DEF DaemonInv, Polling, KnownRunsAreMinted, Requests
<1>9. \A q \in Runs : Occupies(q)' => run'[q].loop = run[q].loop /\ (q = r \/ Occupies(q))
  BY <1>5, <1>7, MintedStay DEF Occupies, DaemonInv, Polling, KnownRunsAreMinted
<1>10. OccupantsAreApart'
  <2> SUFFICES ASSUME NEW p \in Runs, NEW q \in Runs, Occupies(p)', Occupies(q)',
                      run'[p].loop = run'[q].loop
               PROVE  p = q
    BY DEF OccupantsAreApart
  <2>1. CASE p # r /\ q # r
    BY <1>9, <2>1 DEF DaemonInv, Occupancy, OccupantsAreApart
  <2>2. CASE p = r \/ q = r
    BY <1>5, <1>9, <2>2 DEF CanAccept, Runs, NoRun
  <2> QED
    BY <2>1, <2>2
<1>11. SnapshotCovers' /\ ClaimIsAcceptable'
  BY <1>3, <1>4 DEF SnapshotCovers, ClaimIsAcceptable, At
<1>12. IdlePolls'
  BY <1>1, <1>3, <1>4 DEF IdlePolls, At
<1>13. OutboxIsHeld'
  BY <1>1, <1>7 DEF DaemonInv, Agents, OutboxIsHeld
<1>14. ~Orphans => AgentsAreHeld'
  BY <1>1, <1>7 DEF DaemonInv, Agents, AgentsAreHeld
<1> QED
  BY <1>6, <1>8, <1>10, <1>11, <1>12, <1>13, <1>14 DEF Polling, Occupancy, Agents

\* A run is claimed: the snapshot of the poll keeps the server from claiming one of
\* a loop that is occupied.
LEMMA ClaimStep ==
  ASSUME DaemonInv, RowsStay, NEW p \in Requests, Claim(p)
  PROVE  DaemonTypeOK' /\ Polling' /\ Occupancy' /\ Agents'
<1>1. /\ UNCHANGED <<daemon, held, aborted, agent, outbox, silent, swept, faults>>
      /\ At(p, "claim") /\ poll[p] \in PollRow
  BY DEF Claim, DaemonInv, DaemonTypeOK
<1>2. ASSUME \A r \in Runs : ~Claimable(r, poll[p].snapshot),
             poll' = [poll EXCEPT ![p].at = "claimed"]
      PROVE  DaemonTypeOK' /\ Polling' /\ Occupancy' /\ Agents'
  <2>1. DaemonStill
    BY <1>1, <1>2, MovedPoll DEF At, PollSteps, DaemonInv, DaemonTypeOK
  <2> QED
    BY <1>1, <2>1, StillInv DEF DaemonStill, DaemonInv, DaemonTypeOK
<1>3. ASSUME NEW r \in Runs, ClaimReadyRun(r, poll[p].snapshot),
             poll' = [poll EXCEPT ![p].at = "claimed", ![p].delivery = r]
      PROVE  DaemonTypeOK' /\ Polling' /\ Occupancy' /\ Agents'
  <2> DEFINE row == [poll[p] EXCEPT !.at = "claimed", !.delivery = r]
  <2>1. /\ row \in PollRow /\ row.at = "claimed" /\ row.delivery = r
        /\ row.snapshot = poll[p].snapshot
    <3> DEFINE x == poll[p]
    <3>1. x \in PollRow
      BY <1>1
    <3> HIDE DEF x
    <3>2. /\ [x EXCEPT !.at = "claimed", !.delivery = r].at = "claimed"
          /\ [x EXCEPT !.at = "claimed", !.delivery = r].delivery = r
          /\ [x EXCEPT !.at = "claimed", !.delivery = r].snapshot = x.snapshot
      BY <3>1 DEF PollRow
    <3>3. [x EXCEPT !.at = "claimed", !.delivery = r] \in PollRow
      BY <3>1, PollRowUpdate DEF PollSteps
    <3> QED
      BY <3>2, <3>3 DEF x
  <2>2. poll' = [poll EXCEPT ![p] = row]
    BY <1>3 DEF DaemonInv, DaemonTypeOK
  <2> HIDE DEF row
  <2>3. poll'[p] = row /\ \A q \in Requests \ {p} : poll'[q] = poll[q]
    BY <2>2 DEF DaemonInv, DaemonTypeOK
  <2>4. DaemonTypeOK'
    BY <1>1, <2>1, <2>2 DEF DaemonInv, DaemonTypeOK
  <2>5. /\ run[r].phase = "pending"
        /\ \A q \in poll[p].snapshot : run[q].loop # run[r].loop
    BY <1>3 DEF ClaimReadyRun, Claimable
  <2>6. r \notin Minted /\ run'[r].loop = run[r].loop
    BY <2>5 DEF Minted, RowsStay, DaemonInv, StoreInv, Authority, AuthorityMatchesPhase
  <2>7. r \in Minted'
    <3>1. lease' = [lease EXCEPT ![r] = [state |-> "active", elapsed |-> FALSE]]
      BY <1>3 DEF ClaimReadyRun
    <3>2. lease'[r].state = "active"
      BY <3>1 DEF DaemonInv, StoreInv, TypeInv, TypeOK
    <3> QED
      BY <3>2 DEF Minted
  <2>8. KnownRunsAreMinted'
    BY <1>1, <2>1, <2>3, <2>7, MintedStay DEF DaemonInv, Polling, KnownRunsAreMinted
  <2>9. \A q \in Runs : /\ Occupies(q)' <=> Occupies(q)
                        /\ Occupies(q) => run'[q].loop = run[q].loop
    BY <1>1, MintedStay DEF Occupies, DaemonInv, Polling, KnownRunsAreMinted
  <2>10. OccupantsAreApart'
    BY <2>9 DEF DaemonInv, Occupancy, OccupantsAreApart
  <2>11. /\ poll'["current"].snapshot = poll["current"].snapshot
         /\ At("current", "idle")' <=> At("current", "idle")
    BY <1>1, <2>1, <2>3 DEF At, Requests
  <2>12. SnapshotCovers'
    BY <2>9, <2>11 DEF DaemonInv, Occupancy, SnapshotCovers
  <2>13. IdlePolls'
    BY <1>1, <2>1, <2>3, <2>11 DEF DaemonInv, Polling, IdlePolls, At, Requests
  <2>14. Agents'
    BY <1>1 DEF DaemonInv, Agents, OutboxIsHeld, AgentsAreHeld
  <2>15. ClaimIsAcceptable'
    <3>1. CASE p = "current"
      <4>1. held'[r] = "none"
        BY <1>1, <2>6 DEF DaemonInv, Polling, KnownRunsAreMinted
      <4>2. \A q \in Runs : Occupies(q) => q \in poll[p].snapshot
        BY <1>1, <3>1 DEF DaemonInv, Occupancy, SnapshotCovers, At
      <4>3. \A q \in Runs : Occupies(q)' => run'[q].loop # run'[r].loop
        BY <2>5, <2>6, <2>9, <4>2
      <4>4. poll'["current"].delivery = r
        BY <2>1, <2>3, <3>1
      <4> QED
        BY <4>1, <4>3, <4>4 DEF ClaimIsAcceptable, CanAccept
    <3>2. CASE p # "current"
      <4> DEFINE d == poll["current"].delivery
      <4>1. poll'["current"] = poll["current"]
        BY <2>3, <3>2 DEF Requests
      <4>2. d # NoRun => CanAccept(d) /\ run'[d].loop = run[d].loop
        BY MintedStay
           DEF DaemonInv, Occupancy, ClaimIsAcceptable, Polling, KnownRunsAreMinted, Requests
      <4>3. poll'["current"].delivery = d
        BY <4>1
      <4> HIDE DEF d
      <4> QED
        BY <1>1, <2>9, <4>2, <4>3 DEF ClaimIsAcceptable, CanAccept
    <3> QED
      BY <3>1, <3>2
  <2> QED
    BY <2>4, <2>8, <2>10, <2>12, <2>13, <2>14, <2>15 DEF Polling, Occupancy
<1> QED
  BY <1>2, <1>3 DEF Claim

-----------------------------------------------------------------------------
(* The whole.                                                              *)

\* Initially nothing runs, and nothing is known.
LEMMA InitDaemon == DaemonInit => DaemonInv
<1> SUFFICES ASSUME DaemonInit PROVE DaemonInv
  OBVIOUS
<1>1. TypeInv
  BY ConstantsAssumption DEF DaemonInit, TypeInv, TypeOK, RunsHaveLoops, LoopRow, RunRow,
     LeaseRow, ReceiptRow, Modes, Overlaps, NoRun
<1>2. Authority
  BY DEF DaemonInit, Authority, AuthorityMatchesPhase, SingleAuthority, Fences, Grace
<1>3. DaemonTypeOK
  BY DaemonAssumption DEF DaemonInit, DaemonTypeOK, Stages, AgentStates, NoPoll, PollRow, PollSteps
<1>4. \A p \in Requests : /\ poll[p].at = "idle" /\ poll[p].snapshot = {}
                          /\ poll[p].delivery = NoRun
  BY DEF DaemonInit, NoPoll
<1>5. Polling
  BY <1>4 DEF DaemonInit, Polling, KnownRunsAreMinted, IdlePolls, At, Requests
<1>6. Occupancy
  BY <1>4 DEF DaemonInit, Occupancy, SnapshotCovers, OccupantsAreApart, ClaimIsAcceptable,
     Occupies, At, Requests
<1>7. Agents
  BY DEF DaemonInit, Agents, OutboxIsHeld, AgentsAreHeld
<1> QED
  BY <1>1, <1>2, <1>3, <1>5, <1>6, <1>7 DEF DaemonInv, StoreInv

\* Every other step is still for the daemon.
LEMMA OtherStep ==
  ASSUME DaemonInv, RowsStay,
         \/ \E p \in Requests : \/ Heartbeat(p) \/ Release(p) \/ Advance(p) \/ Respond(p)
                                \/ PollAgain(p)
         \/ \E r \in Runs : \/ Report(r) \/ GoesSilent(r) \/ SweepReclaims(r)
                            \/ GraceElapses(r) \/ Prune(r)
         \/ SweepReads \/ Owner \/ UNCHANGED sysVars
         \/ \E l \in Loops : CadenceDue(l) \/ Delete(l)
  PROVE  DaemonTypeOK' /\ Polling' /\ Occupancy' /\ Agents'
<1>1. DaemonTypeOK
  BY DEF DaemonInv
<1>2. /\ DaemonStill /\ faults' = faults
      /\ silent' \subseteq Runs /\ swept' \subseteq Runs
  <2>1. ASSUME NEW p \in Requests,
               Heartbeat(p) \/ Release(p) \/ Advance(p) \/ Respond(p) \/ PollAgain(p)
        PROVE  DaemonStill /\ faults' = faults /\ silent' \subseteq Runs /\ swept' \subseteq Runs
    BY <1>1, <2>1, ServeStill DEF DaemonTypeOK
  <2>2. ASSUME UNCHANGED <<daemon, held, aborted, agent, outbox, poll>>
        PROVE  DaemonStill
    BY <1>1, <2>2 DEF DaemonStill, DaemonTypeOK
  <2>3. ASSUME NEW r \in Runs,
               \/ Report(r) \/ GoesSilent(r) \/ SweepReclaims(r) \/ GraceElapses(r) \/ Prune(r)
        PROVE  DaemonStill /\ faults' = faults /\ silent' \subseteq Runs /\ swept' \subseteq Runs
    BY <1>1, <2>2, <2>3 DEF Report, GoesSilent, SweepReclaims, GraceElapses, Prune, dvars,
       DaemonTypeOK
  <2>4. ASSUME \/ SweepReads \/ Owner \/ UNCHANGED sysVars
               \/ \E l \in Loops : CadenceDue(l) \/ Delete(l)
        PROVE  DaemonStill /\ faults' = faults /\ silent' \subseteq Runs /\ swept' \subseteq Runs
    BY <1>1, <2>2, <2>4 DEF SweepReads, Owner, CadenceDue, Delete, sysVars, dvars, DaemonTypeOK
  <2> QED
    BY <2>1, <2>3, <2>4
<1> QED
  BY <1>1, <1>2, StillInv DEF DaemonStill, DaemonTypeOK

\* Every step keeps the invariant.
LEMMA StepDaemon == DaemonInv /\ [SystemNext]_sysVars => DaemonInv' /\ [Next]_vars
<1> SUFFICES ASSUME DaemonInv, [SystemNext]_sysVars
             PROVE  DaemonInv' /\ [Next]_vars
  OBVIOUS
<1>1. [Next]_vars
  BY StoreAllows DEF DaemonInv, Polling
<1>2. StoreInv'
  BY <1>1, StepType, StepAuthority DEF DaemonInv, StoreInv
<1>3. RowsStay
  BY <1>1, StepStays DEF DaemonInv, StoreInv
<1>4. DaemonTypeOK' /\ Polling' /\ Occupancy' /\ Agents'
  BY <1>3, OtherStep, AgentStep, PersistStep, AcknowledgeStep, FaultStep, StartStep,
     DiscardStep, SendStep, ReceiveStep, ClaimStep DEF SystemNext, DaemonNext, Serve, Execute
<1> QED
  BY <1>1, <1>2, <1>4 DEF DaemonInv

LEMMA DaemonAlways == DaemonSpec => []DaemonInv /\ [][Next]_vars
<1>1. [DaemonNext]_sysVars => [SystemNext]_sysVars
  BY DEF SystemNext
<1> QED
  BY <1>1, InitDaemon, StepDaemon, PTL DEF DaemonSpec

\* Whatever the daemon, the polls, the sweep and the faults do, the tables change only
\* by transactions of RunStore: so the invariants of its rows hold of the system.
THEOREM SystemKeepsToStore ==
  DaemonSpec => [][Next]_vars /\ []AuthorityMatchesPhase /\ []SingleAuthority
<1>1. DaemonInv => AuthorityMatchesPhase /\ SingleAuthority
  BY DEF DaemonInv, StoreInv, Authority
<1> QED
  BY <1>1, DaemonAlways, PTL

\* The daemon, its polls, its agents and its outbox keep their shapes.
THEOREM DaemonTypeCorrect == DaemonSpec => []DaemonTypeOK
<1>1. DaemonInv => DaemonTypeOK
  BY DEF DaemonInv
<1> QED
  BY <1>1, DaemonAlways, PTL

\* What the invariant says of deliveries and of agents.
LEMMA DaemonInvSafe == DaemonInv => DeliveriesAreAccepted /\ (~Orphans => OneAgentPerLoop)
  BY DEF DaemonInv, Agents, AgentsAreHeld, Occupancy, OccupantsAreApart, Occupies, OneAgentPerLoop,
     ClaimIsAcceptable, DeliveriesAreAccepted

\* The server never hands the daemon a run of a loop it still executes or reports.
THEOREM ClaimsAreAccepted == DaemonSpec => []DeliveriesAreAccepted
  BY DaemonInvSafe, DaemonAlways, PTL

\* If agents die with their daemon, no two of them work on one loop at a time.
THEOREM AgentsNeverOverlap == DaemonSpec => [](~Orphans => OneAgentPerLoop)
  BY DaemonInvSafe, DaemonAlways, PTL

-----------------------------------------------------------------------------
(* Custody of a result.  A result in the outbox can be reported because    *)
(* the lease of its run is consumed by its own report only, and that       *)
(* leaves the receipt the daemon waits for: a daemon's reports are all     *)
(* acceptable, and each has a reportId of its own.                         *)

OwnReceipts == incident = {} /\ \A rid \in ReportIds : receipt[rid].run \in {NoRun, rid}

\* What the steps of the system answer.
LEMMA ReceiptsStep ==
  ASSUME DaemonInv, OwnReceipts, [SystemNext]_sysVars
  PROVE  OwnReceipts'
<1>1. ASSUME UNCHANGED <<receipt, incident>>
      PROVE  OwnReceipts'
  BY <1>1 DEF OwnReceipts
<1>2. ASSUME NEW r \in Runs, Report(r)
      PROVE  OwnReceipts'
  <2>1. incident' = incident /\ \E status : Answer(r, r, status)
    BY <1>2 DEF Report, FinalizeRunningRun, ReconcileReclaimedRun, AcknowledgeRetiredReport
  <2> QED
    BY <2>1, DaemonAssumption DEF OwnReceipts, Answer, DaemonInv, StoreInv, TypeInv, TypeOK
<1>3. ASSUME NEW p \in Requests, Serve(p) \/ PollAgain(p)
      PROVE  UNCHANGED <<receipt, incident>>
  BY <1>3 DEF Serve, PollAgain, Heartbeat, Release, ReleaseAbsentReconciliations, Advance,
     AdvanceSchedule, Claim, ClaimReadyRun, Respond, vars
<1>4. ASSUME NEW r \in Runs, SweepReclaims(r) \/ GraceElapses(r) \/ Prune(r)
      PROVE  UNCHANGED <<receipt, incident>>
  BY <1>4 DEF SweepReclaims, ReclaimRun, GraceElapses, LeaseElapses, Prune, RetireElapsed, vars
<1>5. ASSUME NEW l \in Loops, CadenceDue(l) \/ Delete(l)
      PROVE  UNCHANGED <<receipt, incident>>
  BY <1>5, LoopStepAnswersNothing DEF CadenceDue, Delete, LoopStep
<1>6. CASE Owner
  BY <1>1, <1>6, LoopStepAnswersNothing DEF Owner, LoopStep, RequestRunCancel
<1>7. CASE UNCHANGED vars
  BY <1>1, <1>7 DEF vars
<1>8. CASE \/ Send \/ Receive \/ Discard \/ LosePoll \/ Terminate \/ Stopped \/ Kill \/ Start
           \/ ServerRestarts \/ SweepReads \/ UNCHANGED sysVars
  BY <1>7, <1>8 DEF Send, Receive, Discard, LosePoll, Terminate, Stopped, Kill, Start,
     ServerRestarts, SweepReads, sysVars
<1>9. ASSUME NEW r \in Runs, Execute(r) \/ TimesOut(r) \/ Acknowledge(r) \/ GoesSilent(r)
      PROVE  OwnReceipts'
  BY <1>7, <1>9 DEF Execute, Spawn, SkipSpawn, Exit, TimesOut, Persist, Acknowledge, GoesSilent
<1> QED
  BY <1>1, <1>2, <1>3, <1>4, <1>5, <1>6, <1>8, <1>9 DEF SystemNext, DaemonNext

\* The evidence of RunStore holds of the system as well.
Evidence == EvidenceInv /\ OwnReceipts

LEMMA InitOfEvidence == DaemonInit => Evidence
  BY DEF DaemonInit, Evidence, OwnReceipts, EvidenceInv, ConsumedLeaseHasEvidence,
     OneVerdictPerReport, EvidenceConsumes, RejectedRunsFailed, RetiredRunsFailed, NoRun, Runs

LEMMA StepOfEvidence == DaemonInv /\ Evidence /\ [SystemNext]_sysVars => Evidence'
<1> SUFFICES ASSUME DaemonInv, Evidence, [SystemNext]_sysVars PROVE Evidence'
  OBVIOUS
<1>1. EvidenceInv'
  BY StepDaemon, StepEvidence DEF DaemonInv, StoreInv, Evidence
<1>2. OwnReceipts'
  BY ReceiptsStep DEF Evidence
<1> QED
  BY <1>1, <1>2 DEF Evidence

LEMMA EvidenceReports == DaemonInv /\ Evidence => OutboxIsReportable
<1>1. ASSUME DaemonInv, Evidence, NEW r \in Runs, lease[r].state = "consumed"
      PROVE  receipt[r].run = r
  <2>1. PICK rid \in ReportIds : receipt[rid].run = r
    BY <1>1 DEF Evidence, EvidenceInv, OwnReceipts, ConsumedLeaseHasEvidence
  <2> QED
    BY <1>1, <2>1 DEF Evidence, OwnReceipts, Runs, NoRun
<1>2. ASSUME DaemonInv, NEW r \in Runs, outbox[r] # "none"
      PROVE  lease[r].state # "none" /\ lease[r] \in LeaseRow
  BY <1>2 DEF DaemonInv, StoreInv, TypeInv, TypeOK, Polling, KnownRunsAreMinted, Minted
<1> QED
  BY <1>1, <1>2 DEF OutboxIsReportable, LeaseRow

\* A result in the outbox is never left without a taker: however long ago its run was
\* swept, disowned, retired or deleted, the lease is there to be reported against, or
\* the receipt of that very report is.
THEOREM OutboxStaysReportable == DaemonSpec => []OutboxIsReportable
<1>1. [DaemonNext]_sysVars => [SystemNext]_sysVars
  BY DEF SystemNext
<1> QED
  BY <1>1, InitDaemon, StepDaemon, InitOfEvidence, StepOfEvidence, EvidenceReports, PTL
     DEF DaemonSpec

-----------------------------------------------------------------------------
(* Custody of a run.  The server trusts the silence of a poll: a run that  *)
(* was swept and that the request does not name is over.  The request may  *)
(* be old by then; what saves it is that the daemon takes on no run while  *)
(* a request is under way, and that a run the daemon holds is not suspect  *)
(* yet, or is named in the request it gave up.                             *)

Late == {"terminal-grace", "reconciliation-only"}
Suspected == silent \cup swept \cup {r \in Runs : lease[r].state \in Late}

\* What the daemon holds or has the result of, its next poll will name.
Mentioned(r) == held[r] # "none" \/ outbox[r] # "none"

SuspectsAreMinted == silent \cup swept \subseteq Minted
DeliveryIsTrusted == poll["current"].delivery \notin Suspected
CurrentNames ==
  ~At("current", "idle") => \A r \in Runs : Mentioned(r) => r \in poll["current"].snapshot
AbandonedNames ==
  ~At("abandoned", "idle") =>
    \A r \in Suspected : Mentioned(r) => r \in poll["abandoned"].snapshot
DisownedAreGone == \A r \in Runs : lease[r].state = "reconciliation-only" => ~Mentioned(r)

\* A poll claims once.
Early == {"idle", "sent", "heard", "released", "claim"}
PollsClaimOnce == \A p \in Requests : poll[p].at \in Early => poll[p].delivery = NoRun

Custody == /\ SuspectsAreMinted /\ DeliveryIsTrusted /\ CurrentNames /\ AbandonedNames
           /\ DisownedAreGone /\ PollsClaimOnce

LEMMA SuspectsAreRuns == DaemonTypeOK => Suspected \subseteq Runs /\ NoRun \notin Suspected
<1>1. DaemonTypeOK => Suspected \subseteq Runs
  BY DEF DaemonTypeOK, Suspected
<1>2. NoRun \notin Runs
  BY ConstantsAssumption DEF Runs, NoRun
<1> QED
  BY <1>1, <1>2

\* A lease becomes late by the sweep, and is disowned by a poll.
LateStays(q) == lease'[q].state \in Late => lease'[q].state = lease[q].state

LEMMA LoopStepLate ==
  ASSUME TypeInv, NEW l \in Loops, LoopStep(l), NEW q \in Runs
  PROVE  LateStays(q)
<1>1. CASE TryDeleteLoop(l) \/ ForceDeleteLoop(l)
  <2>1. \E states : RetireLeases({l}, states)
    BY <1>1 DEF TryDeleteLoop, ForceDeleteLoop
  <2> QED
    BY <2>1 DEF RetireLeases, LateStays, Late
<1>2. CASE ~TryDeleteLoop(l) /\ ~ForceDeleteLoop(l)
  BY <1>2, LoopStepQuiet DEF LateStays
<1> QED
  BY <1>1, <1>2

LEMMA RunStepLate ==
  ASSUME TypeInv, NEW r \in Runs, NEW q \in Runs,
         \/ RequestRunCancel(r) \/ RetireElapsed(r) \/ LeaseElapses(r)
         \/ \E reported : ClaimReadyRun(r, reported)
         \/ ReclaimRun(r) /\ q # r
  PROVE  LateStays(q)
<1>1. /\ lease \in [Runs -> LeaseRow]
      /\ [lease[r] EXCEPT !.elapsed = TRUE].state = lease[r].state
  BY DEF TypeInv, TypeOK, LeaseRow
<1>2. CASE lease' = lease
  BY <1>2 DEF LateStays
<1>3. CASE RetireElapsed(r)
  BY <1>1, <1>3 DEF RetireElapsed, LateStays, Late
<1>4. CASE LeaseElapses(r)
  <2>1. lease' = [lease EXCEPT ![r] = [lease[r] EXCEPT !.elapsed = TRUE]]
    BY <1>1, <1>4 DEF LeaseElapses
  <2> QED
    BY <1>1, <2>1 DEF LateStays
<1>5. ASSUME NEW reported, ClaimReadyRun(r, reported)
      PROVE  LateStays(q)
  BY <1>1, <1>5 DEF ClaimReadyRun, LateStays, Late
<1>6. CASE ReclaimRun(r) /\ q # r
  BY <1>1, <1>6 DEF ReclaimRun, LateStays
<1> QED
  BY <1>2, <1>3, <1>4, <1>5, <1>6 DEF RequestRunCancel

LEMMA ReportLate ==
  ASSUME TypeInv, NEW r \in Runs, Report(r), NEW q \in Runs
  PROVE  LateStays(q)
<1>1. Consume(r)
  BY DEF Report, FinalizeRunningRun, ReconcileReclaimedRun, AcknowledgeRetiredReport
<1> QED
  BY <1>1 DEF Consume, TypeInv, TypeOK, LateStays, Late

LEMMA LateLeases ==
  ASSUME DaemonInv, [SystemNext]_sysVars, NEW q \in Runs, ~SweepReclaims(q),
         \A p \in Requests : ~Release(p)
  PROVE  LateStays(q)
<1>1. TypeInv
  BY DEF DaemonInv, StoreInv
<1>2. CASE UNCHANGED vars
  BY <1>2 DEF LateStays, vars
<1>3. ASSUME NEW p \in Requests, Serve(p) \/ PollAgain(p)
      PROVE  LateStays(q)
  <2>1. poll[p].due \subseteq Loops
    BY DEF DaemonInv, DaemonTypeOK, PollRow
  <2>2. CASE Advance(p)
    BY <1>1, <1>2, <2>1, <2>2, LoopStepLate DEF Advance, LoopStep
  <2>3. CASE Claim(p)
    BY <1>1, <1>2, <2>3, RunStepLate DEF Claim
  <2> QED
    BY <1>2, <1>3, <2>2, <2>3 DEF Serve, Heartbeat, Respond, PollAgain
<1>4. ASSUME NEW r \in Runs, SweepReclaims(r) \/ GraceElapses(r) \/ Prune(r)
      PROVE  LateStays(q)
  <2>1. CASE SweepReclaims(r)
    BY <1>1, <1>2, <2>1, RunStepLate DEF SweepReclaims
  <2>2. CASE GraceElapses(r) \/ Prune(r)
    BY <1>1, <2>2, RunStepLate DEF GraceElapses, Prune
  <2> QED
    BY <1>4, <2>1, <2>2
<1>5. CASE Owner
  BY <1>1, <1>5, LoopStepLate, RunStepLate DEF Owner, LoopStep
<1>6. ASSUME NEW l \in Loops, CadenceDue(l) \/ Delete(l)
      PROVE  LateStays(q)
  BY <1>1, <1>6, LoopStepLate DEF CadenceDue, Delete, LoopStep
<1>7. CASE \/ Send \/ Receive \/ Discard \/ LosePoll \/ Terminate \/ Stopped \/ Kill \/ Start
           \/ ServerRestarts \/ SweepReads \/ UNCHANGED sysVars
  BY <1>2, <1>7 DEF Send, Receive, Discard, LosePoll, Terminate, Stopped, Kill, Start,
     ServerRestarts, SweepReads, sysVars
<1>8. ASSUME NEW r \in Runs, Execute(r) \/ TimesOut(r) \/ Acknowledge(r) \/ GoesSilent(r)
      PROVE  LateStays(q)
  BY <1>2, <1>8 DEF Execute, Spawn, SkipSpawn, Exit, TimesOut, Persist, Acknowledge, GoesSilent
<1> QED
  BY <1>1, <1>3, <1>4, <1>5, <1>6, <1>7, <1>8, ReportLate DEF SystemNext, DaemonNext

\* A step that is still for the daemon and makes nobody suspect.
LEMMA StillCustody ==
  ASSUME DaemonInv, Custody, RowsStay, DaemonStill, Suspected' \subseteq Suspected,
         silent' \cup swept' \subseteq silent \cup swept,
         \A q \in Runs : lease'[q].state = "reconciliation-only"
                           => lease[q].state = "reconciliation-only" \/ ~Mentioned(q),
         \A p \in Requests : poll'[p].at \in Early
                               => poll[p].at \in Early \/ poll[p].delivery = NoRun
  PROVE  Custody'
<1> USE DEF DaemonStill
<1>1. \A q \in Runs : Mentioned(q)' <=> Mentioned(q)
  BY DEF Mentioned
<1>2. SuspectsAreMinted'
  BY MintedStay DEF DaemonInv, Custody, SuspectsAreMinted
<1>3. DeliveryIsTrusted'
  BY DEF Custody, DeliveryIsTrusted, Requests
<1>4. CurrentNames' /\ AbandonedNames'
  BY <1>1, SuspectsAreRuns DEF DaemonInv, Custody, CurrentNames, AbandonedNames, At, Requests
<1>5. DisownedAreGone'
  BY <1>1 DEF Custody, DisownedAreGone
<1>6. PollsClaimOnce'
  BY DEF Custody, PollsClaimOnce
<1> QED
  BY <1>2, <1>3, <1>4, <1>5, <1>6 DEF Custody

\* The steps of a poll on the server that claim nothing: only Release disowns runs,
\* and those are named by no request.
LEMMA ServeEarly ==
  ASSUME DaemonTypeOK, NEW p \in Requests, NEW q \in Requests,
         \/ Heartbeat(p) \/ Release(p) \/ Advance(p) \/ Respond(p) \/ PollAgain(p),
         poll'[q].at \in Early
  PROVE  poll[q].at \in Early \/ poll[q].delivery = NoRun
<1>1. poll \in [Requests -> PollRow] /\ poll[p] \in PollRow
  BY DEF DaemonTypeOK
<1>2. CASE q # p
  BY <1>1, <1>2 DEF Heartbeat, Release, ReadDue, Advance, ToStep, Respond, PollAgain
<1>3. CASE ~Respond(p) /\ q = p
  BY <1>3 DEF Heartbeat, Release, Advance, PollAgain, At, Early
<1>4. CASE Respond(p) /\ q = p
  <2> DEFINE S == {r \in poll[p].snapshot : run[r].phase = "running" /\ run[r].cancel}
  <2>1. poll' = [poll EXCEPT ![p] = [poll[p] EXCEPT !.at = "answered", !.cancels = S]]
    BY <1>1, <1>4 DEF Respond
  <2>2. [poll[p] EXCEPT !.at = "answered", !.cancels = S].at = "answered"
    BY <1>1 DEF PollRow
  <2> HIDE DEF S
  <2>3. poll'[p].at = "answered"
    BY <1>1, <2>1, <2>2
  <2> QED
    BY <1>4, <2>3 DEF Early
<1> QED
  BY <1>2, <1>3, <1>4

LEMMA ReleaseCustody ==
  ASSUME DaemonInv, Custody, NEW p \in Requests, Release(p), NEW q \in Runs
  PROVE  /\ lease'[q].state \in Late => q \in Suspected
         /\ lease'[q].state = "reconciliation-only"
              => lease[q].state = "reconciliation-only" \/ ~Mentioned(q)
<1>1. \/ lease'[q] = lease[q]
      \/ lease[q].state = "terminal-grace" /\ q \notin poll[p].snapshot
  BY DEF Release, ReleaseAbsentReconciliations, Grace
<1>2. ASSUME lease[q].state = "terminal-grace", q \notin poll[p].snapshot
      PROVE  q \in Suspected /\ ~Mentioned(q)
  <2>1. q \in Suspected
    BY <1>2 DEF Suspected, Late
  <2>2. ~At(p, "idle")
    BY DEF Release, At
  <2> QED
    BY <1>2, <2>1, <2>2 DEF Custody, CurrentNames, AbandonedNames, Requests
<1>3. lease[q].state \in Late => q \in Suspected
  BY DEF Suspected
<1> QED
  BY <1>1, <1>2, <1>3

LEMMA ServeCustody ==
  ASSUME DaemonInv, Custody, RowsStay, [SystemNext]_sysVars, NEW p \in Requests,
         \/ Heartbeat(p) \/ Release(p) \/ Advance(p) \/ Respond(p) \/ PollAgain(p)
  PROVE  Custody'
<1>1. DaemonStill /\ silent' \subseteq silent /\ UNCHANGED <<swept, faults>>
  BY ServeStill DEF DaemonInv
<1>2. \A q \in Requests :
        poll'[q].at \in Early => poll[q].at \in Early \/ poll[q].delivery = NoRun
  BY ServeEarly DEF DaemonInv
<1>3. ASSUME NEW q \in Runs
      PROVE  /\ lease'[q].state \in Late => q \in Suspected
             /\ lease'[q].state = "reconciliation-only"
                  => lease[q].state = "reconciliation-only" \/ ~Mentioned(q)
  <2>1. CASE Release(p)
    BY <2>1, ReleaseCustody
  <2>2. CASE ~Release(p)
    <3>1. LateStays(q)
      <4>1. poll[p].due \subseteq Loops /\ TypeInv
        BY DEF DaemonInv, DaemonTypeOK, PollRow, StoreInv
      <4>2. CASE UNCHANGED vars
        BY <4>2 DEF LateStays, vars
      <4>3. CASE Advance(p)
        BY <4>1, <4>2, <4>3, LoopStepLate DEF Advance, LoopStep
      <4> QED
        BY <2>2, <4>2, <4>3 DEF Heartbeat, Respond, PollAgain
    <3> QED
      BY <3>1 DEF LateStays, Suspected, Late
  <2> QED
    BY <2>1, <2>2
<1>4. Suspected' \subseteq Suspected
  BY <1>1, <1>3 DEF Suspected
<1> QED
  BY <1>1, <1>2, <1>3, <1>4, StillCustody

\* Everything else that moves neither daemon nor polls: reports, the owner, the clock,
\* and the sweep, which doubts only what no answer is about to bring.
LEMMA QuietCustody ==
  ASSUME DaemonInv, Custody, RowsStay, [SystemNext]_sysVars,
         UNCHANGED <<daemon, held, aborted, agent, outbox, poll>>,
         silent' \cup swept' \subseteq silent \cup swept,
         \A q \in Runs : \/ LateStays(q)
                         \/ q \in silent \cup swept /\ lease'[q].state = "terminal-grace"
  PROVE  Custody'
<1>1. DaemonStill
  BY DEF DaemonStill, DaemonInv, DaemonTypeOK
<1>2. Suspected' \subseteq Suspected
  BY DEF LateStays, Suspected
<1>3. \A q \in Runs :
        lease'[q].state = "reconciliation-only" => lease[q].state = "reconciliation-only"
  BY DEF LateStays, Late
<1>4. \A p \in Requests : poll'[p].at = poll[p].at
  OBVIOUS
<1> QED
  BY <1>1, <1>2, <1>3, <1>4, StillCustody

LEMMA SilentCustody ==
  ASSUME DaemonInv, Custody, NEW r \in Runs, GoesSilent(r)
  PROVE  Custody'
<1>1. /\ run[r].phase = "running" /\ At("abandoned", "idle")
      /\ poll["current"].delivery # r /\ silent' = silent \cup {r}
      /\ UNCHANGED <<vars, daemon, held, aborted, agent, outbox, poll, swept, faults>>
  BY DEF GoesSilent
<1>2. Suspected' = Suspected \cup {r}
  BY <1>1 DEF Suspected, vars
<1>3. r \in Minted /\ Minted' = Minted
  BY <1>1 DEF DaemonInv, StoreInv, Authority, AuthorityMatchesPhase, Minted, vars
<1>4. SuspectsAreMinted' /\ DeliveryIsTrusted'
  BY <1>1, <1>2, <1>3 DEF Custody, SuspectsAreMinted, DeliveryIsTrusted
<1>5. CurrentNames' /\ AbandonedNames' /\ DisownedAreGone' /\ PollsClaimOnce'
  BY <1>1 DEF Custody, CurrentNames, AbandonedNames, DisownedAreGone, PollsClaimOnce,
     Mentioned, At, vars
<1> QED
  BY <1>4, <1>5 DEF Custody

\* A run that is claimed was not claimed before, so nobody doubts it.
LEMMA ClaimCustody ==
  ASSUME DaemonInv, Custody, RowsStay, NEW p \in Requests, Claim(p)
  PROVE  Custody'
<1>1. /\ At(p, "claim") /\ poll \in [Requests -> PollRow]
      /\ UNCHANGED <<daemon, held, aborted, agent, outbox, silent, swept, faults>>
  BY DEF Claim, DaemonInv, DaemonTypeOK
<1>2. PICK d \in Runs \cup {NoRun} :
        /\ \A q \in Requests : /\ q # p => poll'[q] = poll[q]
                               /\ poll'[q].snapshot = poll[q].snapshot
                               /\ poll'[q].at = "idle" <=> poll[q].at = "idle"
        /\ poll'[p].at = "claimed" /\ poll'[p].delivery = d
        /\ d = NoRun \/ d \notin Minted
        /\ \A q \in Runs : LateStays(q)
  <2>1. ASSUME NEW r \in Runs, ClaimReadyRun(r, poll[p].snapshot),
               poll' = [poll EXCEPT ![p].at = "claimed", ![p].delivery = r]
        PROVE  /\ \A q \in Requests : /\ q # p => poll'[q] = poll[q]
                                      /\ poll'[q].snapshot = poll[q].snapshot
                                      /\ poll'[q].at = "idle" <=> poll[q].at = "idle"
               /\ poll'[p].at = "claimed" /\ poll'[p].delivery = r
               /\ r \notin Minted
               /\ \A q \in Runs : LateStays(q)
    <3>1. \A q \in Runs : LateStays(q)
      BY <2>1, RunStepLate DEF DaemonInv, StoreInv
    <3>2. r \notin Minted
      BY <2>1 DEF ClaimReadyRun, Claimable, Minted, DaemonInv, StoreInv, Authority,
         AuthorityMatchesPhase
    <3> DEFINE x == poll[p]
    <3>4. x \in PollRow /\ x.at = "claim"
      BY <1>1 DEF At
    <3> DEFINE row == [x EXCEPT !.at = "claimed", !.delivery = r]
    <3>5. poll' = [poll EXCEPT ![p] = row]
      BY <1>1, <2>1
    <3> HIDE DEF x
    <3>6. row.at = "claimed" /\ row.delivery = r /\ row.snapshot = x.snapshot
      BY <3>4 DEF PollRow
    <3> HIDE DEF row
    <3>7. poll'[p] = row /\ \A q \in Requests : q # p => poll'[q] = poll[q]
      BY <1>1, <3>5
    <3> QED
      BY <3>1, <3>2, <3>4, <3>6, <3>7 DEF x
  <2>2. CASE poll' = [poll EXCEPT ![p].at = "claimed"] /\ UNCHANGED vars
    <3>1. poll[p].delivery = NoRun
      BY <1>1 DEF Custody, PollsClaimOnce, Early, At
    <3> QED
      BY <1>1, <2>2, <3>1 DEF At, LateStays, vars, PollRow
  <2> QED
    BY <2>1, <2>2 DEF Claim
<1>3. Suspected' \subseteq Suspected
  BY <1>1, <1>2 DEF LateStays, Suspected
<1>4. \A q \in Runs : Mentioned(q)' <=> Mentioned(q)
  BY <1>1 DEF Mentioned
<1>5. SuspectsAreMinted'
  BY <1>1, MintedStay DEF DaemonInv, Custody, SuspectsAreMinted
<1>6. DeliveryIsTrusted'
  <2>1. CASE p = "current"
    <3>1. d \notin Suspected
      BY <1>2, SuspectsAreRuns DEF DaemonInv, StoreInv, Custody, SuspectsAreMinted, Suspected,
         Late, Minted
    <3> QED
      BY <1>2, <1>3, <2>1, <3>1 DEF DeliveryIsTrusted
  <2>2. CASE p # "current"
    BY <1>2, <1>3, <2>2 DEF Custody, DeliveryIsTrusted, Requests
  <2> QED
    BY <2>1, <2>2
<1>7. CurrentNames' /\ AbandonedNames'
  BY <1>2, <1>3, <1>4, SuspectsAreRuns
     DEF DaemonInv, Custody, CurrentNames, AbandonedNames, At, Requests
<1>8. DisownedAreGone'
  BY <1>2, <1>4 DEF LateStays, Late, Custody, DisownedAreGone
<1>9. PollsClaimOnce'
  BY <1>2 DEF Custody, PollsClaimOnce, Early
<1> QED
  BY <1>5, <1>6, <1>7, <1>8, <1>9 DEF Custody

\* The daemon lets runs go, and keeps, drops or puts aside polls.
LEMMA LettingGoCustody ==
  ASSUME DaemonInv, Custody, UNCHANGED <<vars, silent>>, swept' \subseteq swept,
         \A r \in Runs : Mentioned(r)' => Mentioned(r),
         \A p \in Requests : poll'[p] \in {NoPoll, poll[p], poll["current"]}
  PROVE  Custody'
<1>1. NoPoll.delivery = NoRun /\ NoPoll.at = "idle"
  BY DEF NoPoll
<1>2. Suspected' \subseteq Suspected /\ Minted' = Minted
  BY DEF Suspected, Minted, vars
<1>3. Suspected \subseteq Runs /\ NoRun \notin Suspected
  BY SuspectsAreRuns DEF DaemonInv
<1>4. SuspectsAreMinted'
  BY <1>2 DEF Custody, SuspectsAreMinted
<1>5. DeliveryIsTrusted'
  BY <1>1, <1>2, <1>3 DEF Custody, DeliveryIsTrusted, Requests
<1>6. CurrentNames' /\ AbandonedNames'
  BY <1>1, <1>2, <1>3 DEF Custody, CurrentNames, AbandonedNames, At, Requests
<1>7. DisownedAreGone'
  BY DEF Custody, DisownedAreGone, vars
<1>8. PollsClaimOnce'
  BY <1>1 DEF Custody, PollsClaimOnce, Requests
<1> QED
  BY <1>4, <1>5, <1>6, <1>7, <1>8 DEF Custody

LEMMA DaemonCustody ==
  ASSUME DaemonInv, Custody,
         \/ \E r \in Runs : Execute(r) \/ TimesOut(r) \/ Acknowledge(r)
         \/ Discard \/ LosePoll \/ Terminate \/ Stopped \/ Kill \/ Start \/ ServerRestarts
  PROVE  Custody'
<1>1. UNCHANGED <<vars, silent>> /\ swept' \subseteq swept
  BY DEF Execute, Spawn, SkipSpawn, Exit, Persist, TimesOut, Acknowledge, Discard, LosePoll,
     Terminate, Stopped, Kill, Start, ServerRestarts
<1>2. /\ poll \in [Requests -> PollRow] /\ held \in [Runs -> Stages]
      /\ outbox \in [Runs -> {"none"} \cup Ended]
  BY DEF DaemonInv, DaemonTypeOK
<1>3. \A r \in Runs : Mentioned(r)' => Mentioned(r)
  <2>1. ASSUME NEW q \in Runs, Execute(q) \/ TimesOut(q) \/ Acknowledge(q)
        PROVE  \A r \in Runs : Mentioned(r)' => Mentioned(r)
    BY <1>2, <2>1 DEF Execute, Spawn, SkipSpawn, Exit, Persist, Executing, TimesOut, Acknowledge,
       Mentioned
  <2>2. CASE Discard \/ LosePoll \/ Terminate \/ Stopped \/ Kill \/ ServerRestarts
    BY <2>2 DEF Discard, LosePoll, Terminate, Stopped, Kill, ServerRestarts, Mentioned
  <2>3. CASE Start
    BY <2>3 DEF Start, Restored, Mentioned
  <2> QED
    BY <2>1, <2>2, <2>3
<1>4. \A p \in Requests : poll'[p] \in {NoPoll, poll[p], poll["current"]}
  <2>1. CASE HangUp
    BY <2>1 DEF HangUp, Requests
  <2>2. CASE ServerRestarts
    BY <2>2 DEF ServerRestarts
  <2>3. CASE Discard \/ (LosePoll /\ ~HangUp)
    BY <1>2, <2>3 DEF Discard, LosePoll
  <2>4. CASE poll' = poll
    BY <2>4
  <2> QED
    BY <2>1, <2>2, <2>3, <2>4 DEF Execute, Spawn, SkipSpawn, Exit, Persist, TimesOut, Acknowledge,
       Terminate, Stopped, Kill, Start
<1> QED
  BY <1>1, <1>3, <1>4, LettingGoCustody

\* A poll names all there is to name.
LEMMA SendCustody ==
  ASSUME DaemonInv, Custody, Send
  PROVE  Custody'
<1> DEFINE row == [NoPoll EXCEPT !.at = "sent", !.snapshot = Held]
<1>1. /\ daemon = "up" /\ poll' = [poll EXCEPT !["current"] = row]
      /\ UNCHANGED <<vars, daemon, held, aborted, agent, outbox, silent, swept, faults>>
  BY DEF Send, Snapshot
<1>2. row.at = "sent" /\ row.snapshot = Held /\ row.delivery = NoRun
  BY DEF NoPoll
<1> HIDE DEF row
<1>3. poll'["current"] = row /\ poll'["abandoned"] = poll["abandoned"]
  BY <1>1 DEF DaemonInv, DaemonTypeOK, Requests
<1>4. Suspected' = Suspected /\ Minted' = Minted
  BY <1>1 DEF Suspected, Minted, vars
<1>5. \A r \in Runs : /\ Mentioned(r)' <=> Mentioned(r)
                      /\ Mentioned(r) => r \in Held
  BY <1>1 DEF Mentioned, Held, DaemonInv, Agents, OutboxIsHeld
<1>6. DeliveryIsTrusted' /\ CurrentNames'
  BY <1>2, <1>3, <1>4, <1>5, SuspectsAreRuns DEF DaemonInv, DeliveryIsTrusted, CurrentNames
<1>7. AbandonedNames'
  BY <1>3, <1>4, <1>5, SuspectsAreRuns DEF DaemonInv, Custody, AbandonedNames, At
<1>8. SuspectsAreMinted' /\ DisownedAreGone'
  BY <1>1, <1>4, <1>5 DEF Custody, SuspectsAreMinted, DisownedAreGone, vars
<1>9. PollsClaimOnce'
  BY <1>2, <1>3 DEF Custody, PollsClaimOnce, Requests
<1> QED
  BY <1>6, <1>7, <1>8, <1>9 DEF Custody

\* A run that arrives is not suspect, so neither the request that was given up nor a
\* disavowal is about it.
LEMMA ReceiveCustody ==
  ASSUME DaemonInv, Custody, Receive
  PROVE  Custody'
<1> DEFINE d == poll["current"].delivery
<1>1. /\ held' = IF d # NoRun /\ CanAccept(d) THEN [held EXCEPT ![d] = "executing"] ELSE held
      /\ poll' = [poll EXCEPT !["current"] = NoPoll]
      /\ UNCHANGED <<vars, daemon, agent, outbox, silent, swept, faults>>
  BY DEF Receive
<1>2. NoPoll.at = "idle" /\ NoPoll.delivery = NoRun
  BY DEF NoPoll
<1>3. poll'["current"] = NoPoll /\ poll'["abandoned"] = poll["abandoned"]
  BY <1>1 DEF DaemonInv, DaemonTypeOK, Requests
<1>4. d \notin Suspected
  BY DEF Custody, DeliveryIsTrusted
<1> HIDE DEF d
<1>5. Suspected' = Suspected /\ Minted' = Minted
  BY <1>1 DEF Suspected, Minted, vars
<1>6. \A r \in Runs : Mentioned(r)' => Mentioned(r) \/ r = d
  BY <1>1 DEF Mentioned, DaemonInv, DaemonTypeOK
<1>7. DeliveryIsTrusted' /\ CurrentNames'
  BY <1>2, <1>3, <1>5, SuspectsAreRuns DEF DaemonInv, DeliveryIsTrusted, CurrentNames, At
<1>8. AbandonedNames'
  BY <1>3, <1>4, <1>5, <1>6, SuspectsAreRuns DEF DaemonInv, Custody, AbandonedNames, At
<1>9. SuspectsAreMinted'
  BY <1>1, <1>5 DEF Custody, SuspectsAreMinted
<1>10. DisownedAreGone'
  <2>1. \A r \in Runs : lease[r].state = "reconciliation-only" => r \in Suspected
    BY DEF Suspected, Late
  <2> QED
    BY <1>1, <1>4, <1>6, <2>1 DEF Custody, DisownedAreGone, vars
<1>11. PollsClaimOnce'
  BY <1>2, <1>3 DEF Custody, PollsClaimOnce, Requests
<1> QED
  BY <1>7, <1>8, <1>9, <1>10, <1>11 DEF Custody

LEMMA InitCustody == DaemonInit => Custody
<1>1. NoPoll.delivery = NoRun /\ NoPoll.at = "idle"
  BY DEF NoPoll
<1>2. NoRun \notin Runs
  BY ConstantsAssumption DEF Runs, NoRun
<1> QED
  BY <1>1, <1>2 DEF DaemonInit, Custody, SuspectsAreMinted, DeliveryIsTrusted, CurrentNames,
     AbandonedNames, DisownedAreGone, PollsClaimOnce, Suspected, Late, Mentioned, At, Requests

LEMMA StepCustody == DaemonInv /\ Custody /\ [SystemNext]_sysVars => Custody'
<1> SUFFICES ASSUME DaemonInv, Custody, [SystemNext]_sysVars PROVE Custody'
  OBVIOUS
<1>1. RowsStay
  BY StepDaemon, StepStays DEF DaemonInv, StoreInv
<1>2. ASSUME NEW q \in Runs, \A p \in Requests : ~Release(p)
      PROVE  LateStays(q) \/ SweepReclaims(q)
  BY <1>2, LateLeases
<1>3. ASSUME \/ \E r \in Runs : Report(r) \/ SweepReclaims(r) \/ GraceElapses(r) \/ Prune(r)
             \/ SweepReads \/ Owner \/ UNCHANGED sysVars
             \/ \E l \in Loops : CadenceDue(l) \/ Delete(l)
      PROVE  Custody'
  <2>1. /\ UNCHANGED <<daemon, held, aborted, agent, outbox, poll>>
        /\ silent' \cup swept' \subseteq silent \cup swept
    BY <1>3 DEF Report, SweepReclaims, GraceElapses, Prune, SweepReads, Owner, CadenceDue,
       Delete, sysVars, dvars
  <2>2. ASSUME NEW p \in Requests, Release(p)
        PROVE  FALSE
    <3> DEFINE L == {l \in Loops : Due(l)}
    <3>1. poll[p] \in PollRow /\ poll[p].at = "heard" /\ poll \in [Requests -> PollRow]
      BY <2>2 DEF Release, At, DaemonInv, DaemonTypeOK
    <3>2. poll' = [poll EXCEPT ![p] = [poll[p] EXCEPT !.at = "released", !.due = L]]
      BY <2>2, <3>1 DEF Release, ReadDue
    <3> HIDE DEF L
    <3>3. [poll[p] EXCEPT !.at = "released", !.due = L].at = "released"
      BY <3>1 DEF PollRow
    <3> QED
      BY <2>1, <3>1, <3>2, <3>3
  <2>3. ASSUME NEW q \in Runs, SweepReclaims(q)
        PROVE  LateStays(q) \/ (q \in silent \cup swept /\ lease'[q].state = "terminal-grace")
    <3>1. CASE ReclaimRun(q)
      BY <2>3, <3>1 DEF SweepReclaims, ReclaimRun, LateStays, DaemonInv, StoreInv, TypeInv, TypeOK
    <3>2. CASE UNCHANGED vars
      BY <3>2 DEF LateStays, vars
    <3> QED
      BY <2>3, <3>1, <3>2 DEF SweepReclaims
  <2>4. \A q \in Runs :
          LateStays(q) \/ (q \in silent \cup swept /\ lease'[q].state = "terminal-grace")
    BY <1>2, <2>2, <2>3
  <2> QED
    BY <1>1, <2>1, <2>4, QuietCustody
<1> QED
  BY <1>1, <1>3, ServeCustody, SilentCustody, ClaimCustody, DaemonCustody, SendCustody,
     ReceiveCustody DEF SystemNext, DaemonNext, Serve

\* A poll that disowns a swept run, because the request does not name it, is right: no
\* agent is at work on it, however old the request, unless it has outlived its daemon.
THEOREM OnlyDeadRunsAreReleased == ASSUME ~Orphans PROVE DaemonSpec => ReleasedRunsAreOver
<1> DEFINE Over == \A r \in Runs : lease[r].state = "terminal-grace"
                     /\ lease'[r].state = "reconciliation-only" => agent[r] # "alive"
<1>1. ASSUME DaemonInv, Custody, [SystemNext]_sysVars
      PROVE  Over
  <2> SUFFICES ASSUME NEW r \in Runs, lease[r].state = "terminal-grace",
                      lease'[r].state = "reconciliation-only"
               PROVE  agent[r] # "alive"
    OBVIOUS
  <2>1. ~LateStays(r)
    BY DEF LateStays, Late
  <2>2. ~SweepReclaims(r)
    BY <1>1, <2>1 DEF SweepReclaims, ReclaimRun, LateStays, DaemonInv, StoreInv, Authority,
       AuthorityMatchesPhase, vars
  <2>3. PICK p \in Requests : Release(p)
    BY <1>1, <2>1, <2>2, LateLeases
  <2>4. ~Mentioned(r)
    BY <1>1, <2>3, ReleaseCustody
  <2> QED
    BY <1>1, <2>4 DEF Mentioned, DaemonInv, Agents, AgentsAreHeld
<1>2. DaemonInv /\ Custody /\ [SystemNext]_sysVars => [Over]_sysVars
  BY <1>1
<1>3. [DaemonNext]_sysVars => [SystemNext]_sysVars
  BY DEF SystemNext
<1> HIDE DEF Over
<1>4. DaemonSpec => [][Over]_sysVars
  BY <1>2, <1>3, InitDaemon, StepDaemon, InitCustody, StepCustody, PTL DEF DaemonSpec
<1> QED
  BY <1>4 DEF ReleasedRunsAreOver, Over

-----------------------------------------------------------------------------
(* The memory of a loop.  Its steps are steps of the system.               *)

LEMMA MemoryStepsSystem == [MemoryNext]_memVars => [SystemNext]_sysVars
<1> SUFFICES ASSUME [MemoryNext]_memVars PROVE [SystemNext]_sysVars
  OBVIOUS
<1>1. ASSUME NEW p \in Requests, DeliverMemory(p)
      PROVE  DaemonNext
  BY <1>1 DEF DeliverMemory, DaemonNext, Serve
<1>2. ASSUME NEW r \in Runs, PrepareMemory(r) \/ ReportMemory(r)
      PROVE  DaemonNext
  BY <1>2 DEF PrepareMemory, ReportMemory, DaemonNext, Execute
<1>3. ASSUME NEW r \in Runs, ExitWithMemory(r)
      PROVE  SystemNext
  BY <1>3 DEF ExitWithMemory, SystemNext, DaemonNext, Execute
<1>4. ASSUME NEW r \in Runs, WriteFile(r)
      PROVE  UNCHANGED sysVars
  BY <1>4 DEF WriteFile
<1>5. ASSUME NEW l \in Loops, OwnerWrites(l)
      PROVE  UNCHANGED sysVars
  BY <1>5 DEF OwnerWrites
<1>6. ASSUME OtherSteps
      PROVE  DaemonNext
  <2>1. ASSUME NEW p \in Requests, OtherServe(p) PROVE DaemonNext
    BY <2>1 DEF OtherServe, DaemonNext, Serve
  <2>2. ASSUME NEW r \in Runs, OtherRun(r) PROVE DaemonNext
    BY <2>2 DEF OtherRun, DaemonNext, Execute
  <2>3. ASSUME NEW l \in Loops, CadenceDue(l) \/ Delete(l) PROVE DaemonNext
    BY <2>3 DEF DaemonNext
  <2>4. CASE \/ Send \/ Receive \/ Discard \/ LosePoll \/ Terminate \/ Stopped \/ Kill
             \/ Start \/ ServerRestarts \/ SweepReads \/ Owner
    BY <2>4 DEF DaemonNext
  <2> QED
    BY <1>6, <2>1, <2>2, <2>3, <2>4 DEF OtherSteps
<1> QED
  BY <1>1, <1>2, <1>3, <1>4, <1>5, <1>6 DEF MemoryNext, SystemNext, memVars

\* So is every step of Daemon itself, if agents may fail.
LEMMA TimeoutsAreFailures ==
  ASSUME "failure" \in Results, NEW r \in Runs, TimesOut(r)
  PROVE  Exit(r)
  BY DEF TimesOut, Exit, EndsWith

\* What LoopMemory adds to the system is texts alone: it implements Daemon as soon as an
\* agent may fail, so what is proved of Daemon holds of it.
THEOREM MemoryImplementsDaemon ==
  ASSUME "failure" \in Results PROVE MemorySpec => DaemonSpec
<1>1. [SystemNext]_sysVars => [DaemonNext]_sysVars
  BY TimeoutsAreFailures DEF SystemNext, DaemonNext, Execute
<1>2. MemoryInit => DaemonInit
  BY DEF MemoryInit
<1> QED
  BY <1>1, <1>2, MemoryStepsSystem, PTL DEF MemorySpec, DaemonSpec

SystemInv == DaemonInv /\ Evidence /\ Custody

LEMMA StepSystem == SystemInv /\ [MemoryNext]_memVars => SystemInv'
  BY MemoryStepsSystem, StepDaemon, StepOfEvidence, StepCustody DEF SystemInv

LEMMA InitSystem == MemoryInit => SystemInv
  BY InitDaemon, InitOfEvidence, InitCustody DEF MemoryInit, SystemInv

-----------------------------------------------------------------------------
(* The texts.                                                              *)

LEMMA TextTypes ==
  /\ NoText \in Text
  /\ \A n \in Nat : OwnersText(n) \in Text
  /\ \A r \in Runs, left \in {"whole", "killed", "stopped"} : RunsText(r, left) \in Text
  BY ConstantsAssumption DEF NoText, OwnersText, RunsText, Text, Runs, NoRun

\* What a report carries is the text of its own run.
LEMMA CollectedText ==
  ASSUME NEW r \in Runs, NEW discard \in BOOLEAN
  PROVE  /\ CollectMemory(r, discard) \in Text
         /\ \/ CollectMemory(r, discard) = NoText
            \/ CollectMemory(r, discard).by = r /\ CollectMemory(r, discard).n = 0
<1>1. \/ CollectMemory(r, discard) = NoText
      \/ \E left \in {"whole", "killed", "stopped"} : CollectMemory(r, discard) = RunsText(r, left)
  BY DEF CollectMemory
<1>2. \A left : RunsText(r, left).by = r /\ RunsText(r, left).n = 0
  BY DEF RunsText
<1> QED
  BY <1>1, <1>2, TextTypes

\* The loop of a run that was claimed is a loop.
LEMMA LoopOfMinted ==
  ASSUME StoreInv, NEW r \in Minted
  PROVE  r \in Runs /\ run[r].loop \in Loops
  BY DEF StoreInv, TypeInv, RunsHaveLoops, Authority, AuthorityMatchesPhase, Minted

\* A run that is claimed.
LEMMA DeliveredRun ==
  ASSUME SystemInv, NEW p \in Requests, DeliverMemory(p)
  PROVE  \/ UNCHANGED <<vars, mvars>>
         \/ \E r \in Runs : /\ ClaimReadyRun(r, poll[p].snapshot) /\ r \notin Minted
                            /\ run[r].loop \in Loops
                            /\ base' = [base EXCEPT ![r] = MemoryOf(r)]
                            /\ editedAt' = [editedAt EXCEPT ![r] = edits]
                            /\ UNCHANGED <<memory, file, sent, blamed, edits>>
<1>1. /\ poll \in [Requests -> PollRow] /\ At(p, "claim") /\ Claim(p)
  BY DEF DeliverMemory, Claim, SystemInv, DaemonInv, DaemonTypeOK
<1>2. ASSUME NEW r \in Runs, ClaimReadyRun(r, poll[p].snapshot),
             poll' = [poll EXCEPT ![p].at = "claimed", ![p].delivery = r]
      PROVE  poll'[p].delivery = r /\ r # NoRun /\ r \notin Minted /\ run[r].loop \in Loops
  <2>1. r \notin Minted /\ run[r].loop \in Loops
    BY <1>2 DEF ClaimReadyRun, Claimable, Minted, SystemInv, DaemonInv, StoreInv, Authority,
       AuthorityMatchesPhase, TypeInv, RunsHaveLoops
  <2> DEFINE x == poll[p]
             row == [x EXCEPT !.at = "claimed", !.delivery = r]
  <2>2. x \in PollRow /\ poll' = [poll EXCEPT ![p] = row]
    BY <1>1, <1>2
  <2> HIDE DEF x
  <2>3. row.delivery = r
    BY <2>2 DEF PollRow
  <2> HIDE DEF row
  <2> QED
    BY <1>1, <2>1, <2>2, <2>3, ConstantsAssumption DEF Runs, NoRun
<1>3. CASE poll' = [poll EXCEPT ![p].at = "claimed"] /\ UNCHANGED vars
  <2>1. poll[p].delivery = NoRun
    BY <1>1 DEF SystemInv, Custody, PollsClaimOnce, Early, At
  <2>2. poll'[p].delivery = NoRun
    BY <1>1, <1>3, <2>1 DEF PollRow
  <2> QED
    BY <1>3, <2>2 DEF DeliverMemory
<1> QED
  BY <1>1, <1>2, <1>3 DEF DeliverMemory, Claim

\* Only a claim makes a run hold up its loop.
LEMMA LoopStepFences ==
  ASSUME TypeInv, NEW l \in Loops, LoopStep(l), NEW q \in Runs, Fences(q)'
  PROVE  Fences(q)
<1>1. CASE TryDeleteLoop(l) \/ ForceDeleteLoop(l)
  <2>1. \E states : RetireLeases({l}, states)
    BY <1>1 DEF TryDeleteLoop, ForceDeleteLoop
  <2> QED
    BY <2>1 DEF RetireLeases, Fences, Grace
<1>2. CASE ~TryDeleteLoop(l) /\ ~ForceDeleteLoop(l)
  BY <1>2, LoopStepQuiet DEF Fences, Grace
<1> QED
  BY <1>1, <1>2

LEMMA RunStepFences ==
  ASSUME StoreInv, NEW r \in Runs, NEW q \in Runs, Fences(q)',
         RequestRunCancel(r) \/ RetireElapsed(r) \/ LeaseElapses(r) \/ ReclaimRun(r)
  PROVE  Fences(q)
<1>1. lease \in [Runs -> LeaseRow]
  BY DEF StoreInv, TypeInv, TypeOK
<1>2. CASE RequestRunCancel(r)
  BY <1>2 DEF RequestRunCancel, Fences, Grace
<1>3. CASE RetireElapsed(r)
  BY <1>1, <1>3 DEF RetireElapsed, Fences, Grace
<1>4. CASE LeaseElapses(r)
  <2>1. /\ lease' = [lease EXCEPT ![r] = [lease[r] EXCEPT !.elapsed = TRUE]]
        /\ [lease[r] EXCEPT !.elapsed = TRUE].state = lease[r].state
        /\ [lease[r] EXCEPT !.elapsed = TRUE].elapsed
    BY <1>1, <1>4 DEF LeaseElapses, LeaseRow
  <2> QED
    BY <1>1, <2>1 DEF Fences, Grace
<1>5. CASE ReclaimRun(r)
  <2>1. lease[r].state = "active" /\ \A p \in Runs \ {r} : lease'[p] = lease[p]
    BY <1>1, <1>5 DEF ReclaimRun, StoreInv, Authority, AuthorityMatchesPhase
  <2> QED
    BY <2>1 DEF Fences, Grace
<1> QED
  BY <1>2, <1>3, <1>4, <1>5

LEMMA OtherFences ==
  ASSUME SystemInv, OtherSteps, NEW q \in Runs, Fences(q)'
  PROVE  Fences(q)
<1>1. StoreInv /\ TypeInv
  BY DEF SystemInv, DaemonInv, StoreInv
<1>2. ASSUME UNCHANGED vars
      PROVE  Fences(q)
  BY <1>2 DEF Fences, Grace, vars
<1>3. ASSUME NEW p \in Requests, OtherServe(p)
      PROVE  Fences(q)
  <2>1. poll[p].due \subseteq Loops
    BY DEF SystemInv, DaemonInv, DaemonTypeOK, PollRow
  <2>2. CASE Advance(p)
    BY <1>1, <1>2, <2>1, <2>2, LoopStepFences DEF Advance, LoopStep
  <2>3. CASE Release(p)
    <3>1. [lease[q] EXCEPT !.state = "reconciliation-only"].state = "reconciliation-only"
      BY <1>1 DEF TypeInv, TypeOK, LeaseRow
    <3> QED
      BY <2>3, <3>1 DEF Release, ReleaseAbsentReconciliations, Fences, Grace
  <2> QED
    BY <1>2, <1>3, <2>2, <2>3 DEF OtherServe, Heartbeat, Respond, PollAgain
<1>4. ASSUME NEW r \in Runs, OtherRun(r)
      PROVE  Fences(q)
  <2>1. CASE UNCHANGED vars
    BY <1>2, <2>1
  <2> QED
    BY <1>1, <1>4, <2>1, RunStepFences DEF OtherRun, SkipSpawn, Persist, Acknowledge, GoesSilent,
       SweepReclaims, GraceElapses, Prune
<1>5. ASSUME Owner
      PROVE  Fences(q)
  BY <1>1, <1>5, LoopStepFences, RunStepFences DEF Owner, LoopStep
<1>6. ASSUME NEW l \in Loops, CadenceDue(l) \/ Delete(l)
      PROVE  Fences(q)
  BY <1>1, <1>6, LoopStepFences DEF CadenceDue, Delete, LoopStep
<1>7. ASSUME \/ Send \/ Receive \/ Discard \/ LosePoll \/ Terminate \/ Stopped \/ Kill \/ Start
             \/ ServerRestarts \/ SweepReads
      PROVE  Fences(q)
  BY <1>2, <1>7 DEF Send, Receive, Discard, LosePoll, Terminate, Stopped, Kill, Start,
     ServerRestarts, SweepReads
<1> QED
  BY <1>3, <1>4, <1>5, <1>6, <1>7 DEF OtherSteps

\* A report that is accepted is of a run that holds up its loop: one that was disowned
\* has no report any more.
LEMMA AcceptedReports ==
  ASSUME SystemInv, NEW r \in Runs, Report(r)
  PROVE  /\ Consume(r) /\ r \in Minted
         /\ receipt'[r].status = 200 => Fences(r)
<1>1. Consume(r)
  BY DEF Report, FinalizeRunningRun, ReconcileReclaimedRun, AcknowledgeRetiredReport
<1>2. r \in Minted /\ Mentioned(r)
  BY DEF Report, Mentioned, SystemInv, DaemonInv, Polling, KnownRunsAreMinted
<1>3. ASSUME AcknowledgeRetiredReport(r, r)
      PROVE  receipt'[r].status = 410
  BY <1>3, DaemonAssumption DEF AcknowledgeRetiredReport, Answer, Runs, SystemInv, DaemonInv,
     StoreInv, TypeInv, TypeOK
<1>4. ASSUME NEW outcome, ReconcileReclaimedRun(r, r, outcome)
      PROVE  Fences(r)
  BY <1>2, <1>4 DEF ReconcileReclaimedRun, Reconcilable, Fences, Grace, SystemInv, Custody,
     DisownedAreGone
<1>5. ASSUME NEW outcome, FinalizeRunningRun(r, r, outcome)
      PROVE  Fences(r)
  BY <1>5 DEF FinalizeRunningRun, Fences
<1> QED
  BY <1>1, <1>2, <1>3, <1>4, <1>5 DEF Report

\* The owner's writes are counted, and every text is as old as its number says.
EditsAreCounted ==
  /\ \A l \in Loops : memory[l].n <= edits
  /\ \A r \in Runs : base[r].n <= editedAt[r] /\ editedAt[r] <= edits

\* A report carries a text of its own run.
TextsAreOwn == \A r \in Runs : sent[r] = NoText \/ (sent[r].by = r /\ sent[r].n = 0)

\* While a run holds up its loop, only the owner changes the memory it started from.
BaseStands == \A r \in Runs : Fences(r) /\ editedAt[r] = edits => MemoryOf(r) = base[r]

BlamedRunsAreMinted == blamed \subseteq Minted

MemoryInv == /\ MemoryTypeOK /\ EditsAreCounted /\ TextsAreOwn /\ BaseStands
             /\ BlamedRunsAreMinted /\ OnlyTheOwnerIsBlamed

\* A step that leaves the texts of the server alone.
LEMMA TextsStay ==
  ASSUME SystemInv, MemoryInv, RowsStay, UNCHANGED <<memory, base, blamed, edits, editedAt>>,
         \A q \in Runs : Fences(q)' => Fences(q),
         file' \in [Runs -> Files], sent' \in [Runs -> Text], TextsAreOwn'
  PROVE  MemoryInv'
<1>1. MemoryTypeOK'
  BY DEF MemoryInv, MemoryTypeOK
<1>2. EditsAreCounted' /\ OnlyTheOwnerIsBlamed'
  BY DEF MemoryInv, EditsAreCounted, OnlyTheOwnerIsBlamed
<1>3. BaseStands'
  <2>1. \A q \in Runs : Fences(q) => q \in Minted
    BY DEF Fences, Grace, Minted
  <2> QED
    BY <2>1, MintedStay DEF SystemInv, DaemonInv, MemoryInv, BaseStands, MemoryOf
<1>4. BlamedRunsAreMinted'
  BY MintedStay DEF SystemInv, DaemonInv, MemoryInv, BlamedRunsAreMinted
<1> QED
  BY <1>1, <1>2, <1>3, <1>4 DEF MemoryInv

LEMMA DeliverMemoryStep ==
  ASSUME SystemInv, MemoryInv, RowsStay, NEW p \in Requests, DeliverMemory(p)
  PROVE  MemoryInv'
<1>1. CASE UNCHANGED <<vars, mvars>>
  BY <1>1, TextsStay DEF MemoryInv, MemoryTypeOK, TextsAreOwn, Fences, Grace, vars, mvars
<1>2. ASSUME NEW r \in Runs, ClaimReadyRun(r, poll[p].snapshot), r \notin Minted,
             run[r].loop \in Loops, base' = [base EXCEPT ![r] = MemoryOf(r)],
             editedAt' = [editedAt EXCEPT ![r] = edits],
             UNCHANGED <<memory, file, sent, blamed, edits>>
      PROVE  MemoryInv'
  <2>1. MemoryTypeOK'
    BY <1>2 DEF MemoryInv, MemoryTypeOK, MemoryOf
  <2>2. EditsAreCounted'
    BY <1>2 DEF MemoryInv, MemoryTypeOK, EditsAreCounted, MemoryOf
  <2>3. TextsAreOwn'
    BY <1>2 DEF MemoryInv, TextsAreOwn
  <2>4. BaseStands'
    <3> SUFFICES ASSUME NEW q \in Runs, Fences(q)', editedAt'[q] = edits'
                 PROVE  memory'[run'[q].loop] = base'[q]
      BY DEF BaseStands, MemoryOf
    <3>1. CASE q = r
      <4>1. run'[r].loop = run[r].loop
        BY <1>2 DEF ClaimReadyRun, Claimable, RowsStay
      <4>2. base'[r] = memory[run[r].loop]
        BY <1>2 DEF MemoryInv, MemoryTypeOK, MemoryOf
      <4> QED
        BY <1>2, <3>1, <4>1, <4>2
    <3>2. CASE q # r
      <4>1. lease'[q] = lease[q]
        BY <1>2, <3>2 DEF ClaimReadyRun
      <4>2. Fences(q) /\ q \in Minted
        BY <4>1 DEF Fences, Grace, Minted
      <4>3. run'[q].loop = run[q].loop
        BY <4>2, MintedStay DEF SystemInv, DaemonInv
      <4> QED
        BY <1>2, <3>2, <4>2, <4>3 DEF MemoryInv, MemoryTypeOK, BaseStands, MemoryOf
    <3> QED
      BY <3>1, <3>2
  <2>5. BlamedRunsAreMinted'
    BY <1>2, MintedStay DEF SystemInv, DaemonInv, MemoryInv, BlamedRunsAreMinted
  <2>6. OnlyTheOwnerIsBlamed'
    BY <1>2 DEF MemoryInv, MemoryTypeOK, BlamedRunsAreMinted, OnlyTheOwnerIsBlamed
  <2> QED
    BY <2>1, <2>2, <2>3, <2>4, <2>5, <2>6 DEF MemoryInv
<1> QED
  BY <1>1, <1>2, DeliveredRun

LEMMA AgentMemoryStep ==
  ASSUME SystemInv, MemoryInv, RowsStay, NEW r \in Runs,
         PrepareMemory(r) \/ WriteFile(r) \/ ExitWithMemory(r)
  PROVE  MemoryInv'
<1>1. /\ UNCHANGED <<vars, memory, base, blamed, edits, editedAt>>
      /\ file' \in [Runs -> Files]
  BY DEF PrepareMemory, Spawn, WriteFile, ExitWithMemory, TimesOut, Exit, sysVars, MemoryInv,
     MemoryTypeOK, Files
<1>2. \A q \in Runs : Fences(q)' => Fences(q)
  BY <1>1 DEF Fences, Grace, vars
<1>3. sent' \in [Runs -> Text] /\ TextsAreOwn'
  <2>1. CASE sent' = sent
    BY <2>1 DEF MemoryInv, MemoryTypeOK, TextsAreOwn
  <2>2. ASSUME NEW discard \in BOOLEAN, sent' = [sent EXCEPT ![r] = CollectMemory(r, discard)]
        PROVE  sent' \in [Runs -> Text] /\ TextsAreOwn'
    BY <2>2, CollectedText DEF MemoryInv, MemoryTypeOK, TextsAreOwn
  <2>3. \A timedOut \in BOOLEAN : KilledMidEdit(r, timedOut) \in BOOLEAN
    BY DEF KilledMidEdit
  <2> QED
    BY <2>1, <2>2, <2>3 DEF PrepareMemory, WriteFile, ExitWithMemory
<1> QED
  BY <1>1, <1>2, <1>3, TextsStay

\* A report writes the memory of the loop it holds up, or is told that it has changed.
LEMMA ReportMemoryStep ==
  ASSUME SystemInv, MemoryInv, RowsStay, NEW r \in Runs, ReportMemory(r)
  PROVE  MemoryInv'
<1>1. /\ Report(r) /\ UNCHANGED <<base, file, sent, edits, editedAt>>
      /\ \/ memory' = memory
         \/ Fences(r) /\ Applies(r) /\ memory' = [memory EXCEPT ![run[r].loop] = sent[r]]
      /\ blamed' = blamed \/ (Fences(r) /\ Discards(r) /\ blamed' = blamed \cup {r})
  BY AcceptedReports DEF ReportMemory
<1>2. /\ Consume(r) /\ r \in Minted /\ run[r].loop \in Loops
  BY <1>1, AcceptedReports, LoopOfMinted DEF SystemInv, DaemonInv
<1>3. \A q \in Runs : Fences(q)' => Fences(q) /\ q # r
  BY <1>2 DEF Consume, Fences, Grace, SystemInv, DaemonInv, StoreInv, TypeInv, TypeOK
<1>4. MemoryTypeOK'
  BY <1>1, <1>2 DEF MemoryInv, MemoryTypeOK
<1>5. EditsAreCounted'
  <2>1. sent[r].n <= edits
    BY DEF MemoryInv, MemoryTypeOK, TextsAreOwn, NoText
  <2> QED
    BY <1>1, <1>2, <2>1 DEF MemoryInv, MemoryTypeOK, EditsAreCounted
<1>6. TextsAreOwn'
  BY <1>1 DEF MemoryInv, TextsAreOwn
<1>7. BaseStands'
  <2> SUFFICES ASSUME NEW q \in Runs, Fences(q)', editedAt'[q] = edits'
               PROVE  memory'[run'[q].loop] = base'[q]
    BY DEF BaseStands, MemoryOf
  <2>1. Fences(q) /\ q # r /\ q \in Minted
    BY <1>3 DEF Fences, Grace, Minted
  <2>2. run'[q].loop = run[q].loop
    BY <2>1, MintedStay DEF SystemInv, DaemonInv
  <2>3. Fences(r) => run[q].loop # run[r].loop
    BY <2>1 DEF SystemInv, DaemonInv, StoreInv, Authority, SingleAuthority
  <2>4. memory'[run[q].loop] = memory[run[q].loop]
    BY <1>1, <1>2, <2>1, <2>3, LoopOfMinted DEF SystemInv, DaemonInv, MemoryInv, MemoryTypeOK
  <2> QED
    BY <1>1, <2>1, <2>2, <2>4 DEF MemoryInv, BaseStands, MemoryOf
<1>8. BlamedRunsAreMinted'
  BY <1>1, <1>2, MintedStay DEF SystemInv, DaemonInv, MemoryInv, BlamedRunsAreMinted
<1>9. OnlyTheOwnerIsBlamed'
  <2>1. Fences(r) /\ Discards(r) => editedAt[r] < edits
    BY DEF Discards, Applies, MemoryInv, MemoryTypeOK, BaseStands, EditsAreCounted
  <2> QED
    BY <1>1, <2>1 DEF MemoryInv, OnlyTheOwnerIsBlamed
<1> QED
  BY <1>4, <1>5, <1>6, <1>7, <1>8, <1>9 DEF MemoryInv

LEMMA OwnerWritesStep ==
  ASSUME SystemInv, MemoryInv, RowsStay, NEW l \in Loops, OwnerWrites(l)
  PROVE  MemoryInv'
<1>1. /\ edits < MaxEdits /\ edits' = edits + 1 /\ edits \in Nat
      /\ memory' = [memory EXCEPT ![l] = OwnersText(edits + 1)]
      /\ UNCHANGED <<vars, base, file, sent, blamed, editedAt>>
  BY MemoryAssumption DEF OwnerWrites, sysVars, MemoryInv, MemoryTypeOK
<1>2. OwnersText(edits + 1) \in Text /\ OwnersText(edits + 1).n = edits + 1
  BY <1>1, TextTypes DEF OwnersText
<1>3. MemoryTypeOK'
  BY <1>1, <1>2, MemoryAssumption DEF MemoryInv, MemoryTypeOK
<1>4. EditsAreCounted'
  BY <1>1, <1>2 DEF MemoryInv, MemoryTypeOK, EditsAreCounted, Text
<1>5. BaseStands'
  BY <1>1 DEF MemoryInv, MemoryTypeOK, EditsAreCounted, BaseStands
<1>6. TextsAreOwn' /\ BlamedRunsAreMinted' /\ OnlyTheOwnerIsBlamed'
  BY <1>1 DEF MemoryInv, MemoryTypeOK, TextsAreOwn, BlamedRunsAreMinted, OnlyTheOwnerIsBlamed,
     Minted, vars
<1> QED
  BY <1>3, <1>4, <1>5, <1>6 DEF MemoryInv

LEMMA StepMemory == SystemInv /\ MemoryInv /\ [MemoryNext]_memVars => MemoryInv'
<1> SUFFICES ASSUME SystemInv, MemoryInv, [MemoryNext]_memVars PROVE MemoryInv'
  OBVIOUS
<1>1. RowsStay
  BY MemoryStepsSystem, StepDaemon, StepStays DEF SystemInv, DaemonInv, StoreInv
<1>2. CASE OtherSteps
  <2>1. UNCHANGED mvars
    BY <1>2 DEF OtherSteps
  <2>2. \A q \in Runs : Fences(q)' => Fences(q)
    BY <1>2, OtherFences
  <2> QED
    BY <1>1, <2>1, <2>2, TextsStay DEF MemoryInv, MemoryTypeOK, TextsAreOwn, mvars
<1>3. CASE UNCHANGED memVars
  BY <1>1, <1>3, TextsStay DEF MemoryInv, MemoryTypeOK, TextsAreOwn, Fences, Grace, memVars,
     sysVars, vars, mvars
<1> QED
  BY <1>1, <1>2, <1>3, DeliverMemoryStep, AgentMemoryStep, ReportMemoryStep, OwnerWritesStep
     DEF MemoryNext

LEMMA InitMemory == MemoryInit => MemoryInv
<1> SUFFICES ASSUME MemoryInit PROVE MemoryInv
  OBVIOUS
<1>1. MemoryTypeOK
  BY TextTypes, MemoryAssumption DEF MemoryInit, MemoryTypeOK, Files
<1>2. EditsAreCounted /\ TextsAreOwn
  BY DEF MemoryInit, EditsAreCounted, TextsAreOwn, OwnersText, NoText
<1>3. BaseStands /\ BlamedRunsAreMinted /\ OnlyTheOwnerIsBlamed
  BY DEF MemoryInit, DaemonInit, BaseStands, BlamedRunsAreMinted, OnlyTheOwnerIsBlamed,
     Fences, Grace
<1> QED
  BY <1>1, <1>2, <1>3 DEF MemoryInv

LEMMA MemoryAlways == MemorySpec => [](SystemInv /\ MemoryInv)
  BY InitSystem, StepSystem, InitMemory, StepMemory, PTL DEF MemorySpec

\* With texts and timeouts, deliveries, outbox and agents are as safe as they are in Daemon,
\* also where an agent fails by the timeout alone.
THEOREM MemoryKeepsDaemonSafe ==
  MemorySpec => [](OutboxIsReportable /\ DeliveriesAreAccepted /\ (~Orphans => OneAgentPerLoop))
<1>1. SystemInv => OutboxIsReportable /\ DeliveriesAreAccepted /\ (~Orphans => OneAgentPerLoop)
  BY DaemonInvSafe, EvidenceReports DEF SystemInv
<1> QED
  BY <1>1, MemoryAlways, PTL

\* Whatever is repeated, late or lost, a run is told that the owner changed the memory
\* under it only if the owner did: no run of the loop can have come in between, since the
\* run holds up its loop until the report that is told so.
THEOREM OnlyOwnersAreBlamed == MemorySpec => []OnlyTheOwnerIsBlamed
  BY MemoryAlways, PTL DEF MemoryInv

\* Memories, files and notices keep their shapes.
THEOREM MemoryTypeCorrect == MemorySpec => []MemoryTypeOK
  BY MemoryAlways, PTL DEF MemoryInv

\* What the owner wrote is replaced only by a run that was claimed after the write, and so
\* was given it to read.
THEOREM OwnersAreHeard == MemorySpec => OwnersWriteStands
<1> DEFINE Heard == \A l \in Loops :
             memory'[l] # memory[l] /\ memory'[l].by # NoRun /\ memory[l].by = NoRun
               => editedAt[memory'[l].by] >= memory[l].n
<1>1. ASSUME SystemInv, MemoryInv, MemoryNext
      PROVE  Heard
  <2> SUFFICES ASSUME NEW l \in Loops, memory'[l] # memory[l], memory'[l].by # NoRun
               PROVE  editedAt[memory'[l].by] >= memory[l].n
    OBVIOUS
  <2>1. ASSUME NEW r \in Runs, ReportMemory(r)
        PROVE  editedAt[memory'[l].by] >= memory[l].n
    <3>1. /\ memory' = [memory EXCEPT ![run[r].loop] = sent[r]]
          /\ sent[r] # NoText /\ MemoryOf(r) = base[r]
      BY <2>1 DEF ReportMemory, Applies
    <3>2. memory[l] = base[r] /\ memory'[l].by = r
      BY <1>1, <3>1 DEF MemoryInv, MemoryTypeOK, TextsAreOwn, MemoryOf
    <3> QED
      BY <1>1, <3>2 DEF MemoryInv, MemoryTypeOK, EditsAreCounted, Text
  <2>2. ASSUME NEW k \in Loops, OwnerWrites(k)
        PROVE  FALSE
    BY <2>2 DEF OwnerWrites, OwnersText, MemoryInv, MemoryTypeOK
  <2>3. memory' = memory \/ (\E r \in Runs : ReportMemory(r)) \/ \E k \in Loops : OwnerWrites(k)
    BY <1>1 DEF MemoryNext, DeliverMemory, PrepareMemory, WriteFile, ExitWithMemory, OtherSteps,
       mvars
  <2> QED
    BY <2>1, <2>2, <2>3
<1>2. SystemInv /\ MemoryInv /\ [MemoryNext]_memVars => [Heard]_memVars
  BY <1>1
<1> HIDE DEF Heard
<1>3. MemorySpec => [][Heard]_memVars
  BY <1>2, MemoryAlways, PTL DEF MemorySpec
<1> QED
  BY <1>3 DEF OwnersWriteStands, Heard
=============================================================================
