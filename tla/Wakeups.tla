------------------------------ MODULE Wakeups ------------------------------
(***************************************************************************)
(* What makes the server act in time: the timers of the scheduler          *)
(* (scheduler/index.ts), the waiters of parked polls (gateway/index.ts,    *)
(* armPollWaiter) and the sweep's expiry of queued runs.  None of them is  *)
(* durable and none decides anything: a timer or a wake only lets a        *)
(* transaction happen now that a later poll would bring about.             *)
(*                                                                         *)
(* One loop of one machine.  Its row, its queue slot and the run that      *)
(* keeps others out are what RunStore makes of them, reduced to what the   *)
(* hints can see; a transaction that queues a run is followed, in a step   *)
(* of its own, by the wake its caller sends when the await returns.        *)
(*                                                                         *)
(* The daemon may be asleep or away for as long as it takes the sweep to   *)
(* give a run up: it holds the run still, and its polls name it, or it has *)
(* never had it.  Silence itself is not tracked.  Of time the model knows  *)
(* that RUN_TIMEOUT_MS (20 minutes) and TERMINAL_GRACE_MS (10) both        *)
(* outlast a request, which is in hand for a few transactions and at most  *)
(* LONG_POLL_WAIT_MS (20 seconds): see "before".                           *)
(***************************************************************************)
CONSTANTS
  Connections,   \* requests of the daemon the server can have in hand
  NoConnection

ASSUME WakeupAssumption == NoConnection \notin Connections

VARIABLES
  row,        \* the loop: enabled, mode, overlap, cadence
  slot,       \* the queued run: who asked for it
  busy,       \* the run that fences the loop, or that the daemon still holds
  firing,     \* the callback of a timer, await by await
  waking,     \* has a run-now call yet to wake the machine
  req,        \* the polls the server has in hand
  waiter,     \* the request registered in pollWaiters
  listening,  \* the request whose answer the daemon waits for
  expiry,     \* the queued run the sweep read: was its row written since?
  before      \* requests older than the last claim, or than the last sweep of its run

wvars == <<row, slot, busy, firing, waking, req, waiter, listening, expiry, before>>
daemonVars == <<req, waiter, listening, before>>

\* The sweep gives up a run that the daemon holds ("held", then "late") or does not
\* ("lost", then "swept"): either fences the loop until the grace is over or the daemon is
\* known not to have it.  "over": fenced no more, the daemon is still at it.
Busy == {"no", "held", "lost", "late", "swept", "over"}
Running == busy \in {"held", "lost"}
Fenced == busy \in {"late", "swept"}
Holds == busy \in {"held", "late", "over"}
Row == [enabled : BOOLEAN, mode : {"cron", "continuous"}, overlap : {"skip", "queue-one"},
        cadence : {"none", "future", "due"}]
\* long: it may still park; it does so once.  names: it tells of a run the daemon holds.
NoRequest == [at |-> "idle", long |-> FALSE, names |-> FALSE, outcome |-> "open"]
InHand == {q \in Connections : req[q].at # "idle"}

Queued == slot # "none"
\* claimReadyRunForMachine, for a poll that does not name a run of the loop
Claimable == Queued /\ busy \in {"no", "over"} /\ (row.enabled \/ slot = "owner")

-----------------------------------------------------------------------------
(* Hints.                                                                  *)

\* The promise of a waiter keeps what it was settled with.
WakeParked == IF waiter = NoConnection \/ req[waiter].at # "wait" THEN req
              ELSE [req EXCEPT ![waiter].outcome = "woken"]
WakeMachine == IF waiter = NoConnection THEN req
               ELSE [req EXCEPT ![waiter].outcome = "woken"]

-----------------------------------------------------------------------------
(* Transactions.                                                           *)

\* enqueueRunTx: one slot, owned by the owner once the owner asked for it.  Its row is
\* written either way.
Enqueued(who) ==
  /\ slot' = IF slot = "owner" THEN slot ELSE who
  /\ expiry' = IF expiry = "same" THEN "written" ELSE expiry

\* advanceDueSchedules
SkipsRecurring == /\ Queued \/ Running
                  /\ row.mode = "continuous" \/ row.overlap = "skip"
\* Only a queued run is worth a wake.
HintOfAdvance == IF SkipsRecurring THEN "claim" ELSE "hint"
DueNow == row.enabled /\ row.cadence = "due" /\ ~Fenced
AdvanceDue ==
  /\ DueNow
  /\ IF SkipsRecurring THEN UNCHANGED <<slot, expiry>> ELSE Enqueued("system")
  /\ row' = [row EXCEPT !.cadence = IF row.mode = "cron" THEN "future" ELSE "none"]

\* pauseLoop and startLoop
Paused == [row EXCEPT !.enabled = FALSE, !.cadence = "none"]
PausedSlot == IF slot = "system" THEN "none" ELSE slot
Activated ==
  IF row.enabled THEN row
  ELSE [row EXCEPT !.enabled = TRUE,
                   !.cadence = CASE row.mode = "cron" -> "future"
                                 [] row.mode = "continuous" /\ (Queued \/ Running) -> "none"
                                 [] OTHER -> "due"]

\* terminalLifecycleTx: a continuous loop counts from the end of its run.
Ended ==
  IF row.mode = "cron" THEN row
  ELSE [row EXCEPT !.cadence = IF row.enabled /\ ~Queued THEN "future" ELSE "none"]

-----------------------------------------------------------------------------
(* Timers.                                                                 *)

\* armLoop sets a timer for the row its caller holds; the callback arms one again.  A
\* timer may so be late, double, or set for a cadence an edit has moved: it fires at any
\* moment.
Fire ==
  /\ firing = "idle" /\ firing' = "advance"
  /\ UNCHANGED <<row, slot, busy, waking, daemonVars, expiry>>

FireAdvances ==
  /\ firing = "advance"
  /\ \/ AdvanceDue /\ firing' = IF SkipsRecurring THEN "idle" ELSE "hint"
     \/ ~DueNow /\ firing' = "idle" /\ UNCHANGED <<row, slot, expiry>>
  /\ UNCHANGED <<busy, waking, daemonVars>>

FireWakes ==
  /\ firing = "hint" /\ firing' = "idle"
  /\ req' = WakeMachine
  /\ UNCHANGED <<row, slot, busy, waking, waiter, listening, expiry, before>>

-----------------------------------------------------------------------------
(* The owner.                                                              *)

RunNow ==
  /\ ~waking /\ waking' = TRUE
  /\ Enqueued("owner")
  /\ UNCHANGED <<row, busy, firing, daemonVars>>

RunNowWakes ==
  /\ waking /\ waking' = FALSE
  /\ req' = WakeMachine
  /\ UNCHANGED <<row, slot, busy, firing, waiter, listening, expiry, before>>

Pause ==
  /\ row' = Paused
  /\ slot' = PausedSlot
  /\ UNCHANGED <<busy, firing, waking, daemonVars, expiry>>

StartLoop ==
  /\ row' = Activated
  /\ UNCHANGED <<slot, busy, firing, waking, daemonVars, expiry>>

-----------------------------------------------------------------------------
(* Polls.                                                                  *)

RequestAt(q, step) == req[q].at = step
RequestGoes(q, step) == req' = [req EXCEPT ![q].at = step]

\* pollV4Wait: a daemon with nothing to do waits, one that holds a run names it and does
\* not.  The waiter is armed before the first poll and takes the place of one that is
\* still there.
SendPoll(q) ==
  /\ listening = NoConnection /\ RequestAt(q, "idle")
  /\ listening' = q
  /\ IF Holds
     THEN /\ req' = [req EXCEPT ![q] = [NoRequest EXCEPT !.at = "online", !.names = TRUE]]
          /\ UNCHANGED waiter
     ELSE /\ req' = [WakeMachine EXCEPT ![q] = [NoRequest EXCEPT !.at = "online", !.long = TRUE]]
          /\ waiter' = q
  /\ UNCHANGED <<row, slot, busy, firing, waking, expiry, before>>

\* releaseAbsentReconciliations: what the daemon does not name fences nothing any more.
Unfenced == CASE busy = "swept" -> "no" [] busy = "late" -> "over" [] OTHER -> busy
PollOnline(q) ==
  /\ RequestAt(q, "online")
  /\ busy' = IF req[q].names THEN busy ELSE Unfenced
  /\ RequestGoes(q, "advance")
  /\ UNCHANGED <<row, slot, firing, waking, waiter, listening, expiry, before>>

PollSkipsSchedule(q) ==
  /\ RequestAt(q, "advance") /\ RequestGoes(q, "claim")
  /\ UNCHANGED <<row, slot, busy, firing, waking, waiter, listening, expiry, before>>

PollAdvances(q) ==
  /\ RequestAt(q, "advance")
  /\ \/ AdvanceDue /\ RequestGoes(q, HintOfAdvance)
     \/ ~DueNow /\ RequestGoes(q, "claim") /\ UNCHANGED <<row, slot, expiry>>
  /\ UNCHANGED <<busy, firing, waking, waiter, listening, before>>

PollHints(q) ==
  /\ RequestAt(q, "hint")
  /\ req' = [WakeMachine EXCEPT ![q].at = "claim"]
  /\ UNCHANGED <<row, slot, busy, firing, waking, waiter, listening, expiry, before>>

\* The first answer goes out if there is work, or if nobody waits.
PollEnds(q) ==
  /\ req' = [req EXCEPT ![q] = NoRequest]
  /\ listening' = IF listening = q THEN NoConnection ELSE listening
  /\ waiter' = IF waiter = q THEN NoConnection ELSE waiter

\* What is claimed for a daemon that has stopped waiting, or is lost on the way, nobody
\* executes.  A continuous loop is owed nothing while its run is under way.
PollClaims(q) ==
  /\ RequestAt(q, "claim")
  /\ IF Claimable /\ ~req[q].names
     THEN /\ PollEnds(q) /\ before' = InHand \ {q}
          /\ slot' = "none" /\ busy' \in {"lost"} \cup IF listening = q THEN {"held"} ELSE {}
          /\ row' = IF row.mode = "cron" THEN row ELSE [row EXCEPT !.cadence = "none"]
     ELSE /\ IF req[q].long THEN RequestGoes(q, "wait") /\ UNCHANGED <<listening, waiter, before>>
             ELSE PollEnds(q) /\ before' = before \ {q}
          /\ UNCHANGED <<row, slot, busy>>
  /\ UNCHANGED <<firing, waking, expiry>>

Woken(q) ==
  /\ RequestAt(q, "wait") /\ req[q].outcome = "woken"
  /\ req' = [req EXCEPT ![q] = [NoRequest EXCEPT !.at = "online"]]
  /\ waiter' = IF waiter = q THEN NoConnection ELSE waiter
  /\ UNCHANGED <<row, slot, busy, firing, waking, listening, expiry, before>>

\* The window ended: a last touch, and an answer without work.
WaitEnds(q) ==
  /\ RequestAt(q, "wait") /\ req[q].outcome = "open"
  /\ PollEnds(q) /\ before' = before \ {q}
  /\ UNCHANGED <<row, slot, busy, firing, waking, expiry>>

Abandon ==
  /\ listening # NoConnection /\ listening' = NoConnection
  /\ \E q \in Connections \ {listening} : RequestAt(q, "idle")
  /\ UNCHANGED <<row, slot, firing, waking, req, waiter, expiry, before>>

GiveUpPoll == Abandon /\ UNCHANGED busy

\* A daemon that starts again no longer holds what had no report in its outbox.
DaemonRestarts ==
  /\ Abandon
  /\ busy' = CASE busy = "held" -> "lost" [] busy = "late" -> "swept"
               [] busy = "over" -> "no" [] OTHER -> busy

\* report(): the run ends, late or not, unless it only gets its receipt.  A block, or a
\* failure too many, pauses the loop.
ReportRun ==
  /\ Holds /\ busy' = "no"
  /\ \/ busy # "over" /\ row' = Ended /\ UNCHANGED slot
     \/ busy # "over" /\ row' = Paused /\ slot' = PausedSlot
     \/ busy = "over" /\ UNCHANGED <<row, slot>>
  /\ UNCHANGED <<firing, waking, daemonVars, expiry>>

-----------------------------------------------------------------------------
(* The sweep, the clock, the server.                                       *)

\* Any run that was silent for too long: nobody has it, or the machine slept over it.  Its
\* fence stays (terminal-grace).
SweepReclaims ==
  /\ Running /\ before = {}
  /\ busy' = IF busy = "held" THEN "late" ELSE "swept"
  /\ before' = InHand
  /\ row' = Ended
  /\ UNCHANGED <<slot, firing, waking, req, waiter, listening, expiry>>

\* expiresAt has passed: the lease fences no more, whoever holds the run.
GraceEnds ==
  /\ Fenced /\ before = {}
  /\ busy' = Unfenced
  /\ UNCHANGED <<row, slot, firing, waking, daemonVars, expiry>>

\* The sweep reads the queued runs; a system run that is older than DEFERRED_MAX_MS, of a
\* machine that is offline, it wants to expire ...
SweepReadsQueued ==
  /\ slot = "system" /\ expiry = "none"
  /\ expiry' = "same"
  /\ UNCHANGED <<row, slot, busy, firing, waking, daemonVars>>

\* ... and the transaction compares what it read (requestedBy, updatedAt) with the run as
\* it is now, under the lock of the loop.  The machine may be back by then.
AnyQueued == Queued
Unwritten == expiry = "same" /\ slot = "system"
ExpireQueued ==
  /\ expiry # "none" /\ expiry' = "none"
  /\ \/ Unwritten /\ slot' = "none"
     \/ UNCHANGED slot
  /\ UNCHANGED <<row, busy, firing, waking, daemonVars>>

CadenceComes ==
  /\ row.cadence = "future" /\ row' = [row EXCEPT !.cadence = "due"]
  /\ UNCHANGED <<slot, busy, firing, waking, daemonVars, expiry>>

-----------------------------------------------------------------------------
\* The server starts, or starts again, over whatever rows it finds; Scheduler.start arms
\* what they say, and the requests of the process before are gone.
WakeupInit ==
  /\ row \in {r \in Row : /\ r.mode = "continuous" => r.overlap = "queue-one"
                          /\ ~r.enabled => r.cadence = "none"
                          /\ r.mode = "cron" /\ r.enabled => r.cadence # "none"}
  /\ slot \in {"none", "owner"} \cup IF row.enabled THEN {"system"} ELSE {}
  /\ busy \in Busy
  /\ firing = "idle" /\ waking = FALSE
  /\ req = [q \in Connections |-> NoRequest]
  /\ waiter = NoConnection /\ listening = NoConnection
  /\ expiry = "none" /\ before = {}

PollStep(q) == PollOnline(q) \/ PollAdvances(q) \/ PollHints(q) \/ PollClaims(q)
Park(q) == Woken(q) \/ WaitEnds(q)
TimerStep == Fire \/ FireAdvances \/ FireWakes
OwnerStep == RunNow \/ RunNowWakes \/ Pause \/ StartLoop

WakeupNext ==
  \/ \E q \in Connections : SendPoll(q) \/ PollStep(q) \/ Park(q)
  \/ OwnerStep \/ TimerStep \/ GiveUpPoll \/ DaemonRestarts \/ ReportRun
  \/ SweepReclaims \/ GraceEnds \/ SweepReadsQueued \/ ExpireQueued
  \/ CadenceComes

\* The daemon polls, the server handles what it is sent and the grace of a swept run has an
\* end; no timer need ever fire, and no report need ever come.
\* Strong: one request of the daemon does not lose the race against another, that was
\* abandoned, each time anew.
WakeupFairness ==
  /\ WF_wvars(\E q \in Connections : SendPoll(q))
  /\ WF_wvars(GraceEnds)
  /\ \A q \in Connections : WF_wvars(PollStep(q)) /\ WF_wvars(Park(q))
                            /\ SF_wvars(PollAdvances(q) /\ DueNow)

WakeupSpec == WakeupInit /\ [][WakeupNext]_wvars /\ WakeupFairness

-----------------------------------------------------------------------------
(* Properties.                                                             *)

\* A parked poll never sleeps beside a run it could take: whoever queues one while a
\* poll is parked, or about to park, wakes that poll, or a poll under way takes the run.
\* One that names a run the daemon held when it was sent does not: its loop is left out.
Hinting == \/ waking
           \/ firing = "hint"
           \/ \E q \in InHand : req[q].at = "hint" \/ (req[q].at # "wait" /\ ~req[q].names)
NoLostWakeup ==
  \A q \in Connections :
    RequestAt(q, "wait") /\ req[q].outcome = "open" /\ Claimable => Hinting

\* What the owner asked for is claimed and nothing else becomes of it: not a pause, and not
\* an expiry that was decided when only the schedule wanted the run.
OwnersRunIsTaken ==
  [][slot = "owner" /\ slot' # "owner" => busy \in {"no", "over"} /\ Running']_wvars

\* A due cadence is acted upon by the daemon's polls, whatever became of its timer, and also
\* behind a run the sweep gave up: polls that do not name it lift its fence, and past those
\* of a daemon that still holds it, whose report need not come, the grace ends.
Due == row.enabled /\ row.cadence = "due"
DueIsServed == Due ~> ~Due
=============================================================================
