---------------------------- MODULE WakeupsProofs ----------------------------
(***************************************************************************)
(* A parked poll never sleeps beside a run it could take, for any number   *)
(* of requests the server has in hand.                                     *)
(*                                                                         *)
(* The map pollWaiters has one entry for the machine, and requests the     *)
(* daemon has given up stay in hand.  That one entry is enough because a   *)
(* poll that may park wakes the one before it: who sleeps is always the    *)
(* one who is registered (SleeperIsRegistered).  A report wakes nobody; it *)
(* need not, since a run is only handed to the request the daemon listens  *)
(* to, and that is never another than the sleeper (NothingHeldMeanwhile).  *)
(* Nor does the end of a grace: a sleeper younger than the sweep has       *)
(* lifted the fence itself (SleeperHasUnfenced).                           *)
(***************************************************************************)
EXTENDS Wakeups, TLAPS

WakeupTypeOK ==
  /\ row \in Row
  /\ slot \in {"none", "system", "owner"}
  /\ busy \in Busy
  /\ req \in [Connections -> [at : {"idle", "online", "advance", "hint", "claim", "wait"},
                              long : BOOLEAN, names : BOOLEAN, outcome : {"open", "woken"}]]
  /\ waiter \in Connections \cup {NoConnection}
  /\ listening \in Connections \cup {NoConnection}
  /\ before \in SUBSET Connections

\* In hand, may park or has parked, and nobody has woken it.
Unwoken(q) == req[q].at # "idle" /\ req[q].long /\ req[q].outcome = "open"

SystemRunIsEnabled == slot = "system" => row.enabled
ParkedMayPark ==
  \A q \in Connections : /\ req[q].at = "wait" => req[q].long
                         /\ req[q].long => ~req[q].names
SleeperIsRegistered == \A q \in Connections : Unwoken(q) => waiter = q
NothingHeldMeanwhile ==
  \A q \in Connections : Unwoken(q) => ~Holds /\ listening \in {q, NoConnection}
SleeperHasUnfenced ==
  \A q \in Connections \ before : Unwoken(q) /\ req[q].at # "online" => ~Fenced

WakeupInv ==
  /\ WakeupTypeOK /\ SystemRunIsEnabled /\ ParkedMayPark
  /\ SleeperIsRegistered /\ NothingHeldMeanwhile /\ SleeperHasUnfenced /\ NoLostWakeup

-----------------------------------------------------------------------------
(* What a wake does, and what steps that touch no request leave true.      *)

Request == [at : {"idle", "online", "advance", "hint", "claim", "wait"},
            long : BOOLEAN, names : BOOLEAN, outcome : {"open", "woken"}]

\* wakeMachine settles the promise of the registered request and moves nobody.
LEMMA WakeFits ==
  ASSUME WakeupTypeOK
  PROVE  /\ WakeMachine \in [Connections -> Request]
         /\ \A q \in Connections : /\ WakeMachine[q].at = req[q].at
                                   /\ WakeMachine[q].long = req[q].long
                                   /\ WakeMachine[q].names = req[q].names
                                   /\ q # waiter => WakeMachine[q] = req[q]
                                   /\ q = waiter => WakeMachine[q].outcome = "woken"
<1>1. CASE waiter \in Connections
  <2> DEFINE k == [req[waiter] EXCEPT !.outcome = "woken"]
  <2>1. req[waiter] \in Request
    BY <1>1 DEF WakeupTypeOK, Request
  <2>2. k \in Request /\ k.at = req[waiter].at /\ k.long = req[waiter].long
        /\ k.names = req[waiter].names /\ k.outcome = "woken"
    BY <2>1 DEF Request
  <2>3. WakeMachine = [req EXCEPT ![waiter] = k]
    BY <1>1, WakeupAssumption DEF WakeMachine, WakeupAssumption
  <2> HIDE DEF k
  <2> QED BY <1>1, <2>2, <2>3 DEF WakeupTypeOK, Request
<1>2. CASE waiter = NoConnection
  BY <1>2, WakeupAssumption DEF WakeMachine, WakeupTypeOK, Request, WakeupAssumption
<1> QED BY <1>1, <1>2 DEF WakeupTypeOK

\* Whoever has woken the machine has left no sleeper.
LEMMA WakeLeavesNone ==
  ASSUME WakeupInv, NEW q \in Connections
  PROVE  ~(WakeMachine[q].at # "idle" /\ WakeMachine[q].long /\ WakeMachine[q].outcome = "open")
BY WakeFits DEF WakeupInv, SleeperIsRegistered, Unwoken

\* A transaction that hands out nothing, and makes a run claimable only with somebody to
\* tell the polls, disturbs no request.
LEMMA RequestsUndisturbed ==
  ASSUME WakeupInv, UNCHANGED daemonVars,
         row' \in Row, slot' \in {"none", "system", "owner"}, busy' \in Busy,
         slot' = "system" => row'.enabled,
         Holds' => Holds, Fenced' => Fenced,
         Claimable' => Hinting' \/ (Claimable /\ (Hinting => Hinting'))
                       \/ \A q \in Connections : Unwoken(q) => req[q].at # "wait"
  PROVE  WakeupInv'
<1>1. WakeupTypeOK' /\ SystemRunIsEnabled' /\ ParkedMayPark' /\ SleeperIsRegistered'
  BY DEF WakeupInv, WakeupTypeOK, SystemRunIsEnabled, ParkedMayPark, SleeperIsRegistered, Unwoken,
    daemonVars
<1>2. NothingHeldMeanwhile' /\ SleeperHasUnfenced'
  BY DEF WakeupInv, NothingHeldMeanwhile, SleeperHasUnfenced, Unwoken, daemonVars
<1>3. NoLostWakeup'
  BY DEF WakeupInv, NoLostWakeup, ParkedMayPark, Unwoken, RequestAt, daemonVars
<1> QED BY <1>1, <1>2, <1>3 DEF WakeupInv

\* A step that wakes the machine leaves nobody who could sleep beside a run.
LEMMA WakesKeepWakeups ==
  ASSUME WakeupInv, req' = WakeMachine, UNCHANGED <<row, slot, busy, waiter, listening, before>>
  PROVE  WakeupInv'
<1>1. \A q \in Connections : ~Unwoken(q)'
  BY WakeLeavesNone DEF Unwoken
<1>2. WakeupTypeOK' /\ SystemRunIsEnabled' /\ ParkedMayPark'
  BY WakeFits DEF WakeupInv, WakeupTypeOK, SystemRunIsEnabled, ParkedMayPark, Request
<1>3. NoLostWakeup'
  BY <1>1, <1>2 DEF NoLostWakeup, ParkedMayPark, Unwoken, RequestAt
<1> QED BY <1>1, <1>2, <1>3
    DEF WakeupInv, SleeperIsRegistered, NothingHeldMeanwhile, SleeperHasUnfenced

-----------------------------------------------------------------------------
(* The callers of transactions, and the clock.                             *)

\* What advanceDueSchedules and enqueueRunTx may make of the rows.
LEMMA EnqueuedFits ==
  ASSUME WakeupInv, NEW who \in {"system", "owner"}, Enqueued(who)
  PROVE  slot' \in {"system", "owner"} /\ (slot' = "system" => who = "system")
BY DEF Enqueued, WakeupInv, WakeupTypeOK

LEMMA AdvanceFits ==
  ASSUME WakeupInv, AdvanceDue
  PROVE  /\ row' \in Row /\ row'.enabled = row.enabled
         /\ slot' \in {"none", "system", "owner"}
         /\ slot' = "system" => row'.enabled
         /\ SkipsRecurring => slot' = slot
<1>1. row \in Row /\ row.enabled /\ slot \in {"none", "system", "owner"}
  BY DEF AdvanceDue, DueNow, WakeupInv, WakeupTypeOK
<1>2. \A cadence \in {"none", "future", "due"} :
        /\ [row EXCEPT !.cadence = cadence] \in Row
        /\ [row EXCEPT !.cadence = cadence].enabled = row.enabled
  BY <1>1 DEF Row
<1>3. row' \in Row /\ row'.enabled = row.enabled
  BY <1>2 DEF AdvanceDue
<1>4. CASE SkipsRecurring
  BY <1>1, <1>3, <1>4 DEF AdvanceDue
<1>5. CASE ~SkipsRecurring
  BY <1>1, <1>3, <1>5, EnqueuedFits DEF AdvanceDue
<1> QED BY <1>4, <1>5

LEMMA TimersKeepWakeups ==
  ASSUME WakeupInv, TimerStep
  PROVE  WakeupInv'
<1>1. CASE Fire
  BY <1>1, RequestsUndisturbed
     DEF Fire, WakeupInv, WakeupTypeOK, SystemRunIsEnabled, Claimable, Queued, Hinting, InHand, Holds,
         Fenced, daemonVars
<1>2. CASE FireAdvances
  <2>1. CASE AdvanceDue /\ SkipsRecurring
    BY <1>2, <2>1, AdvanceFits, RequestsUndisturbed
       DEF FireAdvances, WakeupInv, WakeupTypeOK, Claimable, Queued, Hinting, InHand, Holds,
         Fenced, daemonVars
  <2>2. CASE AdvanceDue /\ ~SkipsRecurring
    <3>1. firing' = "hint" /\ UNCHANGED <<busy, daemonVars>>
      BY <1>2, <2>2 DEF FireAdvances, AdvanceDue
    <3> QED BY <2>2, <3>1, AdvanceFits, RequestsUndisturbed
        DEF WakeupInv, WakeupTypeOK, Hinting, InHand, Holds, Fenced, daemonVars
  <2>3. CASE ~DueNow
    BY <1>2, <2>3, RequestsUndisturbed
       DEF FireAdvances, AdvanceDue, WakeupInv, WakeupTypeOK, SystemRunIsEnabled, Claimable, Queued,
           Hinting, InHand, Holds, Fenced, daemonVars
  <2> QED BY <1>2, <2>1, <2>2, <2>3 DEF FireAdvances
<1>3. CASE FireWakes
  BY <1>3, WakesKeepWakeups DEF FireWakes
<1> QED BY <1>1, <1>2, <1>3 DEF TimerStep

LEMMA PausedFits ==
  ASSUME WakeupInv
  PROVE  /\ Paused \in Row /\ ~Paused.enabled
         /\ PausedSlot \in {"none", "owner"} /\ (PausedSlot = "owner" => slot = "owner")
<1>1. Paused \in Row /\ ~Paused.enabled
  BY DEF Paused, WakeupInv, WakeupTypeOK, Row
<1> QED BY <1>1 DEF PausedSlot, WakeupInv, WakeupTypeOK

LEMMA EndedFits ==
  ASSUME WakeupInv
  PROVE  Ended \in Row /\ Ended.enabled = row.enabled
<1>1. \A cadence \in {"none", "future", "due"} :
        /\ [row EXCEPT !.cadence = cadence] \in Row
        /\ [row EXCEPT !.cadence = cadence].enabled = row.enabled
  BY DEF WakeupInv, WakeupTypeOK, Row
<1> QED BY <1>1 DEF Ended, WakeupInv, WakeupTypeOK

LEMMA OwnerKeepsWakeups ==
  ASSUME WakeupInv, OwnerStep
  PROVE  WakeupInv'
<1>1. CASE RunNow
  BY <1>1, EnqueuedFits, RequestsUndisturbed
     DEF RunNow, WakeupInv, WakeupTypeOK, Hinting, InHand, Holds, Fenced, daemonVars
<1>2. CASE RunNowWakes
  BY <1>2, WakesKeepWakeups DEF RunNowWakes
<1>3. CASE Pause
  <2>1. row' \in Row /\ ~row'.enabled
        /\ slot' \in {"none", "owner"} /\ (slot' = "owner" => slot = "owner")
    BY <1>3, PausedFits DEF Pause
  <2> QED BY <1>3, <2>1, RequestsUndisturbed
      DEF Pause, WakeupInv, WakeupTypeOK, Claimable, Queued, Hinting, InHand, Holds,
         Fenced, daemonVars
<1>4. CASE StartLoop
  <2>1. \A cadence \in {"none", "future", "due"} :
          /\ [row EXCEPT !.enabled = TRUE, !.cadence = cadence] \in Row
          /\ [row EXCEPT !.enabled = TRUE, !.cadence = cadence].enabled = TRUE
    BY DEF WakeupInv, WakeupTypeOK, Row
  <2>2. row \in Row
    BY DEF WakeupInv, WakeupTypeOK
  <2>3. row' \in Row /\ row'.enabled
    BY <1>4, <2>1, <2>2 DEF StartLoop, Activated, Row
  <2>4. Claimable' => Claimable
    BY <1>4 DEF StartLoop, Claimable, Queued, WakeupInv, WakeupTypeOK, SystemRunIsEnabled
  <2> QED BY <1>4, <2>3, <2>4, RequestsUndisturbed
      DEF StartLoop, WakeupInv, WakeupTypeOK, Hinting, InHand, Holds, Fenced, daemonVars
<1> QED BY <1>1, <1>2, <1>3, <1>4 DEF OwnerStep

\* A report frees the loop only if no poll sleeps, the end of a grace only if none parks.
LEMMA OthersKeepWakeups ==
  ASSUME WakeupInv,
         \/ ReportRun \/ SweepReclaims \/ GraceEnds
         \/ SweepReadsQueued \/ ExpireQueued \/ CadenceComes
  PROVE  WakeupInv'
<1>1. CASE ReportRun
  <2>1. busy' = "no" /\ UNCHANGED daemonVars /\ \A q \in Connections : ~Unwoken(q)
    BY <1>1 DEF ReportRun, WakeupInv, NothingHeldMeanwhile
  <2>2. CASE row' = Ended /\ slot' = slot
    BY <2>1, <2>2, EndedFits, RequestsUndisturbed
       DEF WakeupInv, WakeupTypeOK, SystemRunIsEnabled, Busy, Holds, Fenced
  <2>3. CASE row' = Paused /\ slot' = PausedSlot
    BY <2>1, <2>3, PausedFits, RequestsUndisturbed DEF Busy, Holds, Fenced
  <2>4. CASE UNCHANGED <<row, slot>>
    BY <2>1, <2>4, RequestsUndisturbed
       DEF WakeupInv, WakeupTypeOK, SystemRunIsEnabled, Busy, Holds, Fenced
  <2> QED BY <1>1, <2>2, <2>3, <2>4 DEF ReportRun
<1>2. CASE SweepReclaims
  <2>1. /\ row' \in Row /\ row'.enabled = row.enabled
        /\ busy' \in {"late", "swept"} /\ (Holds' => Holds)
        /\ before' = InHand /\ UNCHANGED <<slot, req, waiter, listening>>
    BY <1>2, EndedFits DEF SweepReclaims, Running, Holds
  <2>2. WakeupTypeOK' /\ SystemRunIsEnabled' /\ ParkedMayPark' /\ SleeperIsRegistered'
    BY <2>1 DEF WakeupInv, WakeupTypeOK, SystemRunIsEnabled, ParkedMayPark, SleeperIsRegistered,
      Unwoken, Busy, InHand
  <2>3. NothingHeldMeanwhile' /\ SleeperHasUnfenced'
    BY <2>1 DEF WakeupInv, NothingHeldMeanwhile, SleeperHasUnfenced, Unwoken, InHand
  <2>4. ~Claimable'
    BY <2>1 DEF Claimable
  <2> QED BY <2>2, <2>3, <2>4 DEF WakeupInv, NoLostWakeup
<1>3. CASE GraceEnds
  <2>1. \A q \in Connections : Unwoken(q) => req[q].at # "wait"
    BY <1>3 DEF GraceEnds, WakeupInv, SleeperHasUnfenced
  <2>2. busy' \in {"no", "over"} /\ (Holds' => Holds) /\ UNCHANGED <<row, slot, daemonVars>>
    BY <1>3 DEF GraceEnds, Unfenced, Fenced, Holds
  <2> QED BY <2>1, <2>2, RequestsUndisturbed
      DEF WakeupInv, WakeupTypeOK, SystemRunIsEnabled, Busy, Fenced
<1>4. CASE SweepReadsQueued
  BY <1>4, RequestsUndisturbed
     DEF SweepReadsQueued, WakeupInv, WakeupTypeOK, SystemRunIsEnabled, Claimable, Queued, Hinting,
         InHand, Holds, Fenced, daemonVars
<1>5. CASE ExpireQueued
  BY <1>5, RequestsUndisturbed
     DEF ExpireQueued, WakeupInv, WakeupTypeOK, SystemRunIsEnabled, Claimable, Queued, Hinting,
         InHand, Holds, Fenced, daemonVars
<1>6. CASE CadenceComes
  <2>1. row' \in Row /\ row'.enabled = row.enabled
    BY <1>6 DEF CadenceComes, WakeupInv, WakeupTypeOK, Row
  <2> QED BY <1>6, <2>1, RequestsUndisturbed
      DEF CadenceComes, WakeupInv, WakeupTypeOK, SystemRunIsEnabled, Claimable, Queued, Hinting,
          InHand, Holds, Fenced, daemonVars
<1> QED BY <1>1, <1>2, <1>3, <1>4, <1>5, <1>6

-----------------------------------------------------------------------------
(* Polls.                                                                  *)

\* A request that goes from one step of pollCore to the next.  It will claim what there is,
\* unless it names a run: then it makes nothing claimable without a wake to follow.
LEMMA RequestsInHandKeepWakeups ==
  ASSUME WakeupInv, NEW q \in Connections,
         row' \in Row, slot' \in {"none", "system", "owner"}, busy' \in Busy,
         slot' = "system" => row'.enabled,
         Holds' => Holds, Fenced' => Fenced,
         Fenced' /\ req[q].at = "online" => req[q].names,
         req[q].at \in {"online", "advance", "hint"},
         NEW step \in {"advance", "hint", "claim"}, RequestGoes(q, step),
         ~req[q].names \/ step = "hint" \/ (req[q].at # "hint" /\ (Claimable' => Claimable)),
         UNCHANGED <<firing, waking, waiter, listening, before>>
  PROVE  WakeupInv'
<1>1. /\ req' \in [Connections -> Request]
      /\ \A p \in Connections : /\ p # q => req'[p] = req[p]
                                /\ req'[p].long = req[p].long
                                /\ req'[p].names = req[p].names
                                /\ req'[p].outcome = req[p].outcome
      /\ req'[q].at = step
  <2> DEFINE k == [req[q] EXCEPT !.at = step]
  <2>1. k \in Request /\ k.at = step /\ k.long = req[q].long /\ k.names = req[q].names
        /\ k.outcome = req[q].outcome
    BY DEF WakeupInv, WakeupTypeOK, Request
  <2>2. req' = [req EXCEPT ![q] = k]
    BY DEF RequestGoes
  <2> HIDE DEF k
  <2> QED BY <2>1, <2>2 DEF WakeupInv, WakeupTypeOK, Request
<1>2. \A p \in Connections : Unwoken(p)' => Unwoken(p)
  BY <1>1 DEF Unwoken
<1>3. WakeupTypeOK' /\ SystemRunIsEnabled' /\ ParkedMayPark'
  BY <1>1 DEF WakeupInv, WakeupTypeOK, SystemRunIsEnabled, ParkedMayPark, Request
<1>4. SleeperIsRegistered' /\ NothingHeldMeanwhile'
  BY <1>2 DEF WakeupInv, SleeperIsRegistered, NothingHeldMeanwhile
<1>5. SleeperHasUnfenced'
  BY <1>1, <1>2 DEF WakeupInv, SleeperHasUnfenced, ParkedMayPark, Unwoken
<1>6. ASSUME NEW p \in Connections, req'[p].at = "wait", req'[p].outcome = "open", Claimable'
      PROVE  Hinting'
  <2>1. CASE ~req[q].names \/ step = "hint"
    BY <1>1, <2>1 DEF Hinting, InHand
  <2>2. CASE req[q].names /\ req[q].at # "hint" /\ (Claimable' => Claimable)
    <3>1. p # q /\ req[p].at = "wait" /\ req[p].outcome = "open"
      BY <1>1, <1>6
    <3>2. Hinting
      BY <1>6, <2>2, <3>1 DEF WakeupInv, NoLostWakeup, RequestAt
    <3> QED BY <1>1, <2>2, <3>2 DEF Hinting, InHand
  <2> QED BY <2>1, <2>2
<1> QED BY <1>3, <1>4, <1>5, <1>6 DEF WakeupInv, NoLostWakeup, RequestAt

\* A request that ends takes its waiter with it.
LEMMA EndingFits ==
  ASSUME WakeupInv, NEW q \in Connections, PollEnds(q)
  PROVE  /\ req' \in [Connections -> Request]
         /\ \A p \in Connections : p # q => req'[p] = req[p]
         /\ req'[q].at = "idle"
         /\ waiter' \in Connections \cup {NoConnection}
         /\ listening' \in Connections \cup {NoConnection}
         /\ waiter # q => waiter' = waiter
         /\ listening' \in {listening, NoConnection}
BY DEF PollEnds, NoRequest, WakeupInv, WakeupTypeOK, Request

LEMMA EndingKeepsRequests ==
  ASSUME WakeupInv, NEW q \in Connections, PollEnds(q),
         Holds' => \A p \in Connections \ {q} : ~Unwoken(p),
         Fenced' => Fenced /\ before' = before \ {q}
  PROVE  ParkedMayPark' /\ SleeperIsRegistered' /\ NothingHeldMeanwhile' /\ SleeperHasUnfenced'
<1>1. \A p \in Connections : Unwoken(p)' => p # q /\ Unwoken(p)
  BY EndingFits DEF Unwoken
<1>2. ParkedMayPark'
  BY EndingFits DEF PollEnds, NoRequest, WakeupInv, WakeupTypeOK, ParkedMayPark
<1>3. SleeperIsRegistered'
  BY <1>1, EndingFits DEF WakeupInv, SleeperIsRegistered
<1>4. NothingHeldMeanwhile'
  BY <1>1, EndingFits DEF WakeupInv, NothingHeldMeanwhile
<1>5. SleeperHasUnfenced'
  BY <1>1, EndingFits DEF WakeupInv, SleeperHasUnfenced
<1> QED BY <1>2, <1>3, <1>4, <1>5

LEMMA SendKeepsWakeups ==
  ASSUME WakeupInv, NEW q \in Connections, SendPoll(q)
  PROVE  WakeupInv'
<1>1. CASE Holds
  <2>1. \A p \in Connections : ~Unwoken(p)
    BY <1>1 DEF WakeupInv, NothingHeldMeanwhile
  <2> DEFINE k == [NoRequest EXCEPT !.at = "online", !.names = TRUE]
  <2>2. k \in Request /\ k.at = "online" /\ k.long = FALSE
    BY DEF NoRequest, Request
  <2>3. req' = [req EXCEPT ![q] = k] /\ waiter' = waiter /\ listening' = q
    BY <1>1 DEF SendPoll
  <2> HIDE DEF k
  <2>4. WakeupTypeOK' /\ SystemRunIsEnabled' /\ ParkedMayPark'
    BY <2>2, <2>3 DEF SendPoll, WakeupInv, WakeupTypeOK, SystemRunIsEnabled, ParkedMayPark, Request
  <2>5. \A p \in Connections : ~Unwoken(p)'
    BY <2>1, <2>2, <2>3 DEF Unwoken, WakeupInv, WakeupTypeOK
  <2> QED BY <2>4, <2>5
      DEF WakeupInv, SleeperIsRegistered, NothingHeldMeanwhile, SleeperHasUnfenced, NoLostWakeup,
          ParkedMayPark, Unwoken, RequestAt
<1>2. CASE ~Holds
  <2> DEFINE k == [NoRequest EXCEPT !.at = "online", !.long = TRUE]
  <2>1. k \in Request /\ k.at = "online" /\ k.long = TRUE /\ k.names = FALSE
    BY DEF NoRequest, Request
  <2>2. req' = [WakeMachine EXCEPT ![q] = k] /\ waiter' = q /\ listening' = q
    BY <1>2 DEF SendPoll
  <2> HIDE DEF k
  <2>3. WakeMachine \in [Connections -> Request]
    BY WakeFits DEF WakeupInv
  <2>4. WakeupTypeOK' /\ SystemRunIsEnabled'
    BY <2>1, <2>2, <2>3 DEF SendPoll, WakeupInv, WakeupTypeOK, SystemRunIsEnabled, Request
  <2>5. ParkedMayPark'
    BY <2>1, <2>2, <2>3, WakeFits DEF WakeupInv, ParkedMayPark
  <2>6. \A p \in Connections : Unwoken(p)' => p = q
    BY <2>2, <2>3, WakeLeavesNone DEF Unwoken
  <2>7. SleeperIsRegistered' /\ NothingHeldMeanwhile' /\ SleeperHasUnfenced'
    BY <1>2, <2>1, <2>2, <2>3, <2>6
       DEF SendPoll, SleeperIsRegistered, NothingHeldMeanwhile, SleeperHasUnfenced, Holds
  <2>8. Hinting'
    BY <2>1, <2>2, <2>3 DEF Hinting, InHand
  <2> QED BY <2>4, <2>5, <2>7, <2>8 DEF WakeupInv, NoLostWakeup
<1> QED BY <1>1, <1>2

LEMMA PollsKeepWakeups ==
  ASSUME WakeupInv, NEW q \in Connections, PollStep(q)
  PROVE  WakeupInv'
<1>1. CASE PollOnline(q)
  <2>1. /\ UNCHANGED <<row, slot, firing, waking, waiter, listening, before>>
        /\ req[q].at = "online" /\ RequestGoes(q, "advance")
    BY <1>1 DEF PollOnline, RequestAt
  <2>2. /\ busy' \in Busy /\ (Holds' => Holds) /\ (Fenced' => Fenced /\ req[q].names)
        /\ req[q].names => busy' = busy
    BY <1>1 DEF PollOnline, Unfenced, Busy, Holds, Fenced, WakeupInv, WakeupTypeOK
  <2>3. req[q].names => (Claimable' => Claimable)
    BY <2>1, <2>2 DEF Claimable, Queued
  <2> QED BY <2>1, <2>2, <2>3, RequestsInHandKeepWakeups
      DEF WakeupInv, WakeupTypeOK, SystemRunIsEnabled
<1>2. CASE PollAdvances(q)
  <2>1. /\ UNCHANGED <<busy, firing, waking, waiter, listening, before>> /\ req[q].at = "advance"
        /\ (Holds' => Holds) /\ (Fenced' => Fenced)
    BY <1>2 DEF PollAdvances, RequestAt, Holds, Fenced
  <2>2. CASE AdvanceDue /\ RequestGoes(q, HintOfAdvance)
    <3>1. HintOfAdvance \in {"claim", "hint"} /\ (HintOfAdvance = "claim" => SkipsRecurring)
      BY DEF HintOfAdvance
    <3>2. SkipsRecurring => (Claimable' => Claimable)
      BY <2>1, <2>2, AdvanceFits DEF Claimable, Queued
    <3> QED BY <2>1, <2>2, <3>1, <3>2, AdvanceFits, RequestsInHandKeepWakeups
        DEF WakeupInv, WakeupTypeOK
  <2>3. CASE ~DueNow /\ RequestGoes(q, "claim") /\ UNCHANGED <<row, slot, expiry>>
    <3>1. Claimable' => Claimable
      BY <2>1, <2>3 DEF Claimable, Queued
    <3> QED BY <2>1, <2>3, <3>1, RequestsInHandKeepWakeups
        DEF WakeupInv, WakeupTypeOK, SystemRunIsEnabled
  <2> QED BY <1>2, <2>2, <2>3 DEF PollAdvances
<1>3. CASE PollHints(q)
  <2> DEFINE k == [WakeMachine[q] EXCEPT !.at = "claim"]
  <2>1. WakeMachine \in [Connections -> Request]
    BY WakeFits DEF WakeupInv
  <2>2. k \in Request /\ k.at = "claim" /\ k.long = WakeMachine[q].long
        /\ k.names = WakeMachine[q].names /\ k.outcome = WakeMachine[q].outcome
    BY <2>1 DEF Request
  <2>3. req' = [WakeMachine EXCEPT ![q] = k]
    BY <1>3 DEF PollHints
  <2>4. WakeMachine[q].at = "hint"
    BY <1>3, WakeFits DEF PollHints, RequestAt, WakeupInv
  <2> HIDE DEF k
  <2>5. WakeupTypeOK' /\ SystemRunIsEnabled'
    BY <1>3, <2>1, <2>2, <2>3 DEF PollHints, WakeupInv, WakeupTypeOK, SystemRunIsEnabled, Request
  <2>6. ParkedMayPark'
    BY <2>1, <2>2, <2>3, WakeFits DEF WakeupInv, ParkedMayPark
  <2>7. \A p \in Connections : ~Unwoken(p)'
    BY <2>1, <2>2, <2>3, <2>4, WakeLeavesNone DEF Unwoken
  <2> QED BY <2>5, <2>6, <2>7
      DEF WakeupInv, SleeperIsRegistered, NothingHeldMeanwhile, SleeperHasUnfenced, NoLostWakeup,
          ParkedMayPark, Unwoken, RequestAt
<1>4. CASE PollClaims(q)
  <2>1. CASE Claimable /\ ~req[q].names
    <3>1. /\ PollEnds(q) /\ before' = InHand \ {q}
          /\ slot' = "none" /\ busy' \in {"lost", "held"}
          /\ busy' = "held" => listening = q
      BY <1>4, <2>1 DEF PollClaims
    <3>2. row' \in Row
      BY <1>4, <2>1 DEF PollClaims, WakeupInv, WakeupTypeOK, Row
    <3>3. Holds' => \A p \in Connections \ {q} : ~Unwoken(p)
      BY <3>1, WakeupAssumption DEF Holds, WakeupInv, NothingHeldMeanwhile, WakeupAssumption
    <3>4. ~Fenced' /\ ~Claimable'
      BY <3>1 DEF Fenced, Claimable
    <3>5. ParkedMayPark' /\ SleeperIsRegistered' /\ NothingHeldMeanwhile' /\ SleeperHasUnfenced'
      BY <3>1, <3>3, <3>4, EndingKeepsRequests
    <3>6. WakeupTypeOK' /\ SystemRunIsEnabled'
      BY <3>1, <3>2, EndingFits DEF WakeupInv, WakeupTypeOK, SystemRunIsEnabled, Request, Busy, InHand
    <3> QED BY <3>4, <3>5, <3>6 DEF WakeupInv, NoLostWakeup
  <2>2. CASE ~(Claimable /\ ~req[q].names) /\ req[q].long
    <3>1. /\ RequestGoes(q, "wait") /\ req[q].at = "claim"
          /\ UNCHANGED <<row, slot, busy, waiter, listening, before>>
      BY <1>4, <2>2 DEF PollClaims, RequestAt
    <3>2. /\ req' \in [Connections -> Request]
          /\ \A p \in Connections : /\ p # q => req'[p] = req[p]
                                    /\ req'[p].long = req[p].long
                                    /\ req'[p].names = req[p].names
                                    /\ req'[p].outcome = req[p].outcome
          /\ req'[q].at = "wait"
      BY <3>1 DEF RequestGoes, WakeupInv, WakeupTypeOK, Request
    <3>3. \A p \in Connections : Unwoken(p)' => Unwoken(p)
      BY <3>1, <3>2 DEF Unwoken
    <3>4. WakeupTypeOK' /\ SystemRunIsEnabled' /\ ParkedMayPark'
      BY <2>2, <3>1, <3>2 DEF WakeupInv, WakeupTypeOK, SystemRunIsEnabled, ParkedMayPark, Request
    <3>5. SleeperIsRegistered' /\ NothingHeldMeanwhile'
      BY <3>1, <3>3 DEF WakeupInv, SleeperIsRegistered, NothingHeldMeanwhile, Holds
    <3>6. SleeperHasUnfenced'
      BY <3>1, <3>2, <3>3 DEF WakeupInv, SleeperHasUnfenced, Fenced
    <3>7. ~Claimable'
      BY <2>2, <3>1 DEF Claimable, Queued, WakeupInv, ParkedMayPark
    <3> QED BY <3>4, <3>5, <3>6, <3>7 DEF WakeupInv, NoLostWakeup
  <2>3. CASE ~(Claimable /\ ~req[q].names) /\ ~req[q].long
    <3>1. /\ PollEnds(q) /\ req[q].at = "claim" /\ before' = before \ {q}
          /\ UNCHANGED <<row, slot, busy, firing, waking>>
      BY <1>4, <2>3 DEF PollClaims, RequestAt
    <3>2. Holds' => \A p \in Connections \ {q} : ~Unwoken(p)
      BY <3>1 DEF WakeupInv, NothingHeldMeanwhile, Holds
    <3>3. ParkedMayPark' /\ SleeperIsRegistered' /\ NothingHeldMeanwhile' /\ SleeperHasUnfenced'
      BY <3>1, <3>2, EndingKeepsRequests DEF Fenced
    <3>4. WakeupTypeOK' /\ SystemRunIsEnabled'
      BY <3>1, EndingFits DEF WakeupInv, WakeupTypeOK, SystemRunIsEnabled, Request
    <3>5. ASSUME NEW p \in Connections, req'[p].at = "wait", req'[p].outcome = "open", Claimable'
          PROVE  Hinting'
      <4>1. Claimable /\ req[q].names
        BY <2>3, <3>1, <3>5 DEF Claimable, Queued
      <4>2. p # q /\ req[p].at = "wait" /\ req[p].outcome = "open"
        BY <3>1, <3>5, EndingFits
      <4>3. Hinting
        BY <4>1, <4>2 DEF WakeupInv, NoLostWakeup, RequestAt
      <4> QED BY <3>1, <4>1, <4>3, EndingFits DEF Hinting, InHand
    <3> QED BY <3>3, <3>4, <3>5 DEF WakeupInv, NoLostWakeup, RequestAt
  <2> QED BY <2>1, <2>2, <2>3
<1> QED BY <1>1, <1>2, <1>3, <1>4 DEF PollStep

LEMMA ParksKeepWakeups ==
  ASSUME WakeupInv, NEW q \in Connections, Park(q)
  PROVE  WakeupInv'
<1>1. CASE Woken(q)
  <2> DEFINE k == [NoRequest EXCEPT !.at = "online"]
  <2>1. k \in Request /\ k.at = "online" /\ k.long = FALSE /\ k.names = FALSE
    BY DEF NoRequest, Request
  <2>2. req' = [req EXCEPT ![q] = k] /\ UNCHANGED <<row, slot, busy, listening, before>>
    BY <1>1 DEF Woken
  <2>3. waiter' \in Connections \cup {NoConnection} /\ (waiter # q => waiter' = waiter)
    BY <1>1 DEF Woken, WakeupInv, WakeupTypeOK
  <2> HIDE DEF k
  <2>4. WakeupTypeOK' /\ SystemRunIsEnabled' /\ ParkedMayPark'
    BY <2>1, <2>2, <2>3 DEF WakeupInv, WakeupTypeOK, SystemRunIsEnabled, ParkedMayPark, Request
  <2>5. \A p \in Connections : Unwoken(p)' => p # q /\ Unwoken(p)
    BY <2>1, <2>2 DEF Unwoken, WakeupInv, WakeupTypeOK
  <2>6. SleeperIsRegistered' /\ NothingHeldMeanwhile' /\ SleeperHasUnfenced'
    BY <2>2, <2>3, <2>5 DEF WakeupInv, WakeupTypeOK, SleeperIsRegistered, NothingHeldMeanwhile,
      SleeperHasUnfenced, Holds, Fenced
  <2>7. Hinting'
    BY <2>1, <2>2 DEF Hinting, InHand, WakeupInv, WakeupTypeOK
  <2> QED BY <2>4, <2>6, <2>7 DEF WakeupInv, NoLostWakeup
<1>2. CASE WaitEnds(q)
  <2>1. /\ PollEnds(q) /\ before' = before \ {q} /\ req[q].at = "wait"
        /\ UNCHANGED <<row, slot, busy, firing, waking>>
    BY <1>2 DEF WaitEnds, RequestAt
  <2>2. Holds' => \A p \in Connections \ {q} : ~Unwoken(p)
    BY <2>1 DEF WakeupInv, NothingHeldMeanwhile, Holds
  <2>3. ParkedMayPark' /\ SleeperIsRegistered' /\ NothingHeldMeanwhile' /\ SleeperHasUnfenced'
    BY <2>1, <2>2, EndingKeepsRequests DEF Fenced
  <2>4. WakeupTypeOK' /\ SystemRunIsEnabled'
    BY <2>1, EndingFits DEF WakeupInv, WakeupTypeOK, SystemRunIsEnabled, Request
  <2>5. NoLostWakeup'
    BY <2>1, EndingFits DEF WakeupInv, NoLostWakeup, RequestAt, Hinting, InHand, Claimable, Queued
  <2> QED BY <2>3, <2>4, <2>5 DEF WakeupInv
<1> QED BY <1>1, <1>2 DEF Park

\* Nobody is listening then, and what the daemon forgets fences as before.
LEMMA DaemonsKeepWakeups ==
  ASSUME WakeupInv, GiveUpPoll \/ DaemonRestarts
  PROVE  WakeupInv'
<1>1. /\ listening' = NoConnection
      /\ UNCHANGED <<row, slot, firing, waking, req, waiter, before>>
  BY DEF GiveUpPoll, DaemonRestarts, Abandon
<1>2. busy' \in Busy /\ (Holds' => Holds) /\ (Fenced' => Fenced) /\ (Claimable' => Claimable)
  BY <1>1 DEF GiveUpPoll, DaemonRestarts, WakeupInv, WakeupTypeOK, Busy, Holds, Fenced, Claimable,
    Queued
<1>3. WakeupTypeOK' /\ SystemRunIsEnabled' /\ ParkedMayPark'
  BY <1>1, <1>2 DEF WakeupInv, WakeupTypeOK, SystemRunIsEnabled, ParkedMayPark
<1>4. SleeperIsRegistered' /\ NothingHeldMeanwhile' /\ SleeperHasUnfenced'
  BY <1>1, <1>2 DEF WakeupInv, SleeperIsRegistered, NothingHeldMeanwhile, SleeperHasUnfenced, Unwoken
<1>5. NoLostWakeup'
  BY <1>1, <1>2 DEF WakeupInv, NoLostWakeup, RequestAt, Hinting, InHand
<1> QED BY <1>3, <1>4, <1>5 DEF WakeupInv

-----------------------------------------------------------------------------
(* The theorems.                                                           *)

LEMMA WakeupsStart ==
  ASSUME WakeupInit
  PROVE  WakeupInv
<1>1. \A q \in Connections : req[q].at = "idle"
  BY DEF WakeupInit, NoRequest
<1>2. WakeupTypeOK /\ SystemRunIsEnabled
  BY DEF WakeupInit, NoRequest, WakeupTypeOK, SystemRunIsEnabled
<1>3. ParkedMayPark
  BY DEF WakeupInit, NoRequest, ParkedMayPark
<1> QED BY <1>1, <1>2, <1>3 DEF WakeupInv, SleeperIsRegistered, NothingHeldMeanwhile,
  SleeperHasUnfenced, NoLostWakeup, Unwoken, RequestAt

LEMMA WakeupsStep ==
  ASSUME WakeupInv, [WakeupNext]_wvars
  PROVE  WakeupInv'
<1>1. CASE \E q \in Connections : SendPoll(q) \/ PollStep(q) \/ Park(q)
  BY <1>1, SendKeepsWakeups, PollsKeepWakeups, ParksKeepWakeups
<1>2. CASE OwnerStep \/ TimerStep \/ GiveUpPoll \/ DaemonRestarts
  BY <1>2, OwnerKeepsWakeups, TimersKeepWakeups, DaemonsKeepWakeups
<1>3. CASE \/ ReportRun \/ SweepReclaims \/ GraceEnds
           \/ SweepReadsQueued \/ ExpireQueued \/ CadenceComes
  BY <1>3, OthersKeepWakeups
<1>4. CASE UNCHANGED wvars
  BY <1>4 DEF wvars, WakeupInv, WakeupTypeOK, SystemRunIsEnabled, ParkedMayPark,
    SleeperIsRegistered, NothingHeldMeanwhile, SleeperHasUnfenced, NoLostWakeup, Unwoken, RequestAt,
    Hinting, InHand, Claimable, Queued, Holds, Fenced
<1> QED BY <1>1, <1>2, <1>3, <1>4 DEF WakeupNext

\* However many requests the server has in hand, abandoned ones included, a poll that is
\* parked and was not woken never waits beside a run it could take unless the wake, or a
\* request that will take the run, is on its way (pollV4Wait, armPollWaiter, wakeMachine).
THEOREM SleepersAreWoken ==
  WakeupSpec => []NoLostWakeup
<1>1. WakeupInit => WakeupInv
  BY WakeupsStart
<1>2. WakeupInv /\ [WakeupNext]_wvars => WakeupInv'
  BY WakeupsStep
<1>3. WakeupInv => NoLostWakeup
  BY DEF WakeupInv
<1> QED BY <1>1, <1>2, <1>3, PTL DEF WakeupSpec

\* A run the owner asked for leaves the queue only by being claimed: neither a pause, nor
\* advanceDueSchedules, nor an expiry decided on an older row (expirePendingRun) takes it.
THEOREM OwnersRunStands ==
  WakeupSpec => OwnersRunIsTaken
<1>1. ASSUME slot = "owner", slot' # "owner", WakeupNext
      PROVE  busy \in {"no", "over"} /\ Running'
  <2>1. \A who : ~Enqueued(who)
    BY <1>1 DEF Enqueued
  <2>2. ~AdvanceDue
    BY <1>1, <2>1 DEF AdvanceDue
  <2>3. ~OwnerStep
    BY <1>1, <2>1 DEF OwnerStep, RunNow, RunNowWakes, Pause, PausedSlot, StartLoop
  <2>4. ~TimerStep
    BY <1>1, <2>2 DEF TimerStep, Fire, FireAdvances, FireWakes
  <2>5. ~(\/ GiveUpPoll \/ DaemonRestarts \/ ReportRun \/ SweepReclaims \/ GraceEnds
          \/ SweepReadsQueued \/ CadenceComes)
    BY <1>1 DEF GiveUpPoll, DaemonRestarts, Abandon, ReportRun, PausedSlot, SweepReclaims, GraceEnds,
      SweepReadsQueued, CadenceComes
  <2>6. ~ExpireQueued
    BY <1>1 DEF ExpireQueued, Unwritten
  <2>7. \A q \in Connections : ~SendPoll(q) /\ ~Park(q)
    BY <1>1 DEF SendPoll, Park, Woken, WaitEnds
  <2>8. PICK q \in Connections : PollStep(q)
    BY <1>1, <2>3, <2>4, <2>5, <2>6, <2>7 DEF WakeupNext
  <2>9. PollClaims(q)
    BY <1>1, <2>2, <2>8 DEF PollStep, PollOnline, PollAdvances, PollHints
  <2> QED BY <1>1, <2>9 DEF PollClaims, Claimable, Running
<1>2. [WakeupNext]_wvars => [slot = "owner" /\ slot' # "owner" => busy \in {"no", "over"} /\ Running']_wvars
  BY <1>1
<1> QED BY <1>2, PTL DEF WakeupSpec, OwnersRunIsTaken
=============================================================================
