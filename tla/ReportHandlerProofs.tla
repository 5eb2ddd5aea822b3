------------------------ MODULE ReportHandlerProofs -------------------------
(***************************************************************************)
(* Proofs about ReportHandler, for any number of runs, reports, handlers   *)
(* and restarts: whatever the steps of report() interleave with, the       *)
(* tables change only as RunStore allows, an acknowledgement is backed by  *)
(* evidence, and the history says what was acknowledged.                   *)
(***************************************************************************)
EXTENDS ReportHandler, RunStoreProofs

-----------------------------------------------------------------------------
(* The invariant.  A handler acts on what it has read.  That is safe since *)
(* all it remembers is about evidence, which stays: Sound says so of each  *)
(* step.  History holds because a canceled run was canceled by a report of *)
(* its own, so that a report that finds it canceled finds its receipt.     *)

Sound(row) ==
  /\ row.run \in Runs \/ row = Idle
  /\ row.at \in {"cleanup", "unlease", "answer"} /\ row.answer \in Verdicts =>
       Backed(row.run, row.answer)
  /\ row.at \in {"ignore", "unlease"} => Backed(row.run, "accepted")
  /\ row.at = "conflict" => \/ OwnedByAnother(body[row.run].id, row.run)
                            \/ Backed(row.run, "rejected")
  /\ row.at \in {"receipt", "incident", "incidents"} => row.why # "none"
  /\ row.receipt = "mine" => receipt[body[row.run].id].run = row.run
  /\ row.receipt = "foreign" => receipt[body[row.run].id].run \notin {NoRun, row.run}

History ==
  /\ \A r \in Runs :
       /\ run[r].phase \notin {"unborn", "pending"}
       /\ run[r].phase = "canceled" => Backed(r, "accepted")
       /\ lease[r].elapsed => lease[r].state \in {"terminal-grace", "reconciliation-only"}
  /\ \A rid \in ReportIds : receipt[rid].run # NoRun => receipt[rid].status \in {200, 410}
  /\ HistoryFollowsVerdict

Acknowledged == \A r \in Runs : acked[r] \in Verdicts => Backed(r, acked[r])

TablesInv == TypeInv /\ Authority /\ EvidenceInv /\ History
HandlerInv == /\ TablesInv /\ HandlerTypeOK /\ Acknowledged
              /\ \A h \in Handlers : Sound(hd[h])

\* A run has a report, with an outcome.
LEMMA BodyType ==
  ASSUME HandlerTypeOK, NEW r \in Runs
  PROVE  /\ body[r].id \in ReportIds /\ body[r].valid \in BOOLEAN
         /\ body[r].outcome \in Outcomes /\ r # NoRun
<1>1. body[r] \in [id : ReportIds, valid : BOOLEAN, outcome : Results]
  BY DEF HandlerTypeOK, Reports
<1> QED
  BY <1>1, HandlerAssumption DEF Runs, NoRun

-----------------------------------------------------------------------------
(* Evidence stays, and with it whatever a handler remembers of it.         *)

LEMMA BackedStays ==
  ASSUME HandlerTypeOK, EvidenceStays, body' = body, NEW r \in Runs, NEW v \in Verdicts,
         Backed(r, v)
  PROVE  Backed(r, v)'
<1>1. body[r].id \in ReportIds /\ r # NoRun
  BY BodyType
<1>2. v \in {"accepted", "retired", "rejected"}
  BY DEF Verdicts
<1> QED
  BY <1>1, <1>2 DEF EvidenceStays, Backed

LEMMA SoundStays ==
  ASSUME HandlerTypeOK, EvidenceStays, body' = body, NEW row \in Handler, Sound(row)
  PROVE  Sound(row)'
<1>1. CASE row.run \in Runs
  <2>1. body[row.run].id \in ReportIds /\ row.run # NoRun
    BY <1>1, BodyType
  <2>2. \A v \in Verdicts : Backed(row.run, v) => Backed(row.run, v)'
    BY <1>1, BackedStays
  <2>3. OwnedByAnother(body[row.run].id, row.run)
          => OwnedByAnother(body[row.run].id, row.run)'
    BY <2>1 DEF OwnedByAnother, EvidenceStays
  <2>4. {"accepted", "rejected"} \subseteq Verdicts
    BY DEF Verdicts
  <2> QED
    BY <1>1, <2>1, <2>2, <2>3, <2>4 DEF Sound, EvidenceStays
<1>2. CASE row.run \notin Runs
  <2>1. row = Idle
    BY <1>2 DEF Sound
  <2> QED
    BY <2>1 DEF Sound, Idle, Verdicts
<1> QED
  BY <1>1, <1>2

-----------------------------------------------------------------------------
(* The moves of a handler.                                                 *)

Moved(h) == /\ UNCHANGED <<body, acked, restarts>>
            /\ \E row \in Handler : hd' = [hd EXCEPT ![h] = row] /\ Sound(row)'

\* A handler that forgets what it has read keeps its run, and perhaps an answer.
LEMMA LeaveMoves ==
  ASSUME HandlerTypeOK, NEW h \in Handlers, NEW r \in Runs, r = R(h),
         NEW step \in Steps \ {"idle", "receipt", "incident", "incidents"},
         NEW a \in Verdicts \cup {"none", "refused"},
         Leave(h, step, a),
         step \in {"cleanup", "unlease", "answer"} /\ a \in Verdicts => Backed(r, a)',
         step \in {"ignore", "unlease"} => Backed(r, "accepted")',
         step = "conflict" => OwnedByAnother(body[r].id, r)' \/ Backed(r, "rejected")'
  PROVE  Moved(h)
<1> DEFINE row == [Idle EXCEPT !.at = step, !.run = r, !.answer = a]
<1>1. hd' = [hd EXCEPT ![h] = row] /\ UNCHANGED <<body, acked, restarts>>
  BY DEF Leave
<1>2. /\ row.at = step /\ row.run = r /\ row.answer = a /\ row.receipt = "none"
      /\ row \in Handler
  BY DEF Idle, Handler, Reasons, Steps
<1> HIDE DEF row
<1>3. Sound(row)'
  BY <1>2 DEF Sound
<1> QED
  BY <1>1, <1>2, <1>3 DEF Moved

\* A handler that does not say anything definitive yet.
LEMMA DropMoves ==
  ASSUME HandlerTypeOK, NEW h \in Handlers, NEW r \in Runs, r = R(h),
         \/ Reply(h, "refused")
         \/ \E step \in {"retire", "winner", "tail"} : Drop(h, step)
  PROVE  Moved(h)
<1>1. CASE Reply(h, "refused")
  BY <1>1, LeaveMoves DEF Reply, Steps, Verdicts
<1>2. ASSUME NEW step \in {"retire", "winner", "tail"}, Drop(h, step)
      PROVE  Moved(h)
  BY <1>2, LeaveMoves DEF Drop, Steps, Verdicts
<1> QED
  BY <1>1, <1>2

\* A handler that goes on with what it has read.
LEMMA GoesOn ==
  ASSUME HandlerTypeOK, NEW h \in Handlers, NEW row \in Handler, Sound(row)',
         hd' = [hd EXCEPT ![h] = row], UNCHANGED <<body, acked, restarts>>
  PROVE  Moved(h)
  BY DEF Moved

\* The facts a handler that serves a run may use, before and after the step.
LEMMA ServesRun ==
  ASSUME HandlerInv, NEW h \in Handlers, hd[h].at # "idle"
  PROVE  /\ R(h) \in Runs /\ hd[h] \in Handler /\ Sound(hd[h])
         /\ Rid(h) = body[R(h)].id /\ Rid(h) \in ReportIds
<1>1. hd[h] \in Handler /\ Sound(hd[h])
  BY DEF HandlerInv, HandlerTypeOK
<1>2. R(h) \in Runs
  BY <1>1 DEF Sound, Idle, R
<1> QED
  BY <1>1, <1>2, BodyType DEF HandlerInv, Rid

\* What a handler still holds after it has noted something.
LEMMA Noting ==
  ASSUME NEW row \in Handler, NEW step \in Steps, NEW reason \in Reasons
  PROVE  /\ [row EXCEPT !.at = step, !.why = reason] \in Handler
         /\ [row EXCEPT !.at = step, !.why = reason].run = row.run
         /\ [row EXCEPT !.at = step, !.why = reason].at = step
         /\ [row EXCEPT !.at = step, !.why = reason].receipt = row.receipt
  BY DEF Handler

-----------------------------------------------------------------------------
(* The history after a step.                                               *)

\* A step that answers nothing may give up what executes, and drop rows.
LEMMA SilentHistory ==
  ASSUME TablesInv, HandlerTypeOK, UNCHANGED <<receipt, incident, body>>,
         \A q \in Runs :
           /\ \/ run'[q].phase \in {run[q].phase, "deleted"}
              \/ lease[q].state = "active" /\ run'[q].phase = "error"
           /\ lease'[q].elapsed => lease'[q].state \in {"terminal-grace", "reconciliation-only"}
  PROVE  History'
<1>1. \A q \in Runs : body[q].id \in ReportIds
  BY BodyType
<1>2. \A q \in Runs : lease[q].state = "active" =>
        receipt[body[q].id].run # q /\ <<body[q].id, q>> \notin incident
  BY <1>1 DEF TablesInv, EvidenceInv, EvidenceConsumes
<1>3. HistoryFollowsVerdict'
  BY <1>2 DEF TablesInv, History, HistoryFollowsVerdict
<1>4. \A q \in Runs : Backed(q, "accepted")' <=> Backed(q, "accepted")
  BY DEF Backed
<1> QED
  BY <1>3, <1>4 DEF TablesInv, History

\* A report answers for its run, and for no other.
LEMMA ReportHistory ==
  ASSUME TablesInv, HandlerTypeOK, body' = body, NEW r \in Runs, NEW rid, rid = body[r].id,
         lease[r].state # "consumed", Consume(r),
         \A q \in Runs \ {r} : run'[q].phase = run[q].phase,
         \/ /\ Answer(r, rid, 200) /\ UNCHANGED incident /\ receipt[rid].run \in {NoRun, r}
            /\ run'[r].phase = PhaseOf(body[r].outcome)
         \/ /\ Answer(r, rid, 410) /\ UNCHANGED incident /\ receipt[rid].run \in {NoRun, r}
            /\ run'[r].phase = run[r].phase
         \/ /\ incident' = incident \cup {<<rid, r>>} /\ UNCHANGED receipt
            /\ run'[r].phase \in {"error", "deleted"}
  PROVE  History'
<1>1. \A q \in Runs : body[q].id \in ReportIds /\ q # NoRun
  BY BodyType
<1>2. receipt[rid].run # r /\ <<rid, r>> \notin incident
  BY <1>1 DEF TablesInv, EvidenceInv, EvidenceConsumes
<1>3. /\ lease'[r] = [state |-> "consumed", elapsed |-> FALSE]
      /\ \A q \in Runs \ {r} : lease'[q] = lease[q]
  BY DEF Consume, TablesInv, TypeInv, TypeOK
<1>4. \A q \in Runs \ {r} :
        /\ receipt'[body[q].id].run = q <=> receipt[body[q].id].run = q
        /\ receipt'[body[q].id].run = q => receipt'[body[q].id] = receipt[body[q].id]
        /\ <<body[q].id, q>> \in incident' <=> <<body[q].id, q>> \in incident
  BY <1>1, <1>2 DEF Answer, TablesInv, TypeInv, TypeOK
<1>5. \A rid2 \in ReportIds : receipt'[rid2].run # NoRun => receipt'[rid2].status \in {200, 410}
  BY <1>1 DEF TablesInv, History, Answer, TypeInv, TypeOK
<1>6. /\ run'[r].phase \notin {"unborn", "pending"}
      /\ run'[r].phase = "canceled" => receipt'[rid] = [run |-> r, status |-> 200]
      /\ run'[r].phase # "deleted" =>
           /\ receipt'[rid] = [run |-> r, status |-> 200]
                => run'[r].phase = PhaseOf(body[r].outcome)
           /\ <<rid, r>> \in incident' => run'[r].phase = "error"
  <2>1. run[r].phase \notin {"unborn", "pending", "canceled"}
    <3>1. run[r].phase # "canceled"
      <4>1. run[r].phase = "canceled" => Backed(r, "accepted")
        BY DEF TablesInv, History
      <4>2. ~Backed(r, "accepted")
        BY <1>2 DEF Backed
      <4> QED
        BY <4>1, <4>2
    <3> QED
      BY <3>1 DEF TablesInv, History
  <2>2. PhaseOf(body[r].outcome) \in Terminal
    BY BodyType DEF PhaseOf, Outcomes, Terminal
  <2> QED
    BY <1>1, <1>2, <2>1, <2>2 DEF Answer, TablesInv, TypeInv, TypeOK, Terminal
<1>7. HistoryFollowsVerdict'
  BY <1>1, <1>4, <1>6 DEF TablesInv, History, HistoryFollowsVerdict
<1>8. \A q \in Runs : run'[q].phase = "canceled" => Backed(q, "accepted")'
  <2> SUFFICES ASSUME NEW q \in Runs, run'[q].phase = "canceled"
               PROVE  Backed(q, "accepted")'
    OBVIOUS
  <2>1. CASE q = r
    BY <1>6, <2>1 DEF Backed
  <2>2. CASE q # r
    <3>1. Backed(q, "accepted")
      BY <2>2 DEF TablesInv, History
    <3>2. receipt[body[q].id].run = q
      BY <3>1 DEF Backed
    <3>3. receipt'[body[q].id] = receipt[body[q].id]
      BY <1>4, <2>2, <3>2
    <3> QED
      BY <3>1, <3>3 DEF Backed
  <2> QED
    BY <2>1, <2>2
<1> QED
  BY <1>3, <1>5, <1>6, <1>7, <1>8 DEF TablesInv, History

-----------------------------------------------------------------------------
(* Steps that read, and may find that authority has run out.               *)

\* A handler that goes on reading, and says nothing yet.
LEMMA ReadingMoves ==
  ASSUME HandlerTypeOK, EvidenceStays, UNCHANGED <<body, acked, restarts>>,
         NEW h \in Handlers, NEW row \in Handler, Sound(row), row.run \in Runs,
         NEW n \in Handler, n.run = row.run, n.receipt \in {"none", row.receipt},
         n.at \notin {"idle", "cleanup", "unlease", "answer", "ignore", "conflict"},
         n.at \in {"receipt", "incident", "incidents"} => n.why # "none",
         hd' = [hd EXCEPT ![h] = n]
  PROVE  Moved(h)
<1>1. Sound(row)'
  BY SoundStays
<1>2. Sound(n)'
  BY <1>1 DEF Sound
<1> QED
  BY <1>2 DEF Moved

Quietly == {"resolve", "receipt", "incident", "incidents", "run", "finalize", "reconcile",
            "reread", "reresolve", "reject"}

LEMMA GotoMoves ==
  ASSUME HandlerTypeOK, EvidenceStays, NEW h \in Handlers, NEW row \in Handler, row = hd[h],
         Sound(row), row.run \in Runs, NEW step \in Quietly,
         \/ /\ Goto(h, step)
            /\ step \in {"receipt", "incident", "incidents"} => row.why # "none"
         \/ step \notin {"receipt", "incident", "incidents"} /\ Resume(h, step)
         \/ step = "receipt" /\ \E reason \in Reasons \ {"none"} : Ask(h, reason)
  PROVE  Moved(h)
<1>1. \A n \in Handler : n.run = row.run /\ n.at = step /\ n.receipt \in {"none", row.receipt}
         /\ (step \in {"receipt", "incident", "incidents"} => n.why # "none")
         /\ hd' = [hd EXCEPT ![h] = n] /\ UNCHANGED <<body, acked, restarts>> => Moved(h)
  BY ReadingMoves DEF Quietly
<1>2. CASE /\ Goto(h, step)
           /\ step \in {"receipt", "incident", "incidents"} => row.why # "none"
  <2> DEFINE n == [row EXCEPT !.at = step]
  <2>1. /\ n \in Handler /\ n.run = row.run /\ n.at = step /\ n.receipt = row.receipt
        /\ n.why = row.why
    BY DEF Handler, Steps, Quietly
  <2>2. hd' = [hd EXCEPT ![h] = n] /\ UNCHANGED <<body, acked, restarts>>
    BY <1>2 DEF Goto
  <2> HIDE DEF n
  <2> QED
    BY <1>1, <1>2, <2>1, <2>2
<1>3. CASE step \notin {"receipt", "incident", "incidents"} /\ Resume(h, step)
  <2> DEFINE n == [row EXCEPT !.at = step, !.why = "none", !.receipt = "none"]
  <2>0. step \in Steps
    BY DEF Quietly, Steps
  <2>1. n \in Handler /\ n.run = row.run /\ n.at = step /\ n.receipt = "none"
    <3> DEFINE m == [row EXCEPT !.at = step, !.why = "none"]
    <3>1. m \in Handler /\ m.run = row.run /\ m.at = step
      BY <2>0, Noting DEF Reasons
    <3>2. n = [m EXCEPT !.receipt = "none"]
      OBVIOUS
    <3> HIDE DEF m, n
    <3> QED
      BY <3>1, <3>2 DEF Handler
  <2>2. hd' = [hd EXCEPT ![h] = n] /\ UNCHANGED <<body, acked, restarts>>
    BY <1>3 DEF Resume, HandlerTypeOK
  <2> HIDE DEF n
  <2> QED
    BY <1>1, <1>3, <2>1, <2>2
<1>4. ASSUME NEW reason \in Reasons \ {"none"}, Ask(h, reason), step = "receipt"
      PROVE  Moved(h)
  <2> DEFINE n == [row EXCEPT !.at = step, !.why = reason]
  <2>1. /\ n \in Handler /\ n.run = row.run /\ n.at = step /\ n.receipt = row.receipt
        /\ n.why = reason
    <3>1. step \in Steps
      BY DEF Quietly, Steps
    <3> QED
      BY <3>1 DEF Handler
  <2>2. hd' = [hd EXCEPT ![h] = n] /\ UNCHANGED <<body, acked, restarts>>
    BY <1>4 DEF Ask, HandlerTypeOK
  <2> HIDE DEF n
  <2> QED
    BY <1>1, <2>1, <2>2
<1> QED
  BY <1>2, <1>3, <1>4

\* Looking changes nothing, and the clock only what is not on record.
LEMMA StillTables ==
  ASSUME TablesInv, HandlerTypeOK, UNCHANGED <<vars, body>>
  PROVE  [Next]_vars /\ History' /\ EvidenceStays
<1>1. UNCHANGED vars /\ UNCHANGED <<run, lease, receipt, incident, body>>
  BY DEF vars
<1>2. History'
  BY <1>1, SilentHistory DEF TablesInv, History
<1> QED
  BY <1>1, <1>2 DEF EvidenceStays

LEMMA RetiringTables ==
  ASSUME TablesInv, HandlerTypeOK, body' = body, NEW r \in Runs, RetireElapsed(r)
  PROVE  [Next]_vars /\ History' /\ EvidenceStays
<1>1. Next
  BY DEF Next, RunStep
<1>2. /\ UNCHANGED <<run, receipt, incident>>
      /\ \A q \in Runs : lease'[q] = lease[q] \/ ~lease'[q].elapsed
  BY DEF RetireElapsed, TablesInv, TypeInv, TypeOK
<1>3. History'
  BY <1>2, SilentHistory DEF TablesInv, History
<1> QED
  BY <1>1, <1>2, <1>3 DEF EvidenceStays

LEMMA ResolvingTables ==
  ASSUME TablesInv, HandlerTypeOK, body' = body, NEW r \in Runs, ResolveLease(r)
  PROVE  [Next]_vars /\ History' /\ EvidenceStays
  BY StillTables, RetiringTables DEF ResolveLease

\* What a lease resolves to.
LEMMA LeaseNowType ==
  ASSUME TablesInv, NEW r \in Runs
  PROVE  LeaseNow(r) \in {"none", "active", "terminal-grace", "reconciliation-only", "retired"}
<1>1. lease[r] \in LeaseRow
  BY DEF TablesInv, TypeInv, TypeOK
<1> QED
  BY <1>1 DEF LeaseNow, LeaseRow

-----------------------------------------------------------------------------
(* The steps of a handler, one lemma each family.                          *)

Good(h) == [Next]_vars /\ History' /\ EvidenceStays /\ Moved(h)

LEMMA ResolveGood ==
  ASSUME HandlerInv, NEW h \in Handlers, NEW row \in Handler, row = hd[h], Sound(row),
         NEW r \in Runs, r = row.run, Resolve(h)
  PROVE  Good(h)
<1>1. R(h) = r /\ UNCHANGED <<body, acked, restarts>> /\ ResolveLease(r)
  BY DEF Resolve, R
<1>2. [Next]_vars /\ History' /\ EvidenceStays
  BY <1>1, ResolvingTables DEF HandlerInv
<1> DEFINE reason == IF LeaseNow(r) = "none" THEN "replay" ELSE "report"
           n == [row EXCEPT !.at = "receipt", !.seen = LeaseNow(r), !.why = reason]
<1>3. /\ n \in Handler /\ n.run = r /\ n.at = "receipt" /\ n.receipt = row.receipt
      /\ n.why # "none"
  <2>1. LeaseNow(r) \in {"none", "active", "terminal-grace", "reconciliation-only", "retired"}
    BY LeaseNowType DEF HandlerInv
  <2>2. "receipt" \in Steps /\ reason \in Reasons /\ reason # "none"
    BY DEF Steps, Reasons
  <2> HIDE DEF reason
  <2> DEFINE m == [row EXCEPT !.at = "receipt", !.why = reason]
  <2>3. /\ m \in Handler /\ m.run = r /\ m.at = "receipt" /\ m.receipt = row.receipt
        /\ m.why # "none"
    BY <2>2 DEF Handler
  <2>4. n = [m EXCEPT !.seen = LeaseNow(r)]
    OBVIOUS
  <2> HIDE DEF m, n, reason
  <2> QED
    BY <2>1, <2>3, <2>4 DEF Handler
<1>4. hd' = [hd EXCEPT ![h] = n]
  BY <1>1 DEF Resolve, HandlerInv, HandlerTypeOK
<1> HIDE DEF n
<1>5. Moved(h)
  BY <1>1, <1>2, <1>3, <1>4, ReadingMoves DEF HandlerInv
<1> QED
  BY <1>2, <1>5 DEF Good

-----------------------------------------------------------------------------
(* The evidence is read.                                                   *)

LEMMA ReadReceiptGood ==
  ASSUME HandlerInv, NEW h \in Handlers, NEW row \in Handler, row = hd[h], Sound(row),
         NEW r \in Runs, r = row.run, ReadReceipt(h)
  PROVE  Good(h)
<1>1. [Next]_vars /\ History' /\ EvidenceStays
  BY StillTables DEF ReadReceipt, HandlerInv
<1>2. Owner(h) \in {"none", "mine", "foreign"}
  BY DEF Owner
<1>3. PICK n \in Handler : /\ n = [row EXCEPT !.at = "incident", !.receipt = Owner(h)]
                           /\ n.run = r /\ n.at = "incident" /\ n.receipt = Owner(h)
                           /\ n.why = row.why
  <2> DEFINE m == [row EXCEPT !.at = "incident"]
             n == [row EXCEPT !.at = "incident", !.receipt = Owner(h)]
  <2>1. "incident" \in Steps
    BY DEF Steps
  <2>2. m \in Handler /\ m.run = r /\ m.at = "incident" /\ m.why = row.why
    BY <2>1 DEF Handler
  <2>3. n = [m EXCEPT !.receipt = Owner(h)]
    OBVIOUS
  <2> HIDE DEF m
  <2>4. /\ n \in Handler /\ n.run = r /\ n.at = "incident" /\ n.receipt = Owner(h)
        /\ n.why = row.why
    BY <1>2, <2>2, <2>3 DEF Handler
  <2> QED
    BY <2>4
<1>4. hd' = [hd EXCEPT ![h] = n] /\ UNCHANGED <<body, acked, restarts, receipt>>
  BY <1>3 DEF ReadReceipt, HandlerInv, HandlerTypeOK, vars
<1>5. R(h) = r /\ Rid(h) = body[r].id /\ n.receipt = Owner(h)
  BY <1>3 DEF R, Rid
<1>6. /\ Owner(h) = "mine" => receipt[body[r].id].run = r
      /\ Owner(h) = "foreign" => receipt[body[r].id].run \notin {NoRun, r}
  BY <1>5 DEF Owner
<1>7. row.why # "none"
  BY DEF Sound, ReadReceipt, At
<1>8. Sound(n)'
  BY <1>3, <1>4, <1>5, <1>6, <1>7 DEF Sound
<1> QED
  BY <1>1, <1>4, <1>8, GoesOn DEF Good, HandlerInv

\* What is replayed from a receipt is what the receipt says.
LEMMA ReplayIsBacked ==
  ASSUME HandlerInv, NEW r \in Runs, receipt[body[r].id].run = r
  PROVE  /\ Replayed(body[r].id) \in {"accepted", "retired"}
         /\ Backed(r, Replayed(body[r].id))
<1>1. body[r].id \in ReportIds /\ r # NoRun
  BY BodyType DEF HandlerInv
<1>2. receipt[body[r].id] \in ReceiptRow /\ receipt[body[r].id].status \in {200, 410}
  BY <1>1 DEF HandlerInv, TablesInv, History, TypeInv, TypeOK
<1>3. receipt[body[r].id] = [run |-> r, status |-> receipt[body[r].id].status]
  BY <1>2 DEF ReceiptRow
<1> QED
  BY <1>2, <1>3 DEF Replayed, Backed

\* A reply that looks at nothing but evidence that is there.
LEMMA ReplyGood ==
  ASSUME HandlerInv, NEW h \in Handlers, NEW r \in Runs, r = R(h),
         NEW a \in Verdicts \cup {"none", "refused"}, a \in Verdicts => Backed(r, a),
         Reply(h, a), UNCHANGED vars
  PROVE  Good(h)
<1>1. UNCHANGED <<body, acked, restarts>>
  BY DEF Reply, Leave
<1>2. [Next]_vars /\ History' /\ EvidenceStays
  BY <1>1, StillTables DEF HandlerInv
<1>3. a \in Verdicts => Backed(r, a)'
  BY <1>1, <1>2, BackedStays DEF HandlerInv
<1>4. Moved(h)
  BY <1>3, LeaveMoves DEF HandlerInv, Reply, Steps
<1> QED
  BY <1>2, <1>4 DEF Good

\* A handler that says nothing definitive, having looked only.
LEMMA QuietGood ==
  ASSUME HandlerInv, NEW h \in Handlers, NEW row \in Handler, row = hd[h], Sound(row),
         row.run \in Runs, UNCHANGED vars,
         \/ Reply(h, "refused")
         \/ \E step \in {"retire", "winner", "tail"} : Drop(h, step)
         \/ \E step \in Quietly \ {"receipt", "incident", "incidents"} :
              Goto(h, step) \/ Resume(h, step)
         \/ row.why # "none" /\ Goto(h, "incidents")
         \/ \E reason \in Reasons \ {"none"} : Ask(h, reason)
  PROVE  Good(h)
<1>1. UNCHANGED <<body, acked, restarts>>
  BY DEF Reply, Drop, Leave, Goto, Resume, Ask
<1>2. [Next]_vars /\ History' /\ EvidenceStays
  BY <1>1, StillTables DEF HandlerInv
<1>3. CASE \/ Reply(h, "refused")
           \/ \E step \in {"retire", "winner", "tail"} : Drop(h, step)
  BY <1>2, <1>3, DropMoves DEF Good, HandlerInv, R
<1>4. CASE \E step \in Quietly \ {"receipt", "incident", "incidents"} :
              Goto(h, step) \/ Resume(h, step)
  BY <1>2, <1>4, GotoMoves DEF Good, HandlerInv
<1>5. CASE row.why # "none" /\ Goto(h, "incidents")
  <2>1. "incidents" \in Quietly
    BY DEF Quietly
  <2> QED
    BY <1>2, <1>5, <2>1, GotoMoves DEF Good, HandlerInv
<1>6. CASE \E reason \in Reasons \ {"none"} : Ask(h, reason)
  <2>1. "receipt" \in Quietly
    BY DEF Quietly
  <2> QED
    BY <1>2, <1>6, <2>1, GotoMoves DEF Good, HandlerInv
<1> QED
  BY <1>3, <1>4, <1>5, <1>6

\* A handler that leaves for the conflict, or to ignore the report.
LEMMA EndsGood ==
  ASSUME HandlerInv, NEW h \in Handlers, NEW r \in Runs, r = R(h), UNCHANGED vars,
         \/ /\ Drop(h, "conflict")
            /\ OwnedByAnother(body[r].id, r) \/ Backed(r, "rejected")
         \/ Drop(h, "ignore") /\ Backed(r, "accepted")
  PROVE  Good(h)
<1>1. UNCHANGED <<body, acked, restarts>>
  BY DEF Drop, Leave
<1>2. [Next]_vars /\ History' /\ EvidenceStays
  BY <1>1, StillTables DEF HandlerInv
<1>3. UNCHANGED <<receipt, incident>>
  BY DEF vars
<1>4. /\ Backed(r, "accepted") => Backed(r, "accepted")'
      /\ Backed(r, "rejected") => Backed(r, "rejected")'
      /\ OwnedByAnother(body[r].id, r) => OwnedByAnother(body[r].id, r)'
  BY <1>1, <1>3 DEF Backed, OwnedByAnother
<1>5. CASE /\ Drop(h, "conflict")
           /\ OwnedByAnother(body[r].id, r) \/ Backed(r, "rejected")
  <2>1. /\ "conflict" \in Steps \ {"idle", "receipt", "incident", "incidents"}
        /\ "none" \notin Verdicts
    BY DEF Steps, Verdicts
  <2> QED
    BY <1>2, <1>4, <1>5, <2>1, LeaveMoves DEF Good, HandlerInv, Drop
<1>6. CASE Drop(h, "ignore") /\ Backed(r, "accepted")
  <2>1. /\ "ignore" \in Steps \ {"idle", "receipt", "incident", "incidents"}
        /\ "none" \notin Verdicts
    BY DEF Steps, Verdicts
  <2> QED
    BY <1>2, <1>4, <1>6, <2>1, LeaveMoves DEF Good, HandlerInv, Drop
<1> QED
  BY <1>5, <1>6

LEMMA ReadIncidentGood ==
  ASSUME HandlerInv, NEW h \in Handlers, NEW row \in Handler, row = hd[h], Sound(row),
         NEW r \in Runs, r = row.run, ReadIncident(h)
  PROVE  Good(h)
<1>1. UNCHANGED vars /\ R(h) = r /\ Rid(h) = body[r].id
  BY DEF ReadIncident, R, Rid
<1>2. row.why # "none"
  BY DEF Sound, ReadIncident, At
<1>3. CASE <<Rid(h), R(h)>> \in incident
  <2>1. Reply(h, "rejected") /\ Backed(r, "rejected")
    BY <1>1, <1>3 DEF ReadIncident, Backed
  <2> QED
    BY <1>1, <2>1, ReplyGood DEF Verdicts
<1>4. CASE <<Rid(h), R(h)>> \notin incident /\ hd[h].receipt = "mine"
  <2>1. Reply(h, Replayed(Rid(h)))
    BY <1>4 DEF ReadIncident
  <2>2. receipt[body[r].id].run = r
    BY <1>4 DEF Sound
  <2> QED
    BY <1>1, <2>1, <2>2, ReplayIsBacked, ReplyGood DEF Verdicts
<1>5. CASE <<Rid(h), R(h)>> \notin incident /\ hd[h].receipt # "mine"
  <2>1. Goto(h, "incidents")
    BY <1>5 DEF ReadIncident
  <2> QED
    BY <1>1, <1>2, <2>1, QuietGood
<1> QED
  BY <1>3, <1>4, <1>5

LEMMA ReadIncidentsGood ==
  ASSUME HandlerInv, NEW h \in Handlers, NEW row \in Handler, row = hd[h], Sound(row),
         NEW r \in Runs, r = row.run, ReadIncidents(h)
  PROVE  Good(h)
<1> DEFINE foreign == hd[h].receipt = "foreign" \/ ~NoIncident(Rid(h))
<1>1. UNCHANGED vars /\ R(h) = r /\ Rid(h) = body[r].id /\ Continue(h, foreign)
  BY DEF ReadIncidents, R, Rid
<1>2. row.why \in Reasons \ {"none"}
  BY DEF Sound, ReadIncidents, At, Handler
<1>3. foreign => OwnedByAnother(body[r].id, r) \/ Backed(r, "rejected")
  BY <1>1 DEF Sound, NoIncident, OwnedByAnother, Backed
<1> HIDE DEF foreign
<1>4. CASE hd[h].why = "replay" \/ hd[h].why = "refused"
  <2>1. Reply(h, "refused") \/ Drop(h, "tail")
    BY <1>1, <1>4 DEF Continue
  <2> QED
    BY <1>1, <2>1, QuietGood
<1>5. CASE hd[h].why = "report" /\ hd[h].seen = "retired"
  <2>1. (foreign /\ Drop(h, "conflict")) \/ Drop(h, "retire")
    BY <1>1, <1>5 DEF Continue, Retired
  <2> QED
    BY <1>1, <1>3, <2>1, QuietGood, EndsGood
<1>6. CASE hd[h].why = "report" /\ hd[h].seen # "retired"
  <2>1. Resume(h, "reject") \/ Resume(h, "run")
    BY <1>1, <1>6 DEF Continue
  <2> QED
    BY <1>1, <2>1, QuietGood DEF Quietly
<1>7. CASE hd[h].why = "raced"
  <2>1. Resume(h, "reject") \/ Reply(h, "refused")
    BY <1>1, <1>7 DEF Continue
  <2> QED
    BY <1>1, <2>1, QuietGood DEF Quietly
<1>8. CASE hd[h].why \in {"lost", "lost-late"}
  <2>1. Resume(h, "reject") \/ Goto(h, "reread")
    BY <1>1, <1>8 DEF Continue
  <2> QED
    BY <1>1, <2>1, QuietGood DEF Quietly
<1> QED
  BY <1>2, <1>4, <1>5, <1>6, <1>7, <1>8 DEF Reasons

LEMMA ReadRunGood ==
  ASSUME HandlerInv, NEW h \in Handlers, NEW row \in Handler, row = hd[h], Sound(row),
         NEW r \in Runs, r = row.run, ReadRun(h)
  PROVE  Good(h)
<1>1. UNCHANGED vars /\ R(h) = r /\ Route(h, run[r].phase)
  BY DEF ReadRun, R
<1>2. CASE run[r].phase = "canceled"
  <2>1. Drop(h, "ignore") /\ Backed(r, "accepted")
    BY <1>1, <1>2 DEF Route, HandlerInv, TablesInv, History
  <2> QED
    BY <1>1, <2>1, EndsGood
<1>3. CASE run[r].phase # "canceled"
  <2>1. Reply(h, "refused") \/ Goto(h, "reconcile") \/ Goto(h, "finalize")
    BY <1>1, <1>3 DEF Route
  <2> QED
    BY <1>1, <2>1, QuietGood DEF Quietly
<1> QED
  BY <1>2, <1>3

-----------------------------------------------------------------------------
(* The transactions.                                                       *)

\* No run waits in a queue, so what a settled run does to others does not show.
LEMMA OthersStay ==
  ASSUME TablesInv, NEW r \in Runs,
         \/ run' = [run EXCEPT ![r].phase = run'[r].phase] \/ UNCHANGED run
         \/ \E ph, block, streak : SettleRun(r, ph, block, streak)
  PROVE  \A q \in Runs \ {r} : run'[q].phase = run[q].phase
<1>1. ASSUME NEW ph, NEW block, NEW streak, SettleRun(r, ph, block, streak)
      PROVE  \A q \in Runs \ {r} : QuietRow(q)
  BY <1>1, SettleRunQuiet DEF TablesInv, TypeInv
<1> QED
  BY <1>1 DEF QuietRow, TablesInv, History, TypeInv, TypeOK

\* A transaction that answers, after which the handler cleans up or replies.
LEMMA AnswerGood ==
  ASSUME HandlerInv, NEW h \in Handlers, NEW r \in Runs, r = R(h), NEW a \in Verdicts,
         Next, History', Cleanup(h, a) \/ Reply(h, a), Backed(r, a)'
  PROVE  Good(h)
<1>1. EvidenceStays
  BY StepKeepsEvidence DEF HandlerInv, TablesInv
<1>2. {"cleanup", "answer"} \subseteq Steps \ {"idle", "receipt", "incident", "incidents"}
  BY DEF Steps
<1>3. Moved(h)
  BY <1>2, LeaveMoves DEF HandlerInv, Cleanup, Reply
<1> QED
  BY <1>1, <1>3 DEF Good

LEMMA FinalizeGood ==
  ASSUME HandlerInv, NEW h \in Handlers, NEW row \in Handler, row = hd[h], Sound(row),
         NEW r \in Runs, r = row.run, Finalize(h)
  PROVE  Good(h)
<1> DEFINE rid == body[r].id
           outcome == body[r].outcome
<1>1. R(h) = r /\ Rid(h) = rid /\ rid \in ReportIds /\ outcome \in Outcomes
  BY BodyType DEF R, Rid, HandlerInv
<1>2. CASE FinalizeRunningRun(r, rid, outcome) /\ Cleanup(h, "accepted")
  <2>1. Next
    BY <1>1, <1>2 DEF Next, ReportStep
  <2>2. \A q \in Runs \ {r} : run'[q].phase = run[q].phase
    BY <1>2, OthersStay DEF FinalizeRunningRun, HandlerInv
  <2>3. run'[r].phase = PhaseOf(outcome)
    BY <1>2, SettleRunQuiet DEF FinalizeRunningRun, HandlerInv, TablesInv, TypeInv
  <2>4. /\ lease[r].state # "consumed" /\ Consume(r) /\ Answer(r, rid, 200)
        /\ UNCHANGED incident /\ receipt[rid].run = NoRun /\ body' = body
    BY <1>2 DEF FinalizeRunningRun, Unanswered, Cleanup, Leave
  <2>5. History'
    BY <2>2, <2>3, <2>4, ReportHistory DEF HandlerInv
  <2>6. Backed(r, "accepted")'
    BY <1>1, <2>4 DEF Backed, Answer, HandlerInv, TablesInv, TypeInv, TypeOK
  <2> QED
    BY <1>1, <1>2, <2>1, <2>5, <2>6, AnswerGood DEF Verdicts
<1>3. CASE UNCHANGED vars /\ (Ask(h, "raced") \/ Ask(h, "lost"))
  BY <1>3, QuietGood DEF Reasons
<1> QED
  BY <1>1, <1>2, <1>3 DEF Finalize

LEMMA ReconcileGood ==
  ASSUME HandlerInv, NEW h \in Handlers, NEW row \in Handler, row = hd[h], Sound(row),
         NEW r \in Runs, r = row.run, Reconcile(h)
  PROVE  Good(h)
<1> DEFINE rid == body[r].id
           outcome == body[r].outcome
<1>1. R(h) = r /\ Rid(h) = rid /\ rid \in ReportIds /\ outcome \in Outcomes
  BY BodyType DEF R, Rid, HandlerInv
<1>2. CASE ReconcileReclaimedRun(r, rid, outcome) /\ Cleanup(h, "accepted")
  <2>1. Next
    BY <1>1, <1>2 DEF Next, ReportStep
  <2>2. /\ \A q \in Runs \ {r} : run'[q].phase = run[q].phase
        /\ run'[r].phase = PhaseOf(outcome)
    <3>1. CASE run' = [run EXCEPT ![r].phase = PhaseOf(outcome)]
      BY <3>1 DEF HandlerInv, TablesInv, TypeInv, TypeOK, RunRow
    <3>2. CASE SettleRun(r, PhaseOf(outcome), outcome = "block", AutopauseStreak)
      <4>1. run'[r].phase = PhaseOf(outcome)
        BY <3>2, SettleRunQuiet DEF HandlerInv, TablesInv, TypeInv
      <4> QED
        BY <3>2, <4>1, OthersStay DEF HandlerInv
    <3> QED
      BY <1>2, <3>1, <3>2 DEF ReconcileReclaimedRun
  <2>4. /\ lease[r].state # "consumed" /\ Consume(r) /\ Answer(r, rid, 200)
        /\ UNCHANGED incident /\ receipt[rid].run = NoRun /\ body' = body
    BY <1>2 DEF ReconcileReclaimedRun, Reconcilable, Unanswered, Cleanup, Leave
  <2>5. History'
    BY <2>2, <2>4, ReportHistory DEF HandlerInv
  <2>6. Backed(r, "accepted")'
    BY <1>1, <2>4 DEF Backed, Answer, HandlerInv, TablesInv, TypeInv, TypeOK
  <2> QED
    BY <1>1, <1>2, <2>1, <2>5, <2>6, AnswerGood DEF Verdicts
<1>3. CASE UNCHANGED vars /\ (Ask(h, "raced") \/ Ask(h, "lost-late"))
  BY <1>3, QuietGood DEF Reasons
<1> QED
  BY <1>1, <1>2, <1>3 DEF Reconcile

\* A deletion retires the leases it finds, and drops rows.
LEMMA DropTables ==
  ASSUME TablesInv, HandlerTypeOK, UNCHANGED <<receipt, incident, body>>, NEW S, NEW states,
         DropLoopRows(S), RetireLeases(S, states)
  PROVE  History'
<1>1. ASSUME NEW q \in Runs
      PROVE  /\ run'[q].phase \in {run[q].phase, "deleted"}
             /\ lease'[q] = lease[q] \/ ~lease'[q].elapsed
  BY DEF DropLoopRows, RetireLeases, TablesInv, TypeInv, TypeOK, RunRow
<1> QED
  BY <1>1, SilentHistory DEF TablesInv, History

LEMMA TryDeleteGood ==
  ASSUME HandlerInv, NEW h \in Handlers, NEW row \in Handler, row = hd[h], Sound(row),
         NEW r \in Runs, r = row.run, TryDelete(h)
  PROVE  Good(h)
<1> DEFINE l == run[r].loop
<1>1. R(h) = r /\ Reply(h, row.answer) /\ UNCHANGED <<body, acked, restarts>>
  BY DEF TryDelete, R, Reply, Leave
<1>2. l \in Loops
  BY DEF HandlerInv, TablesInv, History, TypeInv, RunsHaveLoops
<1>3. row.answer \in Verdicts \cup {"none", "refused"}
  BY DEF Handler
<1>4. row.answer \in Verdicts => Backed(r, row.answer)
  BY DEF Sound, TryDelete, At
<1>5. CASE TryDeleteLoop(l)
  <2>1. Next
    BY <1>2, <1>5 DEF Next, LoopStep
  <2>2. History'
    BY <1>1, <1>5, DropTables DEF TryDeleteLoop, HandlerInv
  <2>3. EvidenceStays
    BY <2>1, StepKeepsEvidence DEF HandlerInv, TablesInv
  <2>4. row.answer \in Verdicts => Backed(r, row.answer)'
    BY <1>1, <1>4, <2>3, BackedStays DEF HandlerInv
  <2>5. Moved(h)
    BY <1>1, <1>3, <2>4, LeaveMoves DEF HandlerInv, Reply, Steps
  <2> QED
    BY <2>1, <2>2, <2>3, <2>5 DEF Good
<1>6. CASE UNCHANGED vars
  BY <1>1, <1>3, <1>4, <1>6, ReplyGood
<1> QED
  BY <1>1, <1>5, <1>6 DEF TryDelete

-----------------------------------------------------------------------------
(* The lost race.                                                          *)

LEMMA RereadGood ==
  ASSUME HandlerInv, NEW h \in Handlers, NEW row \in Handler, row = hd[h], Sound(row),
         NEW r \in Runs, r = row.run, Reread(h)
  PROVE  Good(h)
<1>1. R(h) = r /\ UNCHANGED vars
  BY DEF Reread, R
<1>2. CASE run[r].phase = "canceled"
  <2>1. Drop(h, "ignore") /\ Backed(r, "accepted")
    BY <1>1, <1>2 DEF Reread, HandlerInv, TablesInv, History
  <2> QED
    BY <1>1, <2>1, EndsGood
<1>3. CASE run[r].phase = "done"
  <2>1. Reply(h, "refused")
    BY <1>1, <1>3 DEF Reread
  <2> QED
    BY <1>1, <2>1, QuietGood
<1>4. CASE run[r].phase \notin {"canceled", "done"}
  <2> DEFINE phase == IF run[r].phase = "error" THEN "error" ELSE "other"
             n == [row EXCEPT !.at = "reresolve", !.phase = phase]
  <2>1. hd' = [hd EXCEPT ![h] = n] /\ UNCHANGED <<body, acked, restarts>>
    BY <1>1, <1>4 DEF Reread, HandlerInv, HandlerTypeOK
  <2>2. "reresolve" \in Steps /\ phase \in {"none", "error", "other"}
    BY DEF Steps
  <2> HIDE DEF phase
  <2>3. n \in Handler /\ n.run = r /\ n.at = "reresolve" /\ n.receipt = row.receipt
    BY <2>2 DEF Handler
  <2> HIDE DEF n
  <2>4. [Next]_vars /\ History' /\ EvidenceStays
    BY <1>1, <2>1, StillTables DEF HandlerInv
  <2> QED
    BY <2>1, <2>3, <2>4, ReadingMoves DEF Good, HandlerInv
<1> QED
  BY <1>2, <1>3, <1>4

LEMMA ReresolveGood ==
  ASSUME HandlerInv, NEW h \in Handlers, NEW row \in Handler, row = hd[h], Sound(row),
         NEW r \in Runs, r = row.run, Reresolve(h)
  PROVE  Good(h)
<1> DEFINE now == LeaseNow(r)
<1>1. R(h) = r /\ ResolveLease(r)
  BY DEF Reresolve, R
<1>2. body' = body => [Next]_vars /\ History' /\ EvidenceStays
  BY <1>1, ResolvingTables DEF HandlerInv
<1>3. CASE Drop(h, "retire") \/ Reply(h, "refused")
  <2>1. body' = body
    BY <1>3 DEF Drop, Reply, Leave
  <2> QED
    BY <1>1, <1>2, <1>3, <2>1, DropMoves DEF Good, HandlerInv
<1>4. CASE /\ now = "terminal-grace"
           /\ hd' = [hd EXCEPT ![h].at = "reconcile", ![h].seen = now, ![h].why = "none",
                               ![h].phase = "none"]
           /\ UNCHANGED <<body, acked, restarts>>
  <2> DEFINE n == [row EXCEPT !.at = "reconcile", !.seen = now, !.why = "none",
                              !.phase = "none"]
             m == [row EXCEPT !.at = "reconcile", !.why = "none"]
  <2>1. hd' = [hd EXCEPT ![h] = n]
    BY <1>4 DEF HandlerInv, HandlerTypeOK
  <2>2. "reconcile" \in Steps /\ "none" \in Reasons
    BY DEF Steps, Reasons
  <2>3. m \in Handler /\ m.run = r /\ m.at = "reconcile" /\ m.receipt = row.receipt
    BY <2>2 DEF Handler
  <2>4. n = [[m EXCEPT !.seen = now] EXCEPT !.phase = "none"]
    OBVIOUS
  <2> HIDE DEF m, n
  <2>5. n \in Handler /\ n.run = r /\ n.at = "reconcile" /\ n.receipt = row.receipt
    BY <1>4, <2>3, <2>4 DEF Handler
  <2>6. HandlerTypeOK /\ [Next]_vars /\ History' /\ EvidenceStays
        /\ UNCHANGED <<body, acked, restarts>>
    BY <1>2, <1>4 DEF HandlerInv
  <2> HIDE DEF now
  <2>7. Moved(h)
    BY <2>1, <2>5, <2>6, ReadingMoves
  <2> QED
    BY <2>6, <2>7 DEF Good
<1> QED
  BY <1>1, <1>3, <1>4 DEF Reresolve

-----------------------------------------------------------------------------
(* Reports that are refused for good.                                      *)

LEMMA RejectGood ==
  ASSUME HandlerInv, NEW h \in Handlers, NEW row \in Handler, row = hd[h], Sound(row),
         NEW r \in Runs, r = row.run, Reject(h)
  PROVE  Good(h)
<1> DEFINE rid == body[r].id
<1>1. R(h) = r /\ Rid(h) = rid /\ rid \in ReportIds
  BY BodyType DEF R, Rid, HandlerInv
<1>2. ~(receipt[rid].run = r /\ <<rid, r>> \in incident)
  BY <1>1 DEF HandlerInv, TablesInv, EvidenceInv, OneVerdictPerReport
<1>3. CASE Drop(h, "retire") /\ UNCHANGED vars
  BY <1>3, QuietGood
<1>4. CASE receipt[rid].run = r /\ Reply(h, Replayed(rid)) /\ UNCHANGED vars
  BY <1>1, <1>4, ReplayIsBacked, ReplyGood DEF Verdicts
<1>5. CASE <<rid, r>> \in incident /\ Reply(h, "rejected") /\ UNCHANGED vars
  BY <1>1, <1>5, ReplyGood DEF Verdicts, Backed
<1>6. CASE RejectTerminalReport(r, rid) /\ Cleanup(h, "rejected")
  <2>1. Next
    BY <1>1, <1>6 DEF Next, ReportStep
  <2>2. lease[r].state # "consumed" /\ Consume(r) /\ body' = body
    BY <1>6 DEF RejectTerminalReport, Rejectable, Reconcilable, Cleanup, Leave
  <2>3. /\ \A q \in Runs \ {r} : run'[q].phase = run[q].phase
        /\ run'[r].phase = "error"
    <3>1. CASE SettleRun(r, "error", FALSE, AutopauseStreak)
      <4>1. run'[r].phase = "error"
        BY <3>1, SettleRunQuiet DEF HandlerInv, TablesInv, TypeInv
      <4> QED
        BY <3>1, <4>1, OthersStay DEF HandlerInv
    <3>2. CASE run[r].phase \in Terminal /\ UNCHANGED run
      BY <1>6, <3>2 DEF RejectTerminalReport, Rejectable, Reconcilable, Terminal, HandlerInv,
         TablesInv, Authority, AuthorityMatchesPhase
    <3> QED
      BY <1>6, <3>1, <3>2 DEF RejectTerminalReport
  <2>4. History'
    BY <1>6, <2>2, <2>3, ReportHistory DEF RejectTerminalReport, HandlerInv
  <2>5. Backed(r, "rejected")'
    BY <1>6, <2>2 DEF RejectTerminalReport, Backed
  <2> QED
    BY <1>1, <1>6, <2>1, <2>4, <2>5, AnswerGood DEF Verdicts
<1>7. CASE Ask(h, "refused") /\ UNCHANGED vars
  BY <1>7, QuietGood DEF Reasons
<1> QED
  BY <1>1, <1>2, <1>3, <1>4, <1>5, <1>6, <1>7 DEF Reject

LEMMA TailGood ==
  ASSUME HandlerInv, NEW h \in Handlers, NEW row \in Handler, row = hd[h], Sound(row),
         NEW r \in Runs, r = row.run, Tail(h)
  PROVE  Good(h)
<1>1. R(h) = r /\ ResolveLease(r) /\ (Drop(h, "retire") \/ Reply(h, "refused"))
  BY DEF Tail, R
<1>2. body' = body
  BY <1>1 DEF Drop, Reply, Leave
<1>3. [Next]_vars /\ History' /\ EvidenceStays
  BY <1>1, <1>2, ResolvingTables DEF HandlerInv
<1> QED
  BY <1>1, <1>3, DropMoves DEF Good, HandlerInv

LEMMA RetireGood ==
  ASSUME HandlerInv, NEW h \in Handlers, NEW row \in Handler, row = hd[h], Sound(row),
         NEW r \in Runs, r = row.run, Retire(h)
  PROVE  Good(h)
<1> DEFINE rid == body[r].id
<1>1. R(h) = r /\ Rid(h) = rid /\ rid \in ReportIds
  BY BodyType DEF R, Rid, HandlerInv
<1>2. CASE Drop(h, "winner") /\ UNCHANGED vars
  BY <1>2, QuietGood
<1>3. CASE receipt[rid].run \notin {NoRun, r} /\ Drop(h, "conflict") /\ UNCHANGED vars
  BY <1>1, <1>3, EndsGood DEF OwnedByAnother
<1>4. CASE AcknowledgeRetiredReport(r, rid) /\ Reply(h, "retired")
  <2>1. Next
    BY <1>1, <1>4 DEF Next, ReportStep
  <2>2. /\ lease[r].state # "consumed" /\ Consume(r) /\ Answer(r, rid, 410)
        /\ UNCHANGED <<incident, run>> /\ receipt[rid].run \in {NoRun, r} /\ body' = body
    BY <1>4 DEF AcknowledgeRetiredReport, Unanswered, Reply, Leave
  <2>3. History'
    BY <2>2, ReportHistory DEF HandlerInv
  <2>4. Backed(r, "retired")'
    BY <1>1, <2>2 DEF Backed, Answer, HandlerInv, TablesInv, TypeInv, TypeOK
  <2> QED
    BY <1>1, <1>4, <2>1, <2>3, <2>4, AnswerGood DEF Verdicts
<1> QED
  BY <1>1, <1>2, <1>3, <1>4 DEF Retire

LEMMA WinnerGood ==
  ASSUME HandlerInv, NEW h \in Handlers, NEW row \in Handler, row = hd[h], Sound(row),
         NEW r \in Runs, r = row.run, Winner(h)
  PROVE  Good(h)
<1> DEFINE rid == body[r].id
<1>1. R(h) = r /\ Rid(h) = rid /\ r # NoRun /\ UNCHANGED vars
  BY BodyType DEF R, Rid, Winner, HandlerInv
<1>2. CASE receipt[rid].run = NoRun
  <2>1. Owner(h) = "none"
    BY <1>1, <1>2 DEF Owner
  <2>2. Reply(h, "refused")
    BY <2>1 DEF Winner
  <2> QED
    BY <1>1, <2>2, QuietGood
<1>3. CASE receipt[rid].run = r /\ receipt[rid].run # NoRun
  <2>1. Reply(h, Replayed(rid))
    BY <1>1, <1>3 DEF Winner, Owner
  <2> QED
    BY <1>1, <1>3, <2>1, ReplayIsBacked, ReplyGood DEF Verdicts
<1>4. CASE receipt[rid].run \notin {NoRun, r}
  <2>1. Drop(h, "conflict") /\ OwnedByAnother(rid, r)
    BY <1>1, <1>4 DEF Winner, Owner, OwnedByAnother
  <2> QED
    BY <1>1, <2>1, EndsGood
<1> QED
  BY <1>2, <1>3, <1>4

\* The transaction does not ask whose the reportId is: it need not, since it was
\* another's when the handler looked, or this run was rejected and has no lease.
LEMMA ConflictGood ==
  ASSUME HandlerInv, NEW h \in Handlers, NEW row \in Handler, row = hd[h], Sound(row),
         NEW r \in Runs, r = row.run, Conflict(h)
  PROVE  Good(h)
<1> DEFINE rid == body[r].id
<1>1. R(h) = r /\ Rid(h) = rid /\ rid \in ReportIds
  BY BodyType DEF R, Rid, HandlerInv
<1>2. CASE Reply(h, "refused") /\ UNCHANGED vars
  BY <1>2, QuietGood
<1>3. CASE /\ lease[r].state = "retired"
           /\ incident' = incident \cup {<<rid, r>>} /\ Consume(r)
           /\ UNCHANGED <<machine, loop, run, receipt>>
           /\ Reply(h, "rejected")
  <2>1. ~Backed(r, "rejected")
    BY <1>1, <1>3 DEF Backed, HandlerInv, TablesInv, EvidenceInv, EvidenceConsumes
  <2>2. OwnedByAnother(rid, r)
    BY <2>1 DEF Sound, Conflict, At
  <2>3. Next
    BY <1>1, <1>3, <2>2 DEF Next, ReportStep, AcknowledgeRetiredTerminalIncident
  <2>4. run[r].phase \in {"error", "deleted"}
    BY <1>3 DEF HandlerInv, TablesInv, EvidenceInv, RetiredRunsFailed, GivenUp
  <2>5. body' = body
    BY <1>3 DEF Reply, Leave
  <2>6. History'
    BY <1>3, <2>4, <2>5, ReportHistory DEF HandlerInv
  <2>7. Backed(r, "rejected")'
    BY <1>3, <2>5 DEF Backed
  <2> QED
    BY <1>1, <1>3, <2>3, <2>6, <2>7, AnswerGood DEF Verdicts
<1> QED
  BY <1>1, <1>2, <1>3 DEF Conflict

\* A canceled run has its receipt, so that neither half of an ignored report writes.
LEMMA IgnoreGood ==
  ASSUME HandlerInv, NEW h \in Handlers, NEW row \in Handler, row = hd[h], Sound(row),
         NEW r \in Runs, r = row.run, Ignore(h)
  PROVE  Good(h)
<1> DEFINE rid == body[r].id
<1>1. R(h) = r /\ Rid(h) = rid /\ rid \in ReportIds /\ r # NoRun
  BY BodyType DEF R, Rid, HandlerInv
<1>2. Backed(r, "accepted") /\ receipt[rid] = [run |-> r, status |-> 200]
  BY DEF Sound, Ignore, At, Backed
<1>3. ~Unanswered(rid) /\ receipt[rid].run = r /\ Replayed(rid) = "accepted"
  BY <1>1, <1>2 DEF Unanswered, Replayed
<1>4. UNCHANGED vars /\ Leave(h, "unlease", "accepted")
  BY <1>1, <1>3 DEF Ignore
<1>5. body' = body /\ UNCHANGED receipt
  BY <1>4 DEF Leave, vars
<1>6. [Next]_vars /\ History' /\ EvidenceStays
  BY <1>4, <1>5, StillTables DEF HandlerInv
<1>7. Backed(r, "accepted")'
  BY <1>2, <1>5 DEF Backed
<1>8. Moved(h)
  BY <1>1, <1>4, <1>7, LeaveMoves DEF HandlerInv, Verdicts, Steps
<1> QED
  BY <1>6, <1>8 DEF Good

LEMMA UnleaseGood ==
  ASSUME HandlerInv, NEW h \in Handlers, NEW row \in Handler, row = hd[h], Sound(row),
         NEW r \in Runs, r = row.run, Unlease(h)
  PROVE  Good(h)
<1> DEFINE rid == body[r].id
<1>1. R(h) = r /\ rid \in ReportIds /\ Consume(r)
  BY BodyType DEF R, Unlease, HandlerInv
<1>2. receipt[rid].run = r
  BY DEF Sound, Unlease, At, Backed
<1>3. lease[r].state = "consumed" /\ lease[r].elapsed \in BOOLEAN /\ lease[r] \in LeaseRow
  BY <1>1, <1>2 DEF HandlerInv, TablesInv, EvidenceInv, EvidenceConsumes, TypeInv, TypeOK, LeaseRow
<1>4. ~lease[r].elapsed
  BY <1>3 DEF HandlerInv, TablesInv, History
<1>5. lease[r] = [state |-> "consumed", elapsed |-> FALSE]
  BY <1>3, <1>4 DEF LeaseRow
<1>6. UNCHANGED vars
  BY <1>1, <1>5 DEF Consume, Unlease, vars, HandlerInv, TablesInv, TypeInv, TypeOK
<1>7. Reply(h, row.answer) /\ row.answer \in Verdicts \cup {"none", "refused"}
  BY DEF Unlease, Handler
<1>8. row.answer \in Verdicts => Backed(r, row.answer)
  BY DEF Sound, Unlease, At
<1> QED
  BY <1>1, <1>6, <1>7, <1>8, ReplyGood

-----------------------------------------------------------------------------
(* The invariant is kept.                                                  *)

LEMMA HandleGood ==
  ASSUME HandlerInv, NEW h \in Handlers, Handle(h)
  PROVE  Good(h)
<1>1. hd[h].at # "idle"
  BY DEF Handle, At, Resolve, ReadReceipt, ReadIncident, ReadIncidents, ReadRun, Finalize,
     Reconcile, TryDelete, Reread, Reresolve, Reject, Tail, Retire, Winner, Conflict, Ignore,
     Unlease
<1>2. PICK row \in Handler : row = hd[h] /\ Sound(row) /\ row.run \in Runs
  BY <1>1, ServesRun DEF R
<1>3. PICK r \in Runs : r = row.run
  BY <1>2
<1>4. CASE Resolve(h) \/ ReadReceipt(h) \/ ReadIncident(h) \/ ReadIncidents(h) \/ ReadRun(h)
  BY <1>2, <1>3, <1>4, ResolveGood, ReadReceiptGood, ReadIncidentGood, ReadIncidentsGood,
     ReadRunGood
<1>5. CASE Finalize(h) \/ Reconcile(h) \/ TryDelete(h) \/ Reread(h) \/ Reresolve(h)
  BY <1>2, <1>3, <1>5, FinalizeGood, ReconcileGood, TryDeleteGood, RereadGood, ReresolveGood
<1>6. CASE Reject(h) \/ Tail(h) \/ Retire(h) \/ Winner(h) \/ Conflict(h) \/ Ignore(h)
           \/ Unlease(h)
  BY <1>2, <1>3, <1>6, RejectGood, TailGood, RetireGood, WinnerGood, ConflictGood, IgnoreGood,
     UnleaseGood
<1> QED
  BY <1>4, <1>5, <1>6 DEF Handle

\* The tables are sound again after a step the store allows.
LEMMA TablesStay ==
  ASSUME TablesInv, [Next]_vars, History'
  PROVE  TablesInv'
  BY StepType, StepAuthority, StepEvidence DEF TablesInv

LEMMA MovedInv ==
  ASSUME HandlerInv, NEW h \in Handlers, [Next]_vars, History', EvidenceStays, Moved(h)
  PROVE  HandlerInv'
<1>1. PICK row \in Handler : hd' = [hd EXCEPT ![h] = row] /\ Sound(row)'
  BY DEF Moved
<1>2. UNCHANGED <<body, acked, restarts>>
  BY DEF Moved
<1>3. HandlerTypeOK'
  BY <1>1, <1>2 DEF HandlerInv, HandlerTypeOK
<1>4. Acknowledged'
  BY <1>2, BackedStays DEF HandlerInv, Acknowledged
<1>5. ASSUME NEW g \in Handlers PROVE Sound(hd[g])'
  <2>1. CASE g = h
    <3>1. hd'[g] = row
      BY <1>1, <2>1 DEF HandlerInv, HandlerTypeOK
    <3> QED
      BY <1>1, <3>1 DEF Sound
  <2>2. CASE g # h
    <3>1. PICK other \in Handler : other = hd[g] /\ hd'[g] = other
      BY <1>1, <2>2 DEF HandlerInv, HandlerTypeOK
    <3>2. Sound(other)'
      BY <1>2, <3>1, SoundStays DEF HandlerInv
    <3> QED
      BY <3>1, <3>2 DEF Sound
  <2> QED
    BY <2>1, <2>2
<1>6. TablesInv'
  BY TablesStay DEF HandlerInv
<1> QED
  BY <1>3, <1>4, <1>5, <1>6 DEF HandlerInv

LEMMA IdleType == Idle \in Handler
  BY DEF Idle, Handler, Steps, Reasons, Verdicts

\* An idle handler remembers nothing.
LEMMA IdleSound ==
  /\ Idle \in Handler /\ Sound(Idle) /\ Sound(Idle)'
  /\ \A r \in Runs : LET row == [Idle EXCEPT !.at = "resolve", !.run = r]
                     IN  row \in Handler /\ Sound(row) /\ Sound(row)'
<1>1. Idle \in Handler /\ Sound(Idle) /\ Sound(Idle)'
  BY IdleType DEF Idle, Sound, Verdicts
<1>2. ASSUME NEW r \in Runs
      PROVE  LET row == [Idle EXCEPT !.at = "resolve", !.run = r]
             IN  row \in Handler /\ Sound(row) /\ Sound(row)'
  <2> DEFINE row == [Idle EXCEPT !.at = "resolve", !.run = r]
  <2>1. row \in Handler
    BY IdleType DEF Handler, Steps
  <2>2. /\ row.run = r /\ row.at = "resolve" /\ row.answer = "none" /\ row.receipt = "none"
        /\ row.why = "none"
    BY DEF Idle
  <2> HIDE DEF row
  <2>3. Sound(row) /\ Sound(row)'
    BY <2>2 DEF Sound
  <2> QED
    BY <2>1, <2>3 DEF row
<1> QED
  BY <1>1, <1>2

LEMMA DeliverInv ==
  ASSUME HandlerInv, NEW h \in Handlers, Deliver(h)
  PROVE  HandlerInv' /\ [Next]_vars
<1>1. hd[h].at = "answer" /\ UNCHANGED <<vars, body, restarts>>
  BY DEF Deliver, At
<1>2. R(h) \in Runs /\ hd[h] \in Handler /\ Sound(hd[h])
  BY <1>1, ServesRun
<1>3. History' /\ EvidenceStays /\ [Next]_vars
  BY <1>1, StillTables DEF HandlerInv
<1>4. hd[h].answer \in Verdicts => Backed(R(h), hd[h].answer)
  BY <1>1, <1>2 DEF Sound, R
<1>5. /\ acked' \in [Runs -> {"none"} \cup Verdicts]
      /\ \A r \in Runs : acked'[r] \in Verdicts => Backed(r, acked'[r])
  BY <1>2, <1>4 DEF Deliver, HandlerInv, HandlerTypeOK, Acknowledged
<1>6. UNCHANGED <<receipt, incident, body>>
  BY <1>1 DEF vars
<1>7. Acknowledged'
  BY <1>5, <1>6 DEF Acknowledged, Backed
<1>8. HandlerTypeOK'
  BY <1>1, <1>5, IdleSound DEF HandlerInv, HandlerTypeOK, Deliver
<1>9. ASSUME NEW g \in Handlers PROVE Sound(hd[g])'
  <2>1. PICK row \in Handler : hd'[g] = row /\ Sound(row)
    BY IdleSound DEF Deliver, HandlerInv, HandlerTypeOK
  <2>2. Sound(row)'
    BY <1>1, <1>3, <2>1, SoundStays DEF HandlerInv
  <2> QED
    BY <2>1, <2>2 DEF Sound
<1> QED
  BY <1>3, <1>7, <1>8, <1>9, TablesStay DEF HandlerInv

LEMMA IdleInv ==
  ASSUME HandlerInv, UNCHANGED <<vars, body, acked>>,
         \/ /\ UNCHANGED restarts
            /\ \E h \in Handlers : LoseAnswer(h) \/ \E r \in Runs : Receive(h, r)
         \/ Restart
  PROVE  HandlerInv' /\ [Next]_vars
<1>1. History' /\ EvidenceStays /\ [Next]_vars
  BY StillTables DEF HandlerInv
<1>2. ASSUME NEW h \in Handlers, NEW row \in Handler, Sound(row)',
             hd' = [hd EXCEPT ![h] = row], UNCHANGED <<body, acked, restarts>>
      PROVE  HandlerInv'
  BY <1>1, <1>2, MovedInv DEF Moved
<1>3. ASSUME NEW h \in Handlers, LoseAnswer(h) PROVE HandlerInv'
  BY <1>2, <1>3, IdleSound DEF LoseAnswer
<1>4. ASSUME NEW h \in Handlers, NEW r \in Runs, Receive(h, r) PROVE HandlerInv'
  BY <1>2, <1>4, IdleSound DEF Receive
<1>5. CASE Restart
  <2>1. HandlerTypeOK'
    <3>1. restarts' \in 0..MaxRestarts
      BY <1>5, HandlerAssumption DEF Restart, HandlerInv, HandlerTypeOK
    <3>2. hd' \in [Handlers -> Handler]
      BY <1>5, IdleType DEF Restart
    <3> QED
      BY <3>1, <3>2 DEF HandlerInv, HandlerTypeOK
  <2>2. \A g \in Handlers : hd'[g] = Idle
    BY <1>5 DEF Restart
  <2>3. \A g \in Handlers : Sound(hd[g])'
    BY <2>2, IdleSound DEF Sound
  <2>4. UNCHANGED <<receipt, incident, body, acked>>
    BY DEF vars
  <2>5. Acknowledged'
    BY <2>4 DEF HandlerInv, Acknowledged, Backed
  <2> QED
    BY <1>1, <2>1, <2>3, <2>5, TablesStay DEF HandlerInv
<1> QED
  BY <1>1, <1>3, <1>4, <1>5

-----------------------------------------------------------------------------
(* What else commits.                                                      *)

LEMMA InterfereHistory ==
  ASSUME TablesInv, HandlerTypeOK, Interfere
  PROVE  Next /\ History'
<1>1. UNCHANGED <<body, acked, hd, restarts>>
  BY DEF Interfere, hvars
<1>2. \A q \in Runs :
        lease[q].elapsed => lease[q].state \in {"terminal-grace", "reconciliation-only"}
  BY DEF TablesInv, History
<1>3. ASSUME NEW r \in Runs, ReclaimRun(r) PROVE Next /\ History'
  <2>1. Next
    BY <1>3 DEF Next, RunStep
  <2>2. lease[r].state = "active"
    BY <1>3 DEF ReclaimRun, TablesInv, Authority, AuthorityMatchesPhase
  <2>3. run'[r].phase = "error" /\ \A q \in Runs \ {r} : run'[q].phase = run[q].phase
    BY <1>3, SettleRunQuiet, OthersStay DEF ReclaimRun, TablesInv, TypeInv
  <2>4. /\ lease'[r] = [state |-> "terminal-grace", elapsed |-> FALSE]
        /\ \A q \in Runs \ {r} : lease'[q] = lease[q]
    BY <1>3, <2>2 DEF ReclaimRun, TablesInv, TypeInv, TypeOK
  <2>5. UNCHANGED <<receipt, incident>>
    BY <1>3 DEF ReclaimRun
  <2> QED
    BY <1>1, <1>2, <2>1, <2>2, <2>3, <2>4, <2>5, SilentHistory
<1>4. ASSUME NEW r \in Runs, RetireElapsed(r) PROVE Next /\ History'
  <2>1. Next
    BY <1>4 DEF Next, RunStep
  <2> QED
    BY <1>1, <1>4, <2>1, RetiringTables
<1>5. ASSUME NEW r \in Runs, LeaseElapses(r) PROVE Next /\ History'
  <2>1. Next
    BY <1>5 DEF Next, RunStep
  <2>2. /\ lease'[r].state = lease[r].state
        /\ \A q \in Runs \ {r} : lease'[q] = lease[q]
        /\ UNCHANGED <<run, receipt, incident>>
        /\ lease[r].state \in {"terminal-grace", "reconciliation-only"}
    BY <1>5 DEF LeaseElapses, Reconcilable, TablesInv, TypeInv, TypeOK, LeaseRow
  <2> QED
    BY <1>1, <1>2, <2>1, <2>2, SilentHistory
<1>6. ASSUME NEW l \in Loops, RequestDeleteLoop(l) PROVE Next /\ History'
  <2>1. Next
    BY <1>6 DEF Next, LoopStep
  <2>2. \A q \in Runs : run'[q].phase = run[q].phase
    <3>1. ASSUME NEW q \in Runs PROVE QueueCanceled(l, {"owner", "system"})[q].phase = run[q].phase
      BY QueueCanceledQuiet DEF TablesInv, History, TypeInv
    <3> QED
      BY <1>6, <3>1 DEF RequestDeleteLoop, Stop, StopRows, TablesInv, TypeInv, TypeOK, RunRow
  <2>3. UNCHANGED <<lease, receipt, incident>>
    BY <1>6 DEF RequestDeleteLoop, Stop
  <2> QED
    BY <1>1, <1>2, <2>1, <2>2, <2>3, SilentHistory
<1>7. ASSUME NEW l \in Loops, TryDeleteLoop(l) \/ ForceDeleteLoop(l) PROVE Next /\ History'
  <2>1. Next
    BY <1>7 DEF Next, LoopStep
  <2> QED
    BY <1>1, <1>7, <2>1, DropTables DEF TryDeleteLoop, ForceDeleteLoop
<1>8. ASSUME NEW reported \in SUBSET Minted, ReleaseAbsentReconciliations(reported)
      PROVE  Next /\ History'
  <2>1. Next
    BY <1>8 DEF Next, MachineStep
  <2>2. ASSUME NEW q \in Runs
        PROVE  lease'[q] = lease[q] \/ lease'[q].state = "reconciliation-only"
    <3>1. [lease[q] EXCEPT !.state = "reconciliation-only"].state = "reconciliation-only"
      BY DEF TablesInv, TypeInv, TypeOK, LeaseRow
    <3> QED
      BY <1>8, <3>1 DEF ReleaseAbsentReconciliations
  <2>3. UNCHANGED <<run, receipt, incident>>
    BY <1>8 DEF ReleaseAbsentReconciliations
  <2> QED
    BY <1>1, <1>2, <2>1, <2>2, <2>3, SilentHistory
<1> QED
  BY <1>3, <1>4, <1>5, <1>6, <1>7, <1>8 DEF Interfere

LEMMA InterfereInv ==
  ASSUME HandlerInv, Interfere
  PROVE  HandlerInv' /\ [Next]_vars
<1>1. UNCHANGED <<body, acked, hd, restarts>>
  BY DEF Interfere, hvars
<1>2. Next /\ History'
  BY InterfereHistory DEF HandlerInv
<1>3. EvidenceStays
  BY <1>2, StepKeepsEvidence DEF HandlerInv, TablesInv
<1>4. HandlerTypeOK'
  BY <1>1 DEF HandlerInv, HandlerTypeOK
<1>5. Acknowledged'
  BY <1>1, <1>3, BackedStays DEF HandlerInv, Acknowledged
<1>6. ASSUME NEW g \in Handlers PROVE Sound(hd[g])'
  <2>1. PICK row \in Handler : row = hd[g] /\ hd'[g] = row
    BY <1>1 DEF HandlerInv, HandlerTypeOK
  <2>2. Sound(row)'
    BY <1>1, <1>3, <2>1, SoundStays DEF HandlerInv
  <2> QED
    BY <2>1, <2>2 DEF Sound
<1> QED
  BY <1>2, <1>4, <1>5, <1>6, TablesStay DEF HandlerInv

-----------------------------------------------------------------------------

LEMMA StepHandlers == HandlerInv /\ [HandlerNext]_allVars => HandlerInv' /\ [Next]_vars
<1> SUFFICES ASSUME HandlerInv, [HandlerNext]_allVars PROVE HandlerInv' /\ [Next]_vars
  OBVIOUS
<1>1. ASSUME NEW h \in Handlers, Handle(h) PROVE HandlerInv' /\ [Next]_vars
  BY <1>1, HandleGood, MovedInv DEF Good
<1>2. ASSUME NEW h \in Handlers, Deliver(h) PROVE HandlerInv' /\ [Next]_vars
  BY <1>2, DeliverInv
<1>3. ASSUME NEW h \in Handlers, LoseAnswer(h) \/ \E r \in Runs : Receive(h, r)
      PROVE  HandlerInv' /\ [Next]_vars
  BY <1>3, IdleInv DEF LoseAnswer, Receive
<1>4. CASE Restart
  BY <1>4, IdleInv DEF Restart
<1>5. CASE Interfere
  BY <1>5, InterfereInv
<1>6. CASE UNCHANGED allVars
  <2>1. /\ UNCHANGED <<machine, loop, run, lease, receipt, incident>>
        /\ UNCHANGED <<body, acked, hd, restarts>>
    BY <1>6 DEF allVars, vars, hvars
  <2>2. UNCHANGED vars
    BY <2>1 DEF vars
  <2>3. History' /\ [Next]_vars /\ EvidenceStays
    BY <2>1, <2>2, StillTables DEF HandlerInv
  <2>4. HandlerTypeOK' /\ Acknowledged'
    BY <2>1 DEF HandlerInv, HandlerTypeOK, Acknowledged, Backed
  <2>5. ASSUME NEW g \in Handlers PROVE Sound(hd[g])'
    <3>1. PICK row \in Handler : row = hd[g] /\ hd'[g] = row
      BY <2>1 DEF HandlerInv, HandlerTypeOK
    <3>2. Sound(row)'
      BY <2>1, <2>3, <3>1, SoundStays DEF HandlerInv
    <3> QED
      BY <3>1, <3>2 DEF Sound
  <2> QED
    BY <2>3, <2>4, <2>5, TablesStay DEF HandlerInv
<1> QED
  BY <1>1, <1>2, <1>3, <1>4, <1>5, <1>6 DEF HandlerNext

LEMMA InitHandlers == HandlerInit => HandlerInv
<1> SUFFICES ASSUME HandlerInit PROVE HandlerInv
  OBVIOUS
<1>1. PICK l \in Loops :
        run = [r \in Runs |-> [phase |-> IF r = MaxRuns THEN "running" ELSE "error",
                               loop |-> l, by |-> "system", index |-> r, cancel |-> FALSE]]
  BY DEF HandlerInit
<1>2. /\ lease = [r \in Runs |-> [state |-> IF r = MaxRuns THEN "active" ELSE "reconciliation-only",
                                  elapsed |-> FALSE]]
      /\ receipt = [rid \in ReportIds |-> [run |-> NoRun, status |-> 0]] /\ incident = {}
  BY DEF HandlerInit
<1>3. TypeInv
  BY <1>1, <1>2, ConstantsAssumption DEF HandlerInit, TypeInv, TypeOK, RunsHaveLoops, LoopRow,
     RunRow, LeaseRow, ReceiptRow, Modes, Overlaps, Runs, NoRun
<1>4. Authority
  BY <1>1, <1>2 DEF Authority, AuthorityMatchesPhase, SingleAuthority, Fences, Grace
<1>5. EvidenceInv
  BY <1>1, <1>2 DEF EvidenceInv, ConsumedLeaseHasEvidence, OneVerdictPerReport,
     EvidenceConsumes, RejectedRunsFailed, RetiredRunsFailed, NoRun, Runs
<1>6. HandlerTypeOK
  <2>1. restarts \in 0..MaxRestarts
    BY HandlerAssumption DEF HandlerInit
  <2> QED
    BY <2>1, IdleType DEF HandlerInit, HandlerTypeOK
<1>7. \A r \in Runs : body[r].id \in ReportIds /\ r # NoRun
  BY <1>6, BodyType
<1>8. History
  BY <1>1, <1>2, <1>7 DEF History, HistoryFollowsVerdict
<1>9. Acknowledged /\ \A h \in Handlers : Sound(hd[h])
  BY IdleSound DEF HandlerInit, Acknowledged, Verdicts
<1> QED
  BY <1>3, <1>4, <1>5, <1>6, <1>8, <1>9 DEF HandlerInv, TablesInv

LEMMA HandlersAlways == HandlerSpec => []HandlerInv
  BY InitHandlers, StepHandlers, PTL DEF HandlerSpec

\* Handlers, reports and acknowledgements keep their shapes.
THEOREM HandlersTypeCorrect == HandlerSpec => []HandlerTypeOK
  BY HandlersAlways, PTL DEF HandlerInv

\* Whatever report() read before it opened a transaction, and whoever committed since,
\* the transaction is one the store allows: the guards RunStore states hold although the
\* code checks them two or three awaits earlier, or not at all.
THEOREM HandlersImplementStore == HandlerSpec => HandlersKeepToStore
<1>1. HandlerInv /\ [HandlerNext]_allVars => [Next]_vars
  BY StepHandlers
<1> QED
  BY <1>1, HandlersAlways, PTL DEF HandlerSpec, HandlersKeepToStore

\* Nothing a daemon is told for good rests on what a handler merely remembers: a receipt
\* or an incident of its own run stands behind it.
THEOREM AnswersAreBacked == HandlerSpec => []AcksAreBacked
<1>1. HandlerInv => AcksAreBacked
  BY DEF HandlerInv, AcksAreBacked, Acknowledged, Sound, At, R
<1> QED
  BY <1>1, HandlersAlways, PTL

\* No race makes the history of a run contradict what its daemon was told of it.
THEOREM HistoryTellsTheVerdict == HandlerSpec => []HistoryFollowsVerdict
  BY HandlersAlways, PTL DEF HandlerInv, TablesInv, History
=============================================================================
