--------------------------- MODULE RunStoreProofs ---------------------------
(***************************************************************************)
(* Proofs about RunStore, for every set of loops, every number of runs and *)
(* every set of reportIds: rows and leases agree, one run holds a loop,    *)
(* and the evidence from which a report is answered is complete,           *)
(* consistent and final.                                                   *)
(***************************************************************************)
EXTENDS RunStore, TLAPS

-----------------------------------------------------------------------------
(* The pieces of a transaction leave well-formed rows.                     *)

\* A run row that becomes numbered and changes phase is still a run row.
LEMMA RunRowUpdate ==
  ASSUME NEW row \in RunRow, NEW n \in Nat,
         NEW ph \in {"unborn", "pending", "running", "done", "error", "canceled", "deleted"}
  PROVE  /\ [row EXCEPT !.phase = ph] \in RunRow
         /\ [row EXCEPT !.phase = ph, !.index = n] \in RunRow
         /\ [row EXCEPT !.cancel = TRUE] \in RunRow
         /\ [row EXCEPT !.by = "owner"] \in RunRow
  BY DEF RunRow

\* The counter of a loop moves on to a number.
LEMMA NextIndexType ==
  ASSUME TypeOK, NEW l \in Loops, NEW who
  PROVE  /\ loop[l] \in LoopRow
         /\ loop[l].lastRunIndex \in Nat
         /\ loop[l].lastRunIndex + 1 \in Nat
         /\ IndexAfterCancel(l, who) \in Nat
<1>1. loop[l] \in LoopRow
  BY DEF TypeOK
<1>2. loop[l].lastRunIndex \in Nat
  BY <1>1 DEF LoopRow
<1> QED
  BY <1>1, <1>2 DEF IndexAfterCancel

\* Canceling what is queued leaves well-formed run rows.
LEMMA QueueCanceledType ==
  ASSUME TypeOK, NEW l \in Loops, NEW who
  PROVE  QueueCanceled(l, who) \in [Runs -> RunRow]
<1>1. ASSUME NEW r \in Runs
      PROVE  QueueCanceled(l, who)[r] \in RunRow
  <2>1. run[r] \in RunRow
    BY DEF TypeOK
  <2>2. loop[l].lastRunIndex + 1 \in Nat
    BY NextIndexType
  <2>3. [run[r] EXCEPT !.phase = "canceled", !.index = loop[l].lastRunIndex + 1] \in RunRow
    BY <2>1, <2>2, RunRowUpdate
  <2> QED
    BY <2>1, <2>3 DEF QueueCanceled
<1> QED
  BY <1>1 DEF QueueCanceled

\* A run that is not fresh belongs to a loop.  (The strengthening of TypeOK that
\* makes loop[run[r].loop] meaningful.)
RunsHaveLoops == \A r \in Runs : run[r].phase # "unborn" => run[r].loop \in Loops

\* Settling a run leaves well-formed tables.
LEMMA SettleRunType ==
  ASSUME TypeOK, NEW r \in Runs, run[r].loop \in Loops, NEW ph \in Terminal,
         NEW block, NEW streak, SettleRun(r, ph, block, streak)
  PROVE  loop' \in [Loops -> LoopRow] /\ run' \in [Runs -> RunRow]
<1> DEFINE l == run[r].loop
<1>1. /\ loop[l] \in LoopRow
      /\ IndexAfterCancel(l, {"system"}) \in Nat
  BY NextIndexType
<1>2. QueueCanceled(l, {"system"}) \in [Runs -> RunRow]
  BY QueueCanceledType
<1>3. run' \in [Runs -> RunRow]
  <2> DEFINE rows == IF Pauses(r, ph, block, streak) THEN QueueCanceled(l, {"system"}) ELSE run
  <2>1. rows \in [Runs -> RunRow]
    BY <1>2 DEF TypeOK
  <2>2. [rows[r] EXCEPT !.phase = ph] \in RunRow
    BY <2>1, RunRowUpdate DEF Terminal
  <2>3. run' = [rows EXCEPT ![r] = [rows[r] EXCEPT !.phase = ph]]
    BY <2>1 DEF SettleRun
  <2> HIDE DEF rows
  <2> QED
    BY <2>1, <2>2, <2>3
<1>4. CadenceAfter(r, ph) \in {"none", "future", "due"}
  BY <1>1 DEF CadenceAfter, LoopRow
<1>5. [loop[l] EXCEPT !.enabled = FALSE, !.cadence = "none",
                      !.lastRunIndex = IndexAfterCancel(l, {"system"})] \in LoopRow
  BY <1>1 DEF LoopRow
<1>6. [loop[l] EXCEPT !.cadence = CadenceAfter(r, ph)] \in LoopRow
  BY <1>1, <1>4 DEF LoopRow
<1>7. loop' \in [Loops -> LoopRow]
  BY <1>5, <1>6 DEF SettleRun, TypeOK
<1> QED
  BY <1>3, <1>7

\* An owner's patch leaves well-formed tables.
LEMMA PatchLoopType ==
  ASSUME TypeOK, NEW l \in Loops, NEW on, NEW m \in Modes, NEW o \in Overlaps, NEW retimed,
         PatchLoop(l, on, m, o, retimed)
  PROVE  TypeOK'
<1> DEFINE enabled == EnabledBy(on, loop[l]) /\ ~loop[l].deleting
           index == IF on = "no" THEN IndexAfterCancel(l, {"system"}) ELSE loop[l].lastRunIndex
           cadence == CadenceBy(l, enabled, m, retimed)
<1>1. /\ loop[l] \in LoopRow
      /\ loop[l].lastRunIndex \in Nat
      /\ IndexAfterCancel(l, {"system"}) \in Nat
  BY NextIndexType
<1>2. enabled \in BOOLEAN
  BY <1>1 DEF EnabledBy, LoopRow
<1>3. cadence \in {"none", "future", "due"}
  BY <1>1, <1>2 DEF CadenceBy, LoopRow, Modes
<1>4. index \in Nat
  BY <1>1
<1>5. loop' = [loop EXCEPT ![l] = [loop[l] EXCEPT !.enabled = enabled, !.mode = m,
                  !.overlap = o, !.cadence = cadence, !.lastRunIndex = index]]
  BY DEF PatchLoop, TypeOK
<1>6. run' \in [Runs -> RunRow]
  BY QueueCanceledType DEF PatchLoop, TypeOK
<1>7. UNCHANGED <<machine, lease, receipt, incident>>
  BY DEF PatchLoop
<1> HIDE DEF enabled, index, cadence
<1>8. [loop[l] EXCEPT !.enabled = enabled, !.mode = m, !.overlap = o,
                      !.cadence = cadence, !.lastRunIndex = index] \in LoopRow
  BY <1>1, <1>2, <1>3, <1>4 DEF LoopRow
<1>9. loop' \in [Loops -> LoopRow]
  BY <1>5, <1>8 DEF TypeOK
<1> QED
  BY <1>6, <1>7, <1>9 DEF TypeOK

\* A stop leaves well-formed tables.
LEMMA StopType ==
  ASSUME TypeOK, NEW l \in Loops, NEW deleting \in BOOLEAN, Stop(l, deleting)
  PROVE  TypeOK'
<1> DEFINE who == {"owner", "system"}
<1>1. /\ loop[l] \in LoopRow
      /\ IndexAfterCancel(l, who) \in Nat
  BY NextIndexType
<1>2. [loop[l] EXCEPT !.enabled = FALSE, !.cadence = "none", !.deleting = deleting,
                      !.lastRunIndex = IndexAfterCancel(l, who)] \in LoopRow
  BY <1>1 DEF LoopRow
<1>3. loop' \in [Loops -> LoopRow]
  BY <1>2 DEF Stop, TypeOK
<1>4. QueueCanceled(l, who) \in [Runs -> RunRow]
  BY QueueCanceledType
<1>5. \A r \in Runs : [run[r] EXCEPT !.cancel = TRUE] \in RunRow
  BY RunRowUpdate DEF TypeOK
<1>6. run' \in [Runs -> RunRow]
  BY <1>4, <1>5 DEF Stop, StopRows
<1> QED
  BY <1>3, <1>6 DEF Stop, TypeOK

\* Dropping the rows of loops leaves well-formed tables.
LEMMA DropType ==
  ASSUME TypeOK, NEW S, NEW states, DropLoopRows(S), RetireLeases(S, states)
  PROVE  /\ loop' \in [Loops -> LoopRow]
         /\ run' \in [Runs -> RunRow]
         /\ lease' \in [Runs -> LeaseRow]
<1>1. \A l \in Loops : [loop[l] EXCEPT !.state = "deleted", !.enabled = FALSE,
                                       !.cadence = "none"] \in LoopRow
  BY DEF TypeOK, LoopRow
<1>2. \A r \in Runs : [run[r] EXCEPT !.phase = "deleted"] \in RunRow
  BY DEF TypeOK, RunRow
<1>3. loop' \in [Loops -> LoopRow]
  BY <1>1 DEF DropLoopRows, TypeOK
<1>4. run' \in [Runs -> RunRow]
  BY <1>2 DEF DropLoopRows, TypeOK
<1>5. lease' \in [Runs -> LeaseRow]
  BY DEF RetireLeases, TypeOK, LeaseRow
<1> QED
  BY <1>3, <1>4, <1>5

-----------------------------------------------------------------------------
(* Type correctness.  One lemma per family of transactions, then the whole. *)

TypeInv == TypeOK /\ RunsHaveLoops

\* What a transaction may do to a run it does not end: number and cancel a queued
\* run, insert a row, mark or promote, but never touch one that is running or over.
QuietRow(q) ==
  \/ run'[q].phase = run[q].phase /\ run'[q].loop = run[q].loop
  \/ /\ run[q].phase = "pending" /\ run'[q].phase = "canceled"
     /\ run'[q].loop = run[q].loop
  \/ /\ run[q].phase = "unborn" /\ run'[q].phase = "pending"
     /\ run'[q].loop \in Loops

\* Canceling a queue leaves every row quiet.
LEMMA QueueCanceledQuiet ==
  ASSUME TypeOK, NEW l, NEW who, NEW q \in Runs
  PROVE  /\ QueueCanceled(l, who)[q].loop = run[q].loop
         /\ \/ QueueCanceled(l, who)[q].phase = run[q].phase
            \/ run[q].phase = "pending" /\ QueueCanceled(l, who)[q].phase = "canceled"
<1>1. run[q] \in RunRow
  BY DEF TypeOK
<1> QED
  BY <1>1 DEF QueueCanceled, Queued, RunRow

\* Settling a run is quiet for every other run.
LEMMA SettleRunQuiet ==
  ASSUME TypeOK, NEW r \in Runs, NEW ph, NEW block, NEW streak,
         SettleRun(r, ph, block, streak)
  PROVE  /\ \A q \in Runs \ {r} : QuietRow(q)
         /\ run'[r].phase = ph /\ run'[r].loop = run[r].loop
<1> DEFINE l == run[r].loop
           canceled == QueueCanceled(l, {"system"})
           rows == IF Pauses(r, ph, block, streak) THEN canceled ELSE run
<1>1. /\ run \in [Runs -> RunRow]
      /\ canceled = [q \in Runs |-> canceled[q]]
  BY DEF TypeOK, QueueCanceled
<1>2. run' = [rows EXCEPT ![r] = [rows[r] EXCEPT !.phase = ph]]
  BY <1>1 DEF SettleRun
<1>3. \A q \in Runs : /\ rows[q].loop = run[q].loop
                      /\ \/ rows[q].phase = run[q].phase
                         \/ run[q].phase = "pending" /\ rows[q].phase = "canceled"
  BY QueueCanceledQuiet
<1>4. DOMAIN rows = Runs
  BY <1>1
<1>5. \A q \in Runs \ {r} : run'[q] = rows[q]
  BY <1>2, <1>4
<1>6. run'[r] = [rows[r] EXCEPT !.phase = ph]
  BY <1>2, <1>4
<1>7. DOMAIN rows[r] = {"phase", "loop", "by", "index", "cancel"}
  <2>1. run[r] \in RunRow
    BY <1>1
  <2> QED
    BY <2>1 DEF RunRow, QueueCanceled
<1> HIDE DEF rows
<1>8. run'[r].phase = ph /\ run'[r].loop = rows[r].loop
  BY <1>6, <1>7
<1> QED
  BY <1>3, <1>5, <1>8 DEF QuietRow

\* Adding to the queue leaves well-formed run rows, all of them quiet.
LEMMA EnqueueType ==
  ASSUME TypeInv, NEW l \in Loops, NEW who \in {"owner", "system"}, Enqueue(l, who)
  PROVE  /\ run' \in [Runs -> RunRow] /\ RunsHaveLoops'
         /\ \A q \in Runs : QuietRow(q)
<1>1. CASE HasPhase(l, {"pending"})
  <2>1. run' = [q \in Runs |-> IF run[q].loop = l /\ run[q].phase = "pending" /\ who = "owner"
                               THEN [run[q] EXCEPT !.by = "owner"] ELSE run[q]]
    BY <1>1 DEF Enqueue
  <2>2. ASSUME NEW q \in Runs
        PROVE  /\ run'[q] \in RunRow
               /\ run'[q].phase = run[q].phase /\ run'[q].loop = run[q].loop
    <3>1. run[q] \in RunRow
      BY DEF TypeInv, TypeOK
    <3>2. [run[q] EXCEPT !.by = "owner"] \in RunRow
      BY <3>1, RunRowUpdate
    <3>3. /\ [run[q] EXCEPT !.by = "owner"].phase = run[q].phase
          /\ [run[q] EXCEPT !.by = "owner"].loop = run[q].loop
      BY <3>1 DEF RunRow
    <3> QED
      BY <2>1, <3>1, <3>2, <3>3
  <2> QED
    BY <2>1, <2>2 DEF TypeInv, RunsHaveLoops, QuietRow
<1>2. CASE ~HasPhase(l, {"pending"})
  <2>1. PICK r \in Runs : /\ Fresh(r)
                          /\ run' = [run EXCEPT ![r] =
                               [phase |-> "pending", loop |-> l, by |-> who,
                                index |-> 0, cancel |-> FALSE]]
    BY <1>2 DEF Enqueue
  <2>2. [phase |-> "pending", loop |-> l, by |-> who, index |-> 0, cancel |-> FALSE] \in RunRow
    BY DEF RunRow
  <2> QED
    BY <2>1, <2>2 DEF TypeInv, TypeOK, RunsHaveLoops, QuietRow, Fresh
<1> QED
  BY <1>1, <1>2

\* The tables after a step on loop l.
LEMMA LoopStepType ==
  ASSUME TypeInv, ConstantsAssumption, NEW l \in Loops, LoopStep(l)
  PROVE  TypeInv'
<1> USE DEF TypeInv
<1>1. ASSUME NEW e \in BOOLEAN, NEW m \in ModesInUse, NEW o \in OverlapsInUse,
             CreateLoop(l, e, m, o)
      PROVE  TypeInv'
  <2>1. m \in Modes /\ o \in Overlaps
    BY DEF ConstantsAssumption
  <2>2. loop' \in [Loops -> LoopRow]
    BY <1>1, <2>1 DEF CreateLoop, TypeOK, LoopRow
  <2> QED
    BY <1>1, <2>2 DEF CreateLoop, TypeOK, RunsHaveLoops
<1>2. ASSUME NEW on, NEW m \in Modes, NEW o \in Overlaps, NEW retimed,
             PatchLoop(l, on, m, o, retimed)
      PROVE  TypeInv'
  <2>1. TypeOK'
    BY <1>2, PatchLoopType
  <2>2. RunsHaveLoops'
    BY <1>2, QueueCanceledQuiet DEF PatchLoop, RunsHaveLoops
  <2> QED
    BY <2>1, <2>2
<1>3. ASSUME NEW deleting \in BOOLEAN, Stop(l, deleting)
      PROVE  TypeInv'
  <2>1. TypeOK'
    BY <1>3, StopType
  <2>2. ASSUME NEW q \in Runs
        PROVE  /\ run'[q].loop = run[q].loop
               /\ run[q].phase = "unborn" => run'[q].phase = "unborn"
    <3>1. run[q] \in RunRow /\ [run[q] EXCEPT !.cancel = TRUE].loop = run[q].loop
      BY DEF TypeOK, RunRow
    <3> QED
      BY <1>3, <3>1, QueueCanceledQuiet DEF Stop, StopRows
  <2>3. RunsHaveLoops'
    BY <2>2 DEF RunsHaveLoops
  <2> QED
    BY <2>1, <2>3
<1>4. ASSUME NEW S \in SUBSET Loops, NEW states, DropLoopRows(S), RetireLeases(S, states),
             UNCHANGED <<receipt, incident>>, machine' \in {machine, "deleted"}
      PROVE  TypeInv'
  <2>1. TypeOK'
    BY <1>4, DropType DEF TypeOK
  <2>2. \A q \in Runs : run'[q].loop = run[q].loop
                        /\ (run'[q].phase # "unborn" => run[q].phase # "unborn" \/ run[q].loop \in S)
    BY <1>4 DEF DropLoopRows, TypeOK, RunRow
  <2> QED
    BY <2>1, <2>2 DEF RunsHaveLoops
<1>5. CASE EnqueueRun(l)
  BY <1>5, EnqueueType DEF EnqueueRun, TypeOK
<1>6. ASSUME NEW c \in {"none", "future", "due"}, loop' = [loop EXCEPT ![l].cadence = c]
      PROVE  loop' \in [Loops -> LoopRow]
  <2>1. [loop[l] EXCEPT !.cadence = c] \in LoopRow
    BY DEF TypeOK, LoopRow
  <2> QED
    BY <1>6, <2>1 DEF TypeOK
<1>7. CASE AdvanceSchedule(l)
  <2>1. loop' \in [Loops -> LoopRow]
    BY <1>6, <1>7 DEF AdvanceSchedule
  <2>2. run' \in [Runs -> RunRow] /\ RunsHaveLoops'
    BY <1>7, EnqueueType DEF AdvanceSchedule, TypeOK, RunsHaveLoops
  <2> QED
    BY <1>7, <2>1, <2>2 DEF AdvanceSchedule, TypeOK
<1>8. CASE CadenceFallsDue(l)
  <2>1. loop' \in [Loops -> LoopRow]
    BY <1>6, <1>8 DEF CadenceFallsDue
  <2> QED
    BY <1>8, <2>1 DEF CadenceFallsDue, TypeOK, RunsHaveLoops
<1>9. ASSUME UpdateLoop(l) \/ PauseLoop(l) \/ StartLoop(l)
      PROVE  TypeInv'
  <2>1. loop[l].mode \in Modes /\ loop[l].overlap \in Overlaps
    BY DEF TypeOK, LoopRow
  <2> QED
    BY <1>2, <1>9, <2>1 DEF UpdateLoop, PauseLoop, StartLoop, ConstantsAssumption
<1>10. ASSUME StopLoop(l) \/ RequestDeleteLoop(l)
       PROVE  TypeInv'
  <2>1. loop[l].deleting \in BOOLEAN
    BY DEF TypeOK, LoopRow
  <2> QED
    BY <1>3, <1>10, <2>1 DEF StopLoop, RequestDeleteLoop
<1>11. ASSUME TryDeleteLoop(l) \/ ForceDeleteLoop(l)
       PROVE  TypeInv'
  BY <1>4, <1>11 DEF TryDeleteLoop, Deletable, ForceDeleteLoop
<1> QED
  BY <1>1, <1>5, <1>7, <1>8, <1>9, <1>10, <1>11 DEF LoopStep

\* A run that ends as canceled out of the queue, or is claimed: the numbers.
LEMMA NumberType ==
  ASSUME TypeInv, NEW r \in Runs, run[r].phase # "unborn",
         NEW ph \in {"canceled", "running"}, NEW c \in {"none", "future", "due"}
  PROVE  LET l == run[r].loop
             n == loop[l].lastRunIndex + 1
         IN  /\ l \in Loops /\ n \in Nat
             /\ [run[r] EXCEPT !.phase = ph, !.index = n] \in RunRow
             /\ [loop[l] EXCEPT !.lastRunIndex = n] \in LoopRow
             /\ [loop[l] EXCEPT !.lastRunIndex = n, !.cadence = c] \in LoopRow
<1> DEFINE l == run[r].loop
           n == loop[l].lastRunIndex + 1
<1>1. l \in Loops /\ run[r] \in RunRow
  BY DEF TypeInv, TypeOK, RunsHaveLoops
<1>2. n \in Nat /\ loop[l] \in LoopRow
  BY <1>1, NextIndexType DEF TypeInv
<1> HIDE DEF n
<1>3. [run[r] EXCEPT !.phase = ph, !.index = n] \in RunRow
  BY <1>1, <1>2, RunRowUpdate
<1>4. /\ [loop[l] EXCEPT !.lastRunIndex = n] \in LoopRow
      /\ [loop[l] EXCEPT !.lastRunIndex = n, !.cadence = c] \in LoopRow
  BY <1>2 DEF LoopRow
<1> QED
  BY <1>1, <1>2, <1>3, <1>4 DEF n

\* The tables after a step on run r.
LEMMA RunStepType ==
  ASSUME TypeInv, NEW r \in Runs, RunStep(r)
  PROVE  TypeInv'
<1> DEFINE l == run[r].loop
           n == loop[l].lastRunIndex + 1
<1>1. ASSUME run[r].phase # "unborn",
             run' = [run EXCEPT ![r].phase = "canceled", ![r].index = n],
             loop' = [loop EXCEPT ![l].lastRunIndex = n],
             UNCHANGED <<machine, lease, receipt, incident>>
      PROVE  TypeInv'
  <2>1. /\ l \in Loops
        /\ [run[r] EXCEPT !.phase = "canceled", !.index = n] \in RunRow
        /\ [loop[l] EXCEPT !.lastRunIndex = n] \in LoopRow
    BY <1>1, NumberType
  <2>2. /\ run' = [run EXCEPT ![r] = [run[r] EXCEPT !.phase = "canceled", !.index = n]]
        /\ loop' = [loop EXCEPT ![l] = [loop[l] EXCEPT !.lastRunIndex = n]]
    BY <1>1 DEF TypeInv, TypeOK
  <2>3. [run[r] EXCEPT !.phase = "canceled", !.index = n].loop = l
    BY DEF TypeInv, TypeOK, RunRow
  <2> HIDE DEF n
  <2>4. TypeOK'
    BY <1>1, <2>1, <2>2 DEF TypeInv, TypeOK
  <2>5. RunsHaveLoops'
    BY <2>1, <2>2, <2>3 DEF TypeInv, TypeOK, RunsHaveLoops
  <2> QED
    BY <2>4, <2>5 DEF TypeInv
<1>2. CASE RequestRunCancel(r)
  <2>1. CASE run[r].phase = "pending"
    BY <1>1, <1>2, <2>1 DEF RequestRunCancel
  <2>2. CASE run[r].phase = "running"
    <3>1. /\ run' = [run EXCEPT ![r] = [run[r] EXCEPT !.cancel = TRUE]]
          /\ UNCHANGED <<machine, loop, lease, receipt, incident>>
      BY <1>2, <2>2 DEF RequestRunCancel, TypeInv, TypeOK
    <3>2. /\ [run[r] EXCEPT !.cancel = TRUE] \in RunRow
          /\ [run[r] EXCEPT !.cancel = TRUE].loop = run[r].loop
          /\ [run[r] EXCEPT !.cancel = TRUE].phase = run[r].phase
      BY DEF TypeInv, TypeOK, RunRow
    <3> QED
      BY <3>1, <3>2 DEF TypeInv, TypeOK, RunsHaveLoops
  <2> QED
    BY <1>2, <2>1, <2>2 DEF RequestRunCancel
<1>3. CASE ExpirePendingRun(r)
  BY <1>1, <1>3 DEF ExpirePendingRun
<1>4. CASE ReclaimRun(r)
  <2>1. l \in Loops
    BY <1>4 DEF ReclaimRun, TypeInv, RunsHaveLoops
  <2>2. loop' \in [Loops -> LoopRow] /\ run' \in [Runs -> RunRow]
    BY <1>4, <2>1, SettleRunType DEF ReclaimRun, TypeInv, Terminal
  <2>3. RunsHaveLoops'
    BY <1>4, <2>1, SettleRunQuiet DEF ReclaimRun, TypeInv, RunsHaveLoops, QuietRow
  <2>4. lease' \in [Runs -> LeaseRow]
    BY <1>4 DEF ReclaimRun, TypeInv, TypeOK, LeaseRow
  <2> QED
    BY <1>4, <2>2, <2>3, <2>4 DEF ReclaimRun, TypeInv, TypeOK
<1>5. CASE RetireElapsed(r)
  BY <1>5 DEF RetireElapsed, TypeInv, TypeOK, RunsHaveLoops, LeaseRow
<1>6. CASE LeaseElapses(r)
  <2>1. [lease[r] EXCEPT !.elapsed = TRUE] \in LeaseRow
    BY DEF TypeInv, TypeOK, LeaseRow
  <2> QED
    BY <1>6, <2>1 DEF LeaseElapses, TypeInv, TypeOK, RunsHaveLoops
<1>7. ASSUME NEW reported, ClaimReadyRun(r, reported)
      PROVE  TypeInv'
  <2> DEFINE c == IF loop[l].mode = "continuous" THEN "none" ELSE loop[l].cadence
  <2>1. run[r].phase = "pending" /\ l \in Loops
    BY <1>7 DEF ClaimReadyRun, Claimable, TypeInv, RunsHaveLoops
  <2>2. c \in {"none", "future", "due"}
    BY <2>1 DEF TypeInv, TypeOK, LoopRow
  <2>3. /\ run' = [run EXCEPT ![r] = [run[r] EXCEPT !.phase = "running", !.index = n]]
        /\ loop' = [loop EXCEPT ![l] = [loop[l] EXCEPT !.lastRunIndex = n, !.cadence = c]]
        /\ lease' = [lease EXCEPT ![r] = [state |-> "active", elapsed |-> FALSE]]
        /\ UNCHANGED <<machine, receipt, incident>>
    BY <1>7 DEF ClaimReadyRun, TypeInv, TypeOK
  <2> HIDE DEF c
  <2>4. /\ [run[r] EXCEPT !.phase = "running", !.index = n] \in RunRow
        /\ [loop[l] EXCEPT !.lastRunIndex = n, !.cadence = c] \in LoopRow
    BY <2>1, <2>2, NumberType
  <2>5. [run[r] EXCEPT !.phase = "running", !.index = n].loop = l
    BY DEF TypeInv, TypeOK, RunRow
  <2> HIDE DEF n
  <2>6. TypeOK'
    BY <2>3, <2>4 DEF TypeInv, TypeOK, LeaseRow
  <2>7. RunsHaveLoops'
    BY <2>1, <2>3, <2>5 DEF TypeInv, TypeOK, RunsHaveLoops
  <2> QED
    BY <2>6, <2>7 DEF TypeInv
<1> QED
  BY <1>2, <1>3, <1>4, <1>5, <1>6, <1>7 DEF RunStep

\* The tables after a step on a report of run r.
LEMMA ReportStepType ==
  ASSUME TypeInv, NEW r \in Runs, NEW rid \in ReportIds, ReportStep(r, rid)
  PROVE  TypeInv'
<1> USE DEF TypeInv
<1>1. ASSUME Consume(r)
      PROVE  lease' \in [Runs -> LeaseRow]
  BY <1>1 DEF Consume, TypeOK, LeaseRow
<1>2. ASSUME NEW status \in {200, 410}, Answer(r, rid, status)
      PROVE  receipt' \in [ReportIds -> ReceiptRow]
  BY <1>2 DEF Answer, TypeOK, ReceiptRow
<1>3. ASSUME NEW ph \in Terminal, NEW block, NEW streak, run[r].phase # "unborn",
             SettleRun(r, ph, block, streak)
      PROVE  loop' \in [Loops -> LoopRow] /\ run' \in [Runs -> RunRow] /\ RunsHaveLoops'
  <2>1. run[r].loop \in Loops
    BY <1>3 DEF RunsHaveLoops
  <2>2. loop' \in [Loops -> LoopRow] /\ run' \in [Runs -> RunRow]
    BY <1>3, <2>1, SettleRunType
  <2>3. RunsHaveLoops'
    BY <1>3, <2>1, SettleRunQuiet DEF RunsHaveLoops, QuietRow
  <2> QED
    BY <2>2, <2>3
<1>4. ASSUME NEW outcome \in Outcomes
      PROVE  PhaseOf(outcome) \in Terminal
  BY <1>4 DEF Outcomes, PhaseOf, Terminal
<1>5. ASSUME NEW outcome \in Outcomes, FinalizeRunningRun(r, rid, outcome)
      PROVE  TypeInv'
  <2>1. loop' \in [Loops -> LoopRow] /\ run' \in [Runs -> RunRow] /\ RunsHaveLoops'
    BY <1>3, <1>4, <1>5 DEF FinalizeRunningRun
  <2>2. lease' \in [Runs -> LeaseRow] /\ receipt' \in [ReportIds -> ReceiptRow]
    BY <1>1, <1>2, <1>5 DEF FinalizeRunningRun
  <2> QED
    BY <1>5, <2>1, <2>2 DEF FinalizeRunningRun, TypeOK
<1>6. ASSUME NEW outcome \in Outcomes, ReconcileReclaimedRun(r, rid, outcome)
      PROVE  TypeInv'
  <2>1. loop' \in [Loops -> LoopRow] /\ run' \in [Runs -> RunRow] /\ RunsHaveLoops'
    <3>1. CASE lease[r].state = "reconciliation-only"
      <4>1. /\ run' = [run EXCEPT ![r] = [run[r] EXCEPT !.phase = PhaseOf(outcome)]]
            /\ UNCHANGED loop
        BY <1>6, <3>1 DEF ReconcileReclaimedRun, TypeOK
      <4>2. [run[r] EXCEPT !.phase = PhaseOf(outcome)] \in RunRow
        BY <1>4, RunRowUpdate DEF TypeOK, Terminal
      <4>3. [run[r] EXCEPT !.phase = PhaseOf(outcome)].loop = run[r].loop
        BY DEF TypeOK, RunRow
      <4> QED
        BY <1>6, <4>1, <4>2, <4>3 DEF ReconcileReclaimedRun, TypeOK, RunsHaveLoops
    <3>2. CASE lease[r].state # "reconciliation-only"
      BY <1>3, <1>4, <1>6, <3>2 DEF ReconcileReclaimedRun
    <3> QED
      BY <3>1, <3>2
  <2>2. lease' \in [Runs -> LeaseRow] /\ receipt' \in [ReportIds -> ReceiptRow]
    BY <1>1, <1>2, <1>6 DEF ReconcileReclaimedRun
  <2> QED
    BY <1>6, <2>1, <2>2 DEF ReconcileReclaimedRun, TypeOK
<1>7. CASE RejectTerminalReport(r, rid)
  <2>1. loop' \in [Loops -> LoopRow] /\ run' \in [Runs -> RunRow] /\ RunsHaveLoops'
    <3>1. CASE UNCHANGED <<loop, run>>
      BY <3>1 DEF TypeOK, RunsHaveLoops
    <3>2. CASE run[r].phase = "running" /\ SettleRun(r, "error", FALSE, AutopauseStreak)
      BY <1>3, <3>2 DEF Terminal
    <3> QED
      BY <1>7, <3>1, <3>2 DEF RejectTerminalReport, Rejectable
  <2>2. lease' \in [Runs -> LeaseRow]
    BY <1>1, <1>7 DEF RejectTerminalReport, Rejectable
  <2> QED
    BY <1>7, <2>1, <2>2 DEF RejectTerminalReport, Rejectable, TypeOK
<1>8. CASE AcknowledgeRetiredReport(r, rid)
  BY <1>1, <1>2, <1>8 DEF AcknowledgeRetiredReport, TypeOK, RunsHaveLoops
<1>9. CASE AcknowledgeRetiredTerminalIncident(r, rid)
  BY <1>1, <1>9 DEF AcknowledgeRetiredTerminalIncident, TypeOK, RunsHaveLoops
<1>10. CASE IgnoreCanceledReport(r, rid)
  <2>1. receipt' \in [ReportIds -> ReceiptRow] /\ incident' \subseteq ReportIds \X Runs
    BY <1>2, <1>10 DEF IgnoreCanceledReport, TypeOK
  <2> QED
    BY <1>1, <1>10, <2>1 DEF IgnoreCanceledReport, TypeOK, RunsHaveLoops
<1> QED
  BY <1>5, <1>6, <1>7, <1>8, <1>9, <1>10 DEF ReportStep

\* The tables after a step on the machine row, which may reach every loop.
LEMMA MachineStepType ==
  ASSUME TypeInv, MachineStep
  PROVE  TypeInv'
<1> USE DEF TypeInv
<1>1. CASE ForceDeleteMachine
  <2> DEFINE owned == {l \in Loops : Present(l)}
  <2>1. /\ DropLoopRows(owned) /\ RetireLeases(owned, Authorities)
        /\ machine' = "deleted" /\ UNCHANGED <<receipt, incident>>
    BY <1>1 DEF ForceDeleteMachine
  <2>2. owned \subseteq Loops
    OBVIOUS
  <2> HIDE DEF owned
  <2>3. TypeOK'
    BY <2>1, DropType DEF TypeOK
  <2>4. \A q \in Runs : /\ run'[q].loop = run[q].loop
                        /\ run'[q].phase # "unborn" =>
                             run[q].phase # "unborn" \/ run[q].loop \in owned
    BY <2>1 DEF DropLoopRows, TypeOK, RunRow
  <2> QED
    BY <2>2, <2>3, <2>4 DEF RunsHaveLoops
<1>2. ASSUME NEW status \in {"online", "offline"}, SetMachineOnline(status)
      PROVE  TypeInv'
  BY <1>2 DEF SetMachineOnline, TypeOK, RunsHaveLoops
<1>3. ASSUME NEW reported, ReleaseAbsentReconciliations(reported)
      PROVE  TypeInv'
  <2>1. \A q \in Runs : [lease[q] EXCEPT !.state = "reconciliation-only"] \in LeaseRow
    BY DEF TypeOK, LeaseRow
  <2>2. lease' \in [Runs -> LeaseRow]
    BY <1>3, <2>1 DEF ReleaseAbsentReconciliations, TypeOK
  <2> QED
    BY <1>3, <2>2 DEF ReleaseAbsentReconciliations, TypeOK, RunsHaveLoops
<1> QED
  BY <1>1, <1>2, <1>3 DEF MachineStep

\* Initially the tables are empty.
LEMMA InitType == Init => TypeInv
  BY ConstantsAssumption DEF Init, TypeInv, TypeOK, RunsHaveLoops, LoopRow, RunRow,
     LeaseRow, ReceiptRow, Modes, Overlaps

\* A step keeps the tables well-formed.
LEMMA StepType == TypeInv /\ [Next]_vars => TypeInv'
<1> SUFFICES ASSUME TypeInv, [Next]_vars PROVE TypeInv'
  OBVIOUS
<1>1. CASE UNCHANGED vars
  BY <1>1 DEF vars, TypeInv, TypeOK, RunsHaveLoops
<1>2. CASE Next
  BY <1>2, ConstantsAssumption, LoopStepType, RunStepType, ReportStepType, MachineStepType
     DEF Next
<1> QED
  BY <1>1, <1>2

\* Every row has the shape the schema gives it, and every run row names its loop.
THEOREM TypeCorrect == Spec => [](TypeOK /\ RunsHaveLoops)
  BY InitType, StepType, PTL DEF Spec, TypeInv

-----------------------------------------------------------------------------
(* Authority.  SingleAuthority is not inductive alone: a claim adds a fence *)
(* to a loop that has none, but a run must not be claimed, or its row       *)
(* inserted, with a lease it already has.  AuthorityMatchesPhase says so.   *)

Authority == AuthorityMatchesPhase /\ SingleAuthority

\* A step that leaves the leases alone and every run quiet.
LEMMA QuietAuthority ==
  ASSUME TypeInv, Authority, lease' = lease, \A q \in Runs : QuietRow(q)
  PROVE  Authority'
<1>1. AuthorityMatchesPhase'
  BY DEF Authority, AuthorityMatchesPhase, QuietRow
<1>2. \A q \in Runs : Fences(q)' <=> Fences(q)
  BY DEF Fences, Grace
<1>3. \A q \in Runs : Fences(q) => run'[q].loop = run[q].loop
  BY DEF Fences, Grace, Authority, AuthorityMatchesPhase, QuietRow
<1>4. SingleAuthority'
  BY <1>2, <1>3 DEF Authority, SingleAuthority
<1> QED
  BY <1>1, <1>4 DEF Authority

\* A step that ends run r, or moves its lease on, and is quiet for the others.
LEMMA EndAuthority ==
  ASSUME TypeInv, Authority, NEW r \in Runs, NEW x \in LeaseRow,
         lease' = [lease EXCEPT ![r] = x], x.state \notin {"active", "none"},
         x.state = "terminal-grace" /\ ~x.elapsed => Fences(r),
         x.state \in {"terminal-grace", "reconciliation-only"} => run'[r].phase = "error",
         run'[r].phase \notin {"unborn", "pending", "running"},
         run'[r].loop = run[r].loop, \A q \in Runs \ {r} : QuietRow(q)
  PROVE  Authority'
<1>1. /\ lease'[r] = x
      /\ \A q \in Runs \ {r} : lease'[q] = lease[q]
  BY DEF TypeInv, TypeOK
<1>2. AuthorityMatchesPhase'
  <2> SUFFICES ASSUME NEW q \in Runs
               PROVE  /\ run'[q].phase = "running" <=> lease'[q].state = "active"
                      /\ lease'[q].state \in {"terminal-grace", "reconciliation-only"}
                           => run'[q].phase = "error"
                      /\ run'[q].phase \in {"unborn", "pending"} => lease'[q].state = "none"
    BY DEF AuthorityMatchesPhase
  <2>1. CASE q = r
    BY <1>1, <2>1
  <2>2. CASE q # r
    BY <1>1, <2>2 DEF Authority, AuthorityMatchesPhase, QuietRow
  <2> QED
    BY <2>1, <2>2
<1>3. \A q \in Runs : Fences(q)' => Fences(q)
  BY <1>1 DEF Fences, Grace
<1>4. \A q \in Runs : Fences(q) => run'[q].loop = run[q].loop
  BY DEF Fences, Grace, Authority, AuthorityMatchesPhase, QuietRow
<1>5. SingleAuthority'
  BY <1>3, <1>4 DEF Authority, SingleAuthority
<1> QED
  BY <1>2, <1>5 DEF Authority

\* Dropping loops drops their fences.
LEMMA DropAuthority ==
  ASSUME TypeInv, Authority, NEW S \in SUBSET Loops, NEW states, DropLoopRows(S),
         RetireLeases(S, states),
         \A r \in Runs : run[r].loop \in S =>
            lease[r].state \in states \cup {"none", "retired", "consumed"}
  PROVE  Authority'
<1>1. ASSUME NEW q \in Runs
      PROVE  IF run[q].loop \in S
             THEN /\ run'[q].phase = "deleted" /\ run'[q].loop = run[q].loop
                  /\ lease'[q].state \in {"none", "retired", "consumed"}
             ELSE run'[q] = run[q] /\ lease'[q] = lease[q]
  <2>1. run[q] \in RunRow
    BY DEF TypeInv, TypeOK
  <2>2. /\ [run[q] EXCEPT !.phase = "deleted"].phase = "deleted"
        /\ [run[q] EXCEPT !.phase = "deleted"].loop = run[q].loop
    BY <2>1 DEF RunRow
  <2> QED
    BY <2>2 DEF DropLoopRows, RetireLeases
<1>2. AuthorityMatchesPhase'
  BY <1>1 DEF Authority, AuthorityMatchesPhase
<1>3. \A q \in Runs : Fences(q)' => Fences(q) /\ run'[q].loop = run[q].loop
  BY <1>1 DEF Fences, Grace
<1>4. SingleAuthority'
  BY <1>3 DEF Authority, SingleAuthority
<1> QED
  BY <1>2, <1>4 DEF Authority

\* A deletion of loops, with the leases each kind of deletion retires.
LEMMA DeletionAuthority ==
  ASSUME TypeInv, Authority,
         \/ \E l \in Loops : TryDeleteLoop(l) \/ ForceDeleteLoop(l)
         \/ ForceDeleteMachine
  PROVE  Authority'
<1>1. \A r \in Runs : lease[r].state \in Authorities \cup {"none", "retired", "consumed"}
  BY DEF TypeInv, TypeOK, LeaseRow, Authorities
<1>2. ASSUME NEW l \in Loops, TryDeleteLoop(l)
      PROVE  Authority'
  <2>1. \A r \in Runs : run[r].loop \in {l} =>
           lease[r].state \in {"reconciliation-only"} \cup {"none", "retired", "consumed"}
    BY <1>1, <1>2 DEF TryDeleteLoop, Deletable, Authorities
  <2> QED
    BY <1>2, <2>1, DropAuthority DEF TryDeleteLoop, Deletable
<1>3. ASSUME NEW l \in Loops, ForceDeleteLoop(l)
      PROVE  Authority'
  BY <1>1, <1>3, DropAuthority DEF ForceDeleteLoop
<1>4. CASE ForceDeleteMachine
  <2> DEFINE owned == {l \in Loops : Present(l)}
  <2>1. owned \in SUBSET Loops /\ DropLoopRows(owned) /\ RetireLeases(owned, Authorities)
    BY <1>4 DEF ForceDeleteMachine
  <2> HIDE DEF owned
  <2> QED
    BY <1>1, <2>1, DropAuthority
<1> QED
  BY <1>2, <1>3, <1>4

\* The steps on loop l that delete nothing are quiet.
LEMMA LoopStepQuiet ==
  ASSUME TypeInv, NEW l \in Loops, LoopStep(l), ~TryDeleteLoop(l), ~ForceDeleteLoop(l)
  PROVE  lease' = lease /\ \A q \in Runs : QuietRow(q)
<1>1. ASSUME NEW on, NEW m, NEW o, NEW retimed, PatchLoop(l, on, m, o, retimed)
      PROVE  lease' = lease /\ \A q \in Runs : QuietRow(q)
  BY <1>1, QueueCanceledQuiet DEF PatchLoop, QuietRow, TypeInv
<1>2. ASSUME NEW deleting, Stop(l, deleting)
      PROVE  lease' = lease /\ \A q \in Runs : QuietRow(q)
  <2>1. ASSUME NEW q \in Runs
        PROVE  /\ [run[q] EXCEPT !.cancel = TRUE].loop = run[q].loop
               /\ [run[q] EXCEPT !.cancel = TRUE].phase = run[q].phase
    BY DEF TypeInv, TypeOK, RunRow
  <2> QED
    BY <1>2, <2>1, QueueCanceledQuiet DEF Stop, StopRows, QuietRow, TypeInv
<1>3. CASE UNCHANGED <<lease, run>>
  BY <1>3 DEF QuietRow
<1>4. CASE EnqueueRun(l) \/ AdvanceSchedule(l)
  BY <1>3, <1>4, EnqueueType DEF EnqueueRun, AdvanceSchedule
<1> QED
  BY <1>1, <1>2, <1>3, <1>4 DEF LoopStep, CreateLoop, UpdateLoop, PauseLoop, StartLoop,
     StopLoop, RequestDeleteLoop, CadenceFallsDue

\* A claim adds the only fence of its loop.
LEMMA ClaimAuthority ==
  ASSUME TypeInv, Authority, NEW r \in Runs, NEW reported, ClaimReadyRun(r, reported)
  PROVE  Authority'
<1>1. /\ run[r].phase = "pending" /\ ~Fenced(run[r].loop)
      /\ lease[r].state = "none"
  BY DEF ClaimReadyRun, Claimable, Authority, AuthorityMatchesPhase
<1>2. /\ lease' = [lease EXCEPT ![r] = [state |-> "active", elapsed |-> FALSE]]
      /\ run'[r].phase = "running" /\ run'[r].loop = run[r].loop
      /\ \A q \in Runs \ {r} : run'[q] = run[q]
  BY DEF ClaimReadyRun, TypeInv, TypeOK, RunRow
<1>3. /\ lease'[r].state = "active"
      /\ \A q \in Runs \ {r} : lease'[q] = lease[q]
  BY <1>2 DEF TypeInv, TypeOK
<1>4. AuthorityMatchesPhase'
  BY <1>2, <1>3 DEF Authority, AuthorityMatchesPhase
<1>5. \A q \in Runs \ {r} : Fences(q)' => Fences(q) /\ run[q].loop # run[r].loop
  BY <1>1, <1>3 DEF Fences, Grace, Fenced
<1>6. SingleAuthority'
  <2> SUFFICES ASSUME NEW p \in Runs, NEW q \in Runs, Fences(p)', Fences(q)',
                      run'[p].loop = run'[q].loop
               PROVE  p = q
    BY DEF SingleAuthority
  <2>1. CASE p # r /\ q # r
    BY <1>2, <1>5, <2>1 DEF Authority, SingleAuthority
  <2>2. CASE p = r \/ q = r
    BY <1>2, <1>5, <2>2
  <2> QED
    BY <2>1, <2>2
<1> QED
  BY <1>4, <1>6 DEF Authority

\* The steps on run r.
LEMMA RunStepAuthority ==
  ASSUME TypeInv, Authority, NEW r \in Runs, RunStep(r)
  PROVE  Authority'
<1> USE DEF TypeInv
<1>1. CASE RequestRunCancel(r) \/ ExpirePendingRun(r)
  <2>1. \A q \in Runs : QuietRow(q)
    BY <1>1 DEF RequestRunCancel, ExpirePendingRun, QuietRow, TypeOK, RunRow
  <2> QED
    BY <1>1, <2>1, QuietAuthority DEF RequestRunCancel, ExpirePendingRun
<1>2. CASE ReclaimRun(r)
  <2> DEFINE x == [state |-> "terminal-grace", elapsed |-> FALSE]
  <2>1. lease[r].state = "active"
    BY <1>2 DEF ReclaimRun, Authority, AuthorityMatchesPhase
  <2>2. x \in LeaseRow /\ lease' = [lease EXCEPT ![r] = x] /\ Fences(r)
    BY <1>2, <2>1 DEF ReclaimRun, LeaseRow, Fences, TypeOK
  <2>3. /\ run'[r].phase = "error" /\ run'[r].loop = run[r].loop
        /\ \A q \in Runs \ {r} : QuietRow(q)
    BY <1>2, SettleRunQuiet DEF ReclaimRun
  <2> QED
    BY <2>2, <2>3, EndAuthority
<1>3. CASE RetireElapsed(r)
  <2> DEFINE x == [state |-> "retired", elapsed |-> FALSE]
  <2>1. x \in LeaseRow /\ lease' = [lease EXCEPT ![r] = x] /\ UNCHANGED run
    BY <1>3 DEF RetireElapsed, LeaseRow
  <2>2. run[r].phase = "error"
    BY <1>3 DEF RetireElapsed, Authority, AuthorityMatchesPhase
  <2> QED
    BY <2>1, <2>2, EndAuthority DEF QuietRow
<1>4. CASE LeaseElapses(r)
  <2> DEFINE x == [lease[r] EXCEPT !.elapsed = TRUE]
  <2>1. lease' = [lease EXCEPT ![r] = x] /\ UNCHANGED run
    BY <1>4 DEF LeaseElapses, TypeOK
  <2>2. x \in LeaseRow /\ x.elapsed /\ x.state = lease[r].state
    BY DEF TypeOK, LeaseRow
  <2>3. run[r].phase = "error" /\ x.state \in {"terminal-grace", "reconciliation-only"}
    BY <1>4, <2>2 DEF LeaseElapses, Reconcilable, Authority, AuthorityMatchesPhase
  <2> HIDE DEF x
  <2> QED
    BY <2>1, <2>2, <2>3, EndAuthority DEF QuietRow
<1>5. ASSUME NEW reported, ClaimReadyRun(r, reported)
      PROVE  Authority'
  BY <1>5, ClaimAuthority
<1> QED
  BY <1>1, <1>2, <1>3, <1>4, <1>5 DEF RunStep

\* The steps on a report of run r: each consumes the lease of a run that is over.
LEMMA ReportStepAuthority ==
  ASSUME TypeInv, Authority, NEW r \in Runs, NEW rid \in ReportIds, ReportStep(r, rid)
  PROVE  Authority'
<1> USE DEF TypeInv
<1> DEFINE x == [state |-> "consumed", elapsed |-> FALSE]
<1>1. ASSUME Consume(r), run'[r].loop = run[r].loop,
             run'[r].phase \notin {"unborn", "pending", "running"},
             \A q \in Runs \ {r} : QuietRow(q)
      PROVE  Authority'
  <2>1. x \in LeaseRow /\ lease' = [lease EXCEPT ![r] = x]
    BY <1>1 DEF Consume, LeaseRow
  <2> QED
    BY <1>1, <2>1, EndAuthority
<1>2. ASSUME Consume(r), UNCHANGED run,
             run[r].phase \in Terminal \/ lease[r].state = "retired"
      PROVE  Authority'
  <2>1. run[r].phase \notin {"unborn", "pending", "running"}
    BY <1>2 DEF Terminal, Authority, AuthorityMatchesPhase
  <2> QED
    BY <1>1, <1>2, <2>1 DEF QuietRow
<1>3. ASSUME NEW ph \in Terminal, NEW block, NEW streak, Consume(r),
             SettleRun(r, ph, block, streak)
      PROVE  Authority'
  <2>1. /\ run'[r].phase = ph /\ run'[r].loop = run[r].loop
        /\ \A q \in Runs \ {r} : QuietRow(q)
    BY <1>3, SettleRunQuiet
  <2> QED
    BY <1>1, <1>3, <2>1 DEF Terminal
<1>4. ASSUME NEW outcome \in Outcomes
      PROVE  PhaseOf(outcome) \in Terminal
  BY <1>4 DEF Outcomes, PhaseOf, Terminal
<1>5. ASSUME NEW outcome \in Outcomes, FinalizeRunningRun(r, rid, outcome)
      PROVE  Authority'
  BY <1>3, <1>4, <1>5 DEF FinalizeRunningRun
<1>6. ASSUME NEW outcome \in Outcomes, ReconcileReclaimedRun(r, rid, outcome)
      PROVE  Authority'
  <2>1. CASE lease[r].state = "reconciliation-only"
    <3>1. run' = [run EXCEPT ![r] = [run[r] EXCEPT !.phase = PhaseOf(outcome)]]
      BY <1>6, <2>1 DEF ReconcileReclaimedRun, TypeOK
    <3>2. /\ run'[r].phase = PhaseOf(outcome) /\ run'[r].loop = run[r].loop
          /\ \A q \in Runs \ {r} : run'[q] = run[q]
      BY <3>1 DEF TypeOK, RunRow
    <3> QED
      BY <1>1, <1>4, <1>6, <3>2 DEF ReconcileReclaimedRun, Terminal, QuietRow
  <2>2. CASE lease[r].state # "reconciliation-only"
    BY <1>3, <1>4, <1>6, <2>2 DEF ReconcileReclaimedRun
  <2> QED
    BY <2>1, <2>2
<1>7. CASE RejectTerminalReport(r, rid)
  BY <1>2, <1>3, <1>7 DEF RejectTerminalReport, Rejectable, Terminal
<1>8. CASE AcknowledgeRetiredReport(r, rid) \/ AcknowledgeRetiredTerminalIncident(r, rid)
  BY <1>2, <1>8 DEF AcknowledgeRetiredReport, AcknowledgeRetiredTerminalIncident
<1>9. CASE IgnoreCanceledReport(r, rid)
  BY <1>2, <1>9 DEF IgnoreCanceledReport, Terminal
<1> QED
  BY <1>5, <1>6, <1>7, <1>8, <1>9 DEF ReportStep

\* A disavowal takes fences away.
LEMMA ReleaseAuthority ==
  ASSUME TypeInv, Authority, NEW reported, ReleaseAbsentReconciliations(reported)
  PROVE  Authority'
<1>1. ASSUME NEW q \in Runs
      PROVE  /\ run'[q] = run[q]
             /\ \/ lease'[q] = lease[q]
                \/ Grace(q) /\ lease'[q].state = "reconciliation-only"
  <2>1. [lease[q] EXCEPT !.state = "reconciliation-only"].state = "reconciliation-only"
    BY DEF TypeInv, TypeOK, LeaseRow
  <2> QED
    BY <2>1 DEF ReleaseAbsentReconciliations
<1>2. AuthorityMatchesPhase'
  BY <1>1 DEF Authority, AuthorityMatchesPhase, Grace
<1>3. \A q \in Runs : Fences(q)' => Fences(q)
  BY <1>1 DEF Fences, Grace
<1>4. SingleAuthority'
  BY <1>1, <1>3 DEF Authority, SingleAuthority
<1> QED
  BY <1>2, <1>4 DEF Authority

\* Every step.
LEMMA StepAuthority == TypeInv /\ Authority /\ [Next]_vars => Authority'
<1> SUFFICES ASSUME TypeInv, Authority, [Next]_vars PROVE Authority'
  OBVIOUS
<1>1. CASE UNCHANGED vars
  BY <1>1, QuietAuthority DEF vars, QuietRow
<1>2. ASSUME NEW l \in Loops, LoopStep(l) PROVE Authority'
  BY <1>2, LoopStepQuiet, QuietAuthority, DeletionAuthority
<1>3. ASSUME NEW r \in Runs, RunStep(r) PROVE Authority'
  BY <1>3, RunStepAuthority
<1>4. ASSUME NEW r \in Runs, NEW rid \in ReportIds, ReportStep(r, rid) PROVE Authority'
  BY <1>4, ReportStepAuthority
<1>5. CASE MachineStep
  <2>1. CASE ForceDeleteMachine
    BY <2>1, DeletionAuthority
  <2>2. ASSUME NEW status, SetMachineOnline(status) PROVE Authority'
    BY <2>2, QuietAuthority DEF SetMachineOnline, QuietRow
  <2> QED
    BY <1>5, <2>1, <2>2, ReleaseAuthority DEF MachineStep
<1> QED
  BY <1>1, <1>2, <1>3, <1>4, <1>5 DEF Next

\* Initially no lease exists.
LEMMA InitAuthority == Init => Authority
  BY DEF Init, Authority, AuthorityMatchesPhase, SingleAuthority, Fences, Grace

\* A run is running exactly while its lease is active, and a lease that lets a late
\* report in belongs to a run that was given up: no transaction of the store moves
\* one without the other.
THEOREM AuthorityFollowsPhase == Spec => []AuthorityMatchesPhase
<1>1. TypeInv /\ Authority /\ [Next]_vars => (TypeInv /\ Authority)'
  BY StepType, StepAuthority
<1>2. Init => TypeInv /\ Authority
  BY InitType, InitAuthority
<1> QED
  BY <1>1, <1>2, PTL DEF Spec, Authority

\* No loop ever has two runs that are executing or may still be: of all the claims,
\* sweeps, disavowals, late reports and deletions, in whatever order they come.
THEOREM OneRunHoldsALoop == Spec => []SingleAuthority
<1>1. TypeInv /\ Authority /\ [Next]_vars => (TypeInv /\ Authority)'
  BY StepType, StepAuthority
<1>2. Init => TypeInv /\ Authority
  BY InitType, InitAuthority
<1> QED
  BY <1>1, <1>2, PTL DEF Spec, Authority

-----------------------------------------------------------------------------
(* Evidence.  That a report has one verdict needs the converse of          *)
(* ConsumedLeaseHasEvidence (evidence is only made where a lease is        *)
(* consumed, and consumed it stays), and, because a canceled run may be    *)
(* answered after its lease is gone, that a rejected run is no canceled    *)
(* one.                                                                    *)

GivenUp == {"error", "deleted"}

EvidenceConsumes ==
  \A rid \in ReportIds, r \in Runs :
    receipt[rid].run = r \/ <<rid, r>> \in incident => lease[r].state = "consumed"

RejectedRunsFailed ==
  \A rid \in ReportIds, r \in Runs :
    <<rid, r>> \in incident => receipt[rid].run # NoRun \/ run[r].phase \in GivenUp

RetiredRunsFailed == \A r \in Runs : lease[r].state = "retired" => run[r].phase \in GivenUp

EvidenceInv == /\ ConsumedLeaseHasEvidence /\ OneVerdictPerReport
               /\ EvidenceConsumes /\ RejectedRunsFailed /\ RetiredRunsFailed

-----------------------------------------------------------------------------
(* Steps that make no evidence.                                            *)

\* A lease is consumed by reports only, and what was given up stays so.
Kept(q) ==
  /\ lease'[q].state = "consumed" <=> lease[q].state = "consumed"
  /\ run[q].phase \in GivenUp => run'[q].phase \in GivenUp
  /\ lease'[q].state = "retired" => lease[q].state = "retired" \/ run'[q].phase \in GivenUp

LEMMA EvidenceUnmoved ==
  ASSUME EvidenceInv, UNCHANGED <<receipt, incident>>, \A q \in Runs : Kept(q)
  PROVE  EvidenceInv'
<1>1. ConsumedLeaseHasEvidence' /\ OneVerdictPerReport' /\ EvidenceConsumes'
  BY DEF EvidenceInv, ConsumedLeaseHasEvidence, OneVerdictPerReport, EvidenceConsumes, Kept
<1>2. RejectedRunsFailed' /\ RetiredRunsFailed'
  BY DEF EvidenceInv, RejectedRunsFailed, RetiredRunsFailed, Kept
<1> QED
  BY <1>1, <1>2 DEF EvidenceInv

\* A step that is quiet for a run and leaves its lease keeps it.
LEMMA QuietKept ==
  ASSUME NEW q \in Runs, QuietRow(q), lease'[q] = lease[q]
  PROVE  Kept(q)
  BY DEF QuietRow, Kept, GivenUp

\* Dropping loops retires the leases of runs that are dropped.
LEMMA DropKept ==
  ASSUME TypeInv, NEW S, NEW states, "consumed" \notin states, DropLoopRows(S),
         RetireLeases(S, states), NEW q \in Runs
  PROVE  Kept(q)
<1>1. run[q] \in RunRow
  BY DEF TypeInv, TypeOK
<1>2. IF run[q].loop \in S THEN run'[q].phase = "deleted" ELSE run'[q] = run[q]
  BY <1>1 DEF DropLoopRows, RunRow
<1>3. \/ lease'[q] = lease[q]
      \/ /\ run[q].loop \in S /\ lease[q].state \in states
         /\ lease'[q].state = "retired"
  BY DEF RetireLeases
<1> QED
  BY <1>2, <1>3 DEF Kept, GivenUp

LEMMA LoopStepAnswersNothing ==
  ASSUME NEW l \in Loops, LoopStep(l)
  PROVE  UNCHANGED <<receipt, incident>>
<1>1. ASSUME NEW on, NEW m, NEW o, NEW retimed, PatchLoop(l, on, m, o, retimed)
      PROVE  UNCHANGED <<receipt, incident>>
  BY <1>1 DEF PatchLoop
<1>2. CASE UpdateLoop(l) \/ PauseLoop(l) \/ StartLoop(l)
  BY <1>1, <1>2 DEF UpdateLoop, PauseLoop, StartLoop
<1>3. CASE StopLoop(l) \/ RequestDeleteLoop(l)
  BY <1>3 DEF StopLoop, RequestDeleteLoop, Stop
<1>4. ASSUME NEW e, NEW m, NEW o, CreateLoop(l, e, m, o)
      PROVE  UNCHANGED <<receipt, incident>>
  BY <1>4 DEF CreateLoop
<1>5. CASE TryDeleteLoop(l) \/ ForceDeleteLoop(l)
  BY <1>5 DEF TryDeleteLoop, ForceDeleteLoop
<1>6. CASE EnqueueRun(l) \/ AdvanceSchedule(l) \/ CadenceFallsDue(l)
  BY <1>6 DEF EnqueueRun, AdvanceSchedule, CadenceFallsDue
<1> QED
  BY <1>2, <1>3, <1>4, <1>5, <1>6 DEF LoopStep

LEMMA LoopStepEvidence ==
  ASSUME TypeInv, EvidenceInv, NEW l \in Loops, LoopStep(l)
  PROVE  EvidenceInv'
<1>1. UNCHANGED <<receipt, incident>>
  BY LoopStepAnswersNothing
<1>2. CASE TryDeleteLoop(l) \/ ForceDeleteLoop(l)
  <2>1. DropLoopRows({l}) /\ \E states \in {Authorities, {"reconciliation-only"}} :
                               RetireLeases({l}, states)
    BY <1>2 DEF TryDeleteLoop, ForceDeleteLoop
  <2>2. \A q \in Runs : Kept(q)
    BY <2>1, DropKept DEF Authorities
  <2> QED
    BY <1>1, <2>2, EvidenceUnmoved
<1>3. CASE ~TryDeleteLoop(l) /\ ~ForceDeleteLoop(l)
  <2>1. lease' = lease /\ \A q \in Runs : QuietRow(q)
    BY <1>3, LoopStepQuiet
  <2> QED
    BY <1>1, <2>1, QuietKept, EvidenceUnmoved
<1> QED
  BY <1>2, <1>3

LEMMA RunStepEvidence ==
  ASSUME TypeInv, Authority, EvidenceInv, NEW r \in Runs, RunStep(r)
  PROVE  EvidenceInv'
<1> USE DEF TypeInv
<1>1. UNCHANGED <<receipt, incident>>
  BY DEF RunStep, RequestRunCancel, ExpirePendingRun, ReclaimRun, RetireElapsed,
     LeaseElapses, ClaimReadyRun
<1>2. CASE RequestRunCancel(r) \/ ExpirePendingRun(r)
  <2>1. lease' = lease /\ \A q \in Runs : QuietRow(q)
    BY <1>2 DEF RequestRunCancel, ExpirePendingRun, QuietRow, TypeOK, RunRow
  <2> QED
    BY <1>1, <2>1, QuietKept, EvidenceUnmoved
<1>3. CASE ReclaimRun(r)
  <2>1. /\ lease[r].state = "active"
        /\ lease' = [lease EXCEPT ![r] = [state |-> "terminal-grace", elapsed |-> FALSE]]
    BY <1>3 DEF ReclaimRun, Authority, AuthorityMatchesPhase, TypeOK
  <2>2. run'[r].phase = "error" /\ \A q \in Runs \ {r} : QuietRow(q)
    BY <1>3, SettleRunQuiet DEF ReclaimRun
  <2>3. ASSUME NEW q \in Runs PROVE Kept(q)
    <3>1. CASE q = r
      BY <2>1, <2>2, <3>1 DEF Kept, GivenUp, TypeOK
    <3>2. CASE q # r
      BY <2>1, <2>2, <3>2, QuietKept DEF TypeOK
    <3> QED
      BY <3>1, <3>2
  <2> QED
    BY <1>1, <2>3, EvidenceUnmoved
<1>4. CASE RetireElapsed(r)
  <2>1. run[r].phase = "error"
    BY <1>4 DEF RetireElapsed, Authority, AuthorityMatchesPhase
  <2>2. \A q \in Runs : Kept(q)
    BY <1>4, <2>1 DEF RetireElapsed, Kept, GivenUp, TypeOK
  <2> QED
    BY <1>1, <2>2, EvidenceUnmoved
<1>5. CASE LeaseElapses(r)
  <2>1. \A q \in Runs : lease'[q].state = lease[q].state /\ run'[q] = run[q]
    BY <1>5 DEF LeaseElapses, TypeOK, LeaseRow
  <2> QED
    BY <1>1, <2>1, EvidenceUnmoved DEF Kept
<1>6. ASSUME NEW reported, ClaimReadyRun(r, reported)
      PROVE  EvidenceInv'
  <2>1. run[r].phase = "pending" /\ lease[r].state = "none"
    BY <1>6 DEF ClaimReadyRun, Claimable, Authority, AuthorityMatchesPhase
  <2>2. /\ lease'[r].state = "active"
        /\ \A q \in Runs \ {r} : lease'[q] = lease[q] /\ run'[q] = run[q]
    BY <1>6 DEF ClaimReadyRun, TypeOK
  <2>3. \A q \in Runs : Kept(q)
    BY <2>1, <2>2 DEF Kept, GivenUp
  <2> QED
    BY <1>1, <2>3, EvidenceUnmoved
<1> QED
  BY <1>2, <1>3, <1>4, <1>5, <1>6 DEF RunStep

LEMMA MachineStepEvidence ==
  ASSUME TypeInv, EvidenceInv, MachineStep
  PROVE  EvidenceInv'
<1>1. UNCHANGED <<receipt, incident>>
  BY DEF MachineStep, ForceDeleteMachine, SetMachineOnline, ReleaseAbsentReconciliations
<1>2. CASE ForceDeleteMachine
  <2> DEFINE owned == {l \in Loops : Present(l)}
  <2>1. DropLoopRows(owned) /\ RetireLeases(owned, Authorities)
    BY <1>2 DEF ForceDeleteMachine
  <2> HIDE DEF owned
  <2>2. \A q \in Runs : Kept(q)
    BY <2>1, DropKept DEF Authorities
  <2> QED
    BY <1>1, <2>2, EvidenceUnmoved
<1>3. ASSUME NEW status, SetMachineOnline(status)
      PROVE  EvidenceInv'
  BY <1>1, <1>3, EvidenceUnmoved DEF SetMachineOnline, Kept
<1>4. ASSUME NEW reported, ReleaseAbsentReconciliations(reported)
      PROVE  EvidenceInv'
  <2>1. ASSUME NEW q \in Runs PROVE Kept(q)
    <3>1. [lease[q] EXCEPT !.state = "reconciliation-only"].state = "reconciliation-only"
      BY DEF TypeInv, TypeOK, LeaseRow
    <3> QED
      BY <1>4, <3>1 DEF ReleaseAbsentReconciliations, Grace, Kept
  <2> QED
    BY <1>1, <2>1, EvidenceUnmoved
<1> QED
  BY <1>2, <1>3, <1>4 DEF MachineStep

-----------------------------------------------------------------------------
(* Reports.                                                                *)

\* A report consumes the lease of its run and leaves a receipt, or an incident.
LEMMA ReportEvidence ==
  ASSUME TypeInv, EvidenceInv, NEW r \in Runs, NEW rid \in ReportIds, Consume(r),
         \A q \in Runs \ {r} : QuietRow(q),
         \/ /\ \E status \in {200, 410} : Answer(r, rid, status)
            /\ receipt[rid].run \in {NoRun, r}
            /\ incident' = incident /\ <<rid, r>> \notin incident
         \/ /\ incident' = incident \cup {<<rid, r>>}
            /\ receipt' = receipt /\ receipt[rid].run # r
            /\ receipt[rid].run # NoRun \/ run'[r].phase \in GivenUp,
         lease[r].state = "consumed" => run'[r].phase = run[r].phase
  PROVE  EvidenceInv'
<1>1. /\ lease'[r].state = "consumed"
      /\ \A q \in Runs \ {r} : lease'[q] = lease[q]
  BY DEF Consume, TypeInv, TypeOK
<1>2. \A q \in Runs \ {r} : Kept(q)
  BY <1>1, QuietKept
<1>3. /\ r # NoRun
      /\ \A x \in ReportIds \ {rid} : receipt'[x] = receipt[x]
      /\ receipt'[rid].run = r \/ receipt'[rid] = receipt[rid]
      /\ receipt[rid].run \notin {NoRun, r} => receipt'[rid] = receipt[rid]
      /\ receipt'[rid].run = r \/ <<rid, r>> \in incident'
  BY DEF Answer, TypeInv, TypeOK, Runs, NoRun
<1>4. incident \subseteq incident' /\ incident' \subseteq incident \cup {<<rid, r>>}
  OBVIOUS
<1>5. ConsumedLeaseHasEvidence'
  <2> SUFFICES ASSUME NEW q \in Runs, lease'[q].state = "consumed"
               PROVE  \E x \in ReportIds : receipt'[x].run = q \/ <<x, q>> \in incident'
    BY DEF ConsumedLeaseHasEvidence
  <2>1. CASE q = r
    BY <1>3, <2>1
  <2>2. CASE q # r
    <3>1. lease[q].state = "consumed"
      BY <1>1, <2>2
    <3>2. PICK x \in ReportIds : receipt[x].run = q \/ <<x, q>> \in incident
      BY <3>1 DEF EvidenceInv, ConsumedLeaseHasEvidence
    <3>3. receipt[x].run = q => receipt'[x].run = q
      BY <1>3, <2>2 DEF Runs, NoRun
    <3> QED
      BY <1>4, <3>2, <3>3
  <2> QED
    BY <2>1, <2>2
<1>6. OneVerdictPerReport'
  <2> SUFFICES ASSUME NEW x \in ReportIds, NEW q \in Runs, receipt'[x].run = q,
                      <<x, q>> \in incident'
               PROVE  FALSE
    BY DEF OneVerdictPerReport
  <2>1. ~(receipt[x].run = q /\ <<x, q>> \in incident)
    BY DEF EvidenceInv, OneVerdictPerReport
  <2>2. CASE x = rid /\ q = r
    BY <2>1, <2>2 DEF TypeInv, TypeOK
  <2>3. CASE ~(x = rid /\ q = r)
    BY <1>3, <1>4, <2>1, <2>3
  <2> QED
    BY <2>2, <2>3
<1>7. EvidenceConsumes'
  BY <1>1, <1>3, <1>4 DEF EvidenceInv, EvidenceConsumes
<1>8. RejectedRunsFailed'
  <2> SUFFICES ASSUME NEW x \in ReportIds, NEW q \in Runs, <<x, q>> \in incident'
               PROVE  receipt'[x].run # NoRun \/ run'[q].phase \in GivenUp
    BY DEF RejectedRunsFailed
  <2>1. CASE <<x, q>> \in incident
    <3>1. receipt[x].run # NoRun \/ run[q].phase \in GivenUp
      BY <2>1 DEF EvidenceInv, RejectedRunsFailed
    <3>2. lease[q].state = "consumed"
      BY <2>1 DEF EvidenceInv, EvidenceConsumes
    <3>3. run[q].phase \in GivenUp => run'[q].phase \in GivenUp
      BY <1>2, <3>2 DEF Kept
    <3> QED
      BY <1>3, <3>1, <3>3
  <2>2. CASE <<x, q>> = <<rid, r>> /\ incident' # incident
    BY <1>3, <2>2
  <2> QED
    BY <1>4, <2>1, <2>2
<1>9. RetiredRunsFailed'
  BY <1>1, <1>2 DEF EvidenceInv, RetiredRunsFailed, Kept
<1> QED
  BY <1>5, <1>6, <1>7, <1>8, <1>9 DEF EvidenceInv

LEMMA ReportStepEvidence ==
  ASSUME TypeInv, Authority, EvidenceInv, NEW r \in Runs, NEW rid \in ReportIds,
         ReportStep(r, rid)
  PROVE  EvidenceInv'
<1>1. \A q \in Runs : run'[q] = run[q] => QuietRow(q)
  BY DEF QuietRow
<1>2. lease[r].state # "consumed" => <<rid, r>> \notin incident /\ receipt[rid].run # r
  BY DEF EvidenceInv, EvidenceConsumes
<1>3. ASSUME NEW ph, NEW block, NEW streak, SettleRun(r, ph, block, streak)
      PROVE  run'[r].phase = ph /\ \A q \in Runs \ {r} : QuietRow(q)
  BY <1>3, SettleRunQuiet DEF TypeInv
<1>4. ASSUME NEW outcome \in Outcomes, FinalizeRunningRun(r, rid, outcome)
      PROVE  EvidenceInv'
  BY <1>2, <1>3, <1>4, ReportEvidence DEF FinalizeRunningRun, Unanswered
<1>5. ASSUME NEW outcome \in Outcomes, ReconcileReclaimedRun(r, rid, outcome)
      PROVE  EvidenceInv'
  <2>1. \A q \in Runs \ {r} : QuietRow(q)
    BY <1>1, <1>3, <1>5 DEF ReconcileReclaimedRun, TypeInv, TypeOK
  <2> QED
    BY <1>2, <1>5, <2>1, ReportEvidence DEF ReconcileReclaimedRun, Unanswered, Reconcilable
<1>6. CASE RejectTerminalReport(r, rid)
  <2>1. lease[r].state # "consumed"
    BY <1>6 DEF RejectTerminalReport, Rejectable, Reconcilable
  <2>2. /\ run'[r].phase \in GivenUp
        /\ \A q \in Runs \ {r} : QuietRow(q)
    <3>1. CASE run[r].phase = "running" /\ SettleRun(r, "error", FALSE, AutopauseStreak)
      BY <1>3, <3>1 DEF GivenUp
    <3>2. CASE run[r].phase \in Terminal /\ UNCHANGED run
      <4>1. run[r].phase = "error"
        BY <1>6, <3>2 DEF RejectTerminalReport, Rejectable, Reconcilable, Terminal, Authority,
           AuthorityMatchesPhase
      <4> QED
        BY <1>1, <3>2, <4>1 DEF GivenUp
    <3> QED
      BY <1>6, <3>1, <3>2 DEF RejectTerminalReport
  <2> QED
    BY <1>6, <2>1, <2>2, ReportEvidence DEF RejectTerminalReport
<1>7. CASE AcknowledgeRetiredReport(r, rid)
  <2>1. lease[r].state = "retired" /\ run' = run /\ receipt[rid].run \in {NoRun, r}
    BY <1>7 DEF AcknowledgeRetiredReport, Unanswered
  <2> QED
    BY <1>1, <1>2, <1>7, <2>1, ReportEvidence DEF AcknowledgeRetiredReport
<1>8. CASE AcknowledgeRetiredTerminalIncident(r, rid)
  <2>1. /\ lease[r].state = "retired" /\ run' = run
        /\ receipt[rid].run # r /\ run[r].phase \in GivenUp
    BY <1>2, <1>8 DEF AcknowledgeRetiredTerminalIncident, EvidenceInv, RetiredRunsFailed
  <2> QED
    BY <1>1, <1>8, <2>1, ReportEvidence DEF AcknowledgeRetiredTerminalIncident
<1>9. CASE IgnoreCanceledReport(r, rid)
  <2>1. run' = run /\ Consume(r)
    BY <1>9 DEF IgnoreCanceledReport
  <2>2. receipt[rid].run = NoRun => <<rid, r>> \notin incident
    BY <1>9 DEF IgnoreCanceledReport, EvidenceInv, RejectedRunsFailed, GivenUp
  <2> QED
    BY <1>1, <1>9, <2>1, <2>2, ReportEvidence DEF IgnoreCanceledReport, Unanswered
<1> QED
  BY <1>4, <1>5, <1>6, <1>7, <1>8, <1>9 DEF ReportStep

-----------------------------------------------------------------------------

LEMMA StepEvidence == TypeInv /\ Authority /\ EvidenceInv /\ [Next]_vars => EvidenceInv'
<1> SUFFICES ASSUME TypeInv, Authority, EvidenceInv, [Next]_vars PROVE EvidenceInv'
  OBVIOUS
<1>1. CASE UNCHANGED vars
  BY <1>1, EvidenceUnmoved DEF vars, Kept
<1>2. CASE Next
  BY <1>2, LoopStepEvidence, RunStepEvidence, ReportStepEvidence, MachineStepEvidence
     DEF Next
<1> QED
  BY <1>1, <1>2

\* Initially there is neither evidence nor a lease.
LEMMA InitEvidence == Init => EvidenceInv
  BY DEF Init, EvidenceInv, ConsumedLeaseHasEvidence, OneVerdictPerReport, EvidenceConsumes,
     RejectedRunsFailed, RetiredRunsFailed, NoRun, Runs

LEMMA EvidenceAlways == Spec => [](TypeInv /\ Authority /\ EvidenceInv)
<1>1. TypeInv /\ Authority /\ EvidenceInv /\ [Next]_vars
        => (TypeInv /\ Authority /\ EvidenceInv)'
  BY StepType, StepAuthority, StepEvidence
<1>2. Init => TypeInv /\ Authority /\ EvidenceInv
  BY InitType, InitAuthority, InitEvidence
<1> QED
  BY <1>1, <1>2, PTL DEF Spec

\* No lease is given up without evidence: whichever of the half dozen ends of report()
\* consumed it, a daemon that lost the answer finds one when it asks again.
THEOREM LeasesLeaveEvidence == Spec => []ConsumedLeaseHasEvidence
  BY EvidenceAlways, PTL DEF EvidenceInv

\* A report of a run is accepted or rejected, never both, although runs may report under
\* each other's reportIds and a canceled run may be answered when its lease is gone.
THEOREM VerdictsAreUnique == Spec => []OneVerdictPerReport
  BY EvidenceAlways, PTL DEF EvidenceInv

\* What is on record stays on record.
EvidenceStays == /\ \A rid \in ReportIds : receipt[rid].run # NoRun => receipt'[rid] = receipt[rid]
                 /\ incident \subseteq incident'

LEMMA StepKeepsEvidence == TypeInv /\ [Next]_vars => EvidenceStays
<1>1. ASSUME TypeInv, NEW r \in Runs, NEW rid \in ReportIds, ReportStep(r, rid)
      PROVE  EvidenceStays
  <2> USE DEF EvidenceStays
  <2>1. CASE UNCHANGED receipt
    BY <1>1, <2>1 DEF ReportStep, FinalizeRunningRun, ReconcileReclaimedRun, IgnoreCanceledReport,
       RejectTerminalReport, AcknowledgeRetiredReport, AcknowledgeRetiredTerminalIncident
  <2>2. ASSUME NEW status, Answer(r, rid, status), incident' = incident,
               Unanswered(rid) \/ receipt[rid] = [run |-> r, status |-> status]
        PROVE  EvidenceStays
    BY <1>1, <2>2 DEF Answer, Unanswered, TypeInv, TypeOK
  <2>3. ASSUME NEW outcome \in Outcomes, FinalizeRunningRun(r, rid, outcome)
        PROVE  EvidenceStays
    BY <2>2, <2>3 DEF FinalizeRunningRun
  <2>4. ASSUME NEW outcome \in Outcomes, ReconcileReclaimedRun(r, rid, outcome)
        PROVE  EvidenceStays
    BY <2>1, <2>2, <2>4 DEF ReconcileReclaimedRun
  <2>5. CASE RejectTerminalReport(r, rid)
    BY <2>1, <2>2, <2>5 DEF RejectTerminalReport
  <2>6. CASE AcknowledgeRetiredReport(r, rid)
    BY <2>1, <2>2, <2>6 DEF AcknowledgeRetiredReport
  <2>7. CASE AcknowledgeRetiredTerminalIncident(r, rid)
    BY <2>1, <2>2, <2>7 DEF AcknowledgeRetiredTerminalIncident
  <2>8. CASE IgnoreCanceledReport(r, rid)
    BY <2>1, <2>2, <2>8 DEF IgnoreCanceledReport
  <2> HIDE DEF EvidenceStays
  <2> QED
    BY <1>1, <2>3, <2>4, <2>5, <2>6, <2>7, <2>8 DEF ReportStep
<1>2. ASSUME NEW l \in Loops, LoopStep(l)
      PROVE  UNCHANGED <<receipt, incident>>
  BY <1>2, LoopStepAnswersNothing
<1>3. ASSUME NEW r \in Runs, RunStep(r)
      PROVE  UNCHANGED <<receipt, incident>>
  BY <1>3 DEF RunStep, RequestRunCancel, ExpirePendingRun, ReclaimRun, RetireElapsed,
     LeaseElapses, ClaimReadyRun
<1>4. ASSUME MachineStep
      PROVE  UNCHANGED <<receipt, incident>>
  BY <1>4 DEF MachineStep, ForceDeleteMachine, SetMachineOnline, ReleaseAbsentReconciliations
<1>5. CASE UNCHANGED <<receipt, incident>>
  BY <1>5 DEF EvidenceStays
<1> QED
  BY <1>1, <1>2, <1>3, <1>4, <1>5 DEF Next, vars

\* Receipts and incidents are final.
THEOREM EvidenceStands == Spec => EvidenceIsFinal
<1>1. TypeInv /\ [Next]_vars => [EvidenceStays]_vars
  BY StepKeepsEvidence
<1> QED
  BY <1>1, EvidenceAlways, PTL DEF Spec, EvidenceIsFinal, EvidenceStays
=============================================================================
