-------------------------- MODULE StoreQueueProofs --------------------------
(***************************************************************************)
(* Proofs about RunStore, for every set of loops and any number of runs:   *)
(* what is queued may be started, a loop's next occurrence follows its     *)
(* switch, its history is numbered without reuse, every transaction is a   *)
(* step of RunLedger or leaves it alone, only a cancellation stalls a      *)
(* continuous loop, and only settled results switch a loop off.            *)
(***************************************************************************)
EXTENDS RunStoreProofs, FiniteSetTheorems

-----------------------------------------------------------------------------
(* The invariant.  A queued run is tied to its loop by what every          *)
(* transaction that closes a loop does to the queue in the same step.      *)

FollowsSwitch(row) ==
  /\ row.enabled /\ row.mode = "cron" => row.cadence # "none"
  /\ ~row.enabled => row.cadence = "none"
  /\ row.deleting => ~row.enabled

\* The loop of a queued run is there, is not going away, and is on if nobody asked
\* for the run.
Awaited(q) ==
  LET row == loop[run[q].loop]
  IN  run[q].phase = "pending" =>
        /\ row.state = "present" /\ ~row.deleting
        /\ run[q].by = "system" => row.enabled

\* What runs in a loop that is going away has been told to stop.
Told(q) == run[q].phase = "running" /\ loop[run[q].loop].deleting => run[q].cancel

OneSlot == \A q, r \in Runs :
             run[q].phase = "pending" /\ run[r].phase = "pending" /\ run[q].loop = run[r].loop
               => q = r

QueueInv == /\ \A l \in Loops : FollowsSwitch(loop[l])
            /\ \A q \in Runs : Awaited(q) /\ Told(q)
            /\ OneSlot

-----------------------------------------------------------------------------
(* Steps that add nothing to the queue and start nothing.                  *)

\* A run that is queued after the step was queued before it, and one that runs ran.
Survivor(q) ==
  /\ run'[q].phase = "pending" =>
       /\ run[q].phase = "pending" /\ run'[q].loop = run[q].loop
       /\ run'[q].by = "system" => run[q].by = "system"
  /\ run'[q].phase = "running" =>
       /\ run[q].phase = "running" /\ run'[q].loop = run[q].loop
       /\ run[q].cancel => run'[q].cancel

\* What a queued run asks of its loop is as it was.
SameGate(l) == /\ loop'[l].state = loop[l].state
               /\ loop'[l].deleting = loop[l].deleting
               /\ loop'[l].enabled = loop[l].enabled

\* Such a step keeps the invariant if the loops S that it opens or closes are right.
LEMMA QueueShrinks ==
  ASSUME TypeInv, QueueInv, NEW S,
         \A q \in Runs : Survivor(q),
         \A l \in Loops : FollowsSwitch(loop'[l]),
         \A l \in Loops \ S : SameGate(l),
         \A q \in Runs : run[q].loop \in S => Awaited(q)' /\ Told(q)'
  PROVE  QueueInv'
<1>1. ASSUME NEW q \in Runs
      PROVE  Awaited(q)' /\ Told(q)'
  <2>1. CASE run[q].loop \in S
    BY <2>1
  <2>2. CASE run[q].loop \notin S /\ run'[q].phase \in Open
    <3>1. /\ run[q].phase \in Open /\ run'[q].loop = run[q].loop
          /\ run[q].phase = run'[q].phase
      BY <2>2 DEF Survivor, Open
    <3>2. run[q].loop \in Loops /\ SameGate(run[q].loop)
      BY <2>2, <3>1 DEF TypeInv, RunsHaveLoops, Open
    <3>3. Awaited(q) /\ Told(q) /\ Survivor(q)
      BY DEF QueueInv
    <3> QED
      BY <3>1, <3>2, <3>3 DEF Awaited, Told, Survivor, SameGate
  <2>3. CASE run'[q].phase \notin Open
    BY <2>3 DEF Awaited, Told, Open
  <2> QED
    BY <2>1, <2>2, <2>3
<1>2. OneSlot'
  BY DEF OneSlot, Survivor, QueueInv
<1> QED
  BY <1>1, <1>2 DEF QueueInv

\* A step that leaves every switch alone.
LEMMA QueueUnmoved ==
  ASSUME TypeInv, QueueInv, \A q \in Runs : Survivor(q), \A l \in Loops : SameGate(l),
         \A l \in Loops : FollowsSwitch(loop'[l])
  PROVE  QueueInv'
<1> DEFINE none == {}
<1>1. /\ \A l \in Loops \ none : SameGate(l)
      /\ \A q \in Runs : run[q].loop \in none => Awaited(q)' /\ Told(q)'
  OBVIOUS
<1> HIDE DEF none
<1> QED
  BY <1>1, QueueShrinks

\* Canceling a queue, or a part of it, is such a step for every run.
LEMMA CanceledSurvive ==
  ASSUME TypeInv, NEW l, NEW who, NEW q \in Runs
  PROVE  LET row == QueueCanceled(l, who)[q]
         IN  /\ row.phase \in Open => row = run[q]
             /\ run[q].loop = l /\ row.phase = "pending" => run[q].by \notin who
             /\ row.loop = run[q].loop
<1>1. run[q] \in RunRow
  BY DEF TypeInv, TypeOK
<1> QED
  BY <1>1 DEF QueueCanceled, Queued, RunRow, Open

\* Settling a run.
LEMMA SettleRunQueue ==
  ASSUME TypeInv, QueueInv, NEW r \in Runs, run[r].loop \in Loops, NEW ph \in Terminal,
         NEW block, NEW streak, SettleRun(r, ph, block, streak)
  PROVE  QueueInv'
<1> DEFINE l == run[r].loop
           pauses == Pauses(r, ph, block, streak)
           canceled == QueueCanceled(l, {"system"})
           rows == IF pauses THEN canceled ELSE run
           off == [loop[l] EXCEPT !.enabled = FALSE, !.cadence = "none",
                                  !.lastRunIndex = IndexAfterCancel(l, {"system"})]
           on == [loop[l] EXCEPT !.cadence = CadenceAfter(r, ph)]
<1>1. /\ loop[l] \in LoopRow /\ FollowsSwitch(loop[l])
      /\ loop' = [loop EXCEPT ![l] = IF pauses THEN off ELSE on]
  BY DEF TypeInv, TypeOK, QueueInv, SettleRun
<1>2. /\ loop'[l] = IF pauses THEN off ELSE on
      /\ \A k \in Loops \ {l} : loop'[k] = loop[k]
  BY <1>1 DEF TypeInv, TypeOK
<1>3. /\ loop'[l].state = loop[l].state /\ loop'[l].deleting = loop[l].deleting
      /\ loop'[l].mode = loop[l].mode
      /\ loop'[l].enabled = IF pauses THEN FALSE ELSE loop[l].enabled
      /\ loop'[l].cadence = IF pauses THEN "none" ELSE CadenceAfter(r, ph)
  <2>1. /\ off.state = loop[l].state /\ off.deleting = loop[l].deleting
        /\ off.mode = loop[l].mode /\ off.enabled = FALSE /\ off.cadence = "none"
        /\ on.state = loop[l].state /\ on.deleting = loop[l].deleting
        /\ on.mode = loop[l].mode /\ on.enabled = loop[l].enabled
        /\ on.cadence = CadenceAfter(r, ph)
    BY <1>1 DEF LoopRow
  <2> HIDE DEF off, on, pauses
  <2> QED
    BY <1>2, <2>1
<1>4. FollowsSwitch(loop'[l])
  BY <1>1, <1>3 DEF FollowsSwitch, CadenceAfter, LoopRow
<1>5. \A q \in Runs : /\ run[q] \in RunRow /\ canceled[q].loop = run[q].loop
                      /\ canceled[q].phase \in Open => canceled[q] = run[q]
                      /\ run[q].loop = l /\ canceled[q].phase = "pending" => run[q].by # "system"
  BY CanceledSurvive DEF TypeInv, TypeOK
<1>6. /\ \A q \in Runs \ {r} : run'[q] = rows[q]
      /\ run'[r].phase = ph
  <2>1. /\ DOMAIN rows = Runs
        /\ run' = [rows EXCEPT ![r] = [rows[r] EXCEPT !.phase = ph]]
    BY DEF QueueCanceled, TypeInv, TypeOK, SettleRun
  <2>2. "phase" \in DOMAIN rows[r]
    BY <1>5 DEF QueueCanceled, RunRow
  <2> HIDE DEF rows
  <2> QED
    BY <2>1, <2>2
<1>7. \A q \in Runs : Survivor(q)
  BY <1>5, <1>6 DEF Survivor, Open, Terminal
<1>8. ASSUME NEW q \in Runs, run[q].loop \in {l}
      PROVE  Awaited(q)' /\ Told(q)'
  <2>1. CASE q = r
    BY <1>6, <2>1 DEF Awaited, Told, Terminal
  <2>2. CASE q # r
    <3>1. Awaited(q) /\ Told(q)
      BY DEF QueueInv
    <3>2. run'[q].phase \in Open => run'[q] = run[q]
      BY <1>5, <1>6, <2>2
    <3>3. pauses /\ run'[q].phase = "pending" => run[q].by # "system"
      BY <1>5, <1>6, <1>8, <2>2
    <3> HIDE DEF pauses
    <3> QED
      BY <1>3, <1>8, <3>1, <3>2, <3>3 DEF Awaited, Told, Open
  <2> QED
    BY <2>1, <2>2
<1>9. /\ \A k \in Loops \ {l} : SameGate(k)
      /\ \A k \in Loops : FollowsSwitch(loop'[k])
  BY <1>2, <1>4 DEF SameGate, QueueInv
<1> QED
  BY <1>7, <1>8, <1>9, QueueShrinks

\* An owner's patch: switching off drops what nobody asked for.
LEMMA PatchQueue ==
  ASSUME TypeInv, QueueInv, NEW l \in Loops, NEW on \in {"keep", "yes", "no"},
         NEW m \in Modes, NEW o \in Overlaps, NEW retimed \in BOOLEAN,
         PatchLoop(l, on, m, o, retimed)
  PROVE  QueueInv'
<1> DEFINE enabled == EnabledBy(on, loop[l]) /\ ~loop[l].deleting
           index == IF on = "no" THEN IndexAfterCancel(l, {"system"}) ELSE loop[l].lastRunIndex
           cadence == CadenceBy(l, enabled, m, retimed)
           row == [loop[l] EXCEPT !.enabled = enabled, !.mode = m, !.overlap = o,
                                  !.cadence = cadence, !.lastRunIndex = index]
           canceled == QueueCanceled(l, {"system"})
<1>1. /\ loop[l] \in LoopRow /\ FollowsSwitch(loop[l]) /\ Present(l)
      /\ loop' = [loop EXCEPT ![l] = row]
      /\ run' = IF on = "no" THEN canceled ELSE run
  BY DEF TypeInv, TypeOK, QueueInv, PatchLoop
<1>2. /\ loop'[l] = row
      /\ \A k \in Loops \ {l} : loop'[k] = loop[k]
  BY <1>1 DEF TypeInv, TypeOK
<1>3. /\ row.state = loop[l].state /\ row.deleting = loop[l].deleting
      /\ row.mode = m /\ row.enabled = enabled /\ row.cadence = cadence
  <2> HIDE DEF enabled, cadence, index
  <2> QED
    BY <1>1 DEF LoopRow
<1>4. enabled \in BOOLEAN
  BY <1>1 DEF EnabledBy, LoopRow
<1>5. FollowsSwitch(row)
  <2>1. ~enabled => cadence = "none"
    BY DEF CadenceBy
  <2>2. enabled /\ m = "cron" => cadence # "none"
    <3>1. CASE ~loop[l].enabled \/ m # loop[l].mode
      BY <3>1 DEF CadenceBy
    <3>2. CASE loop[l].enabled /\ m = loop[l].mode
      BY <1>1, <3>2 DEF CadenceBy, FollowsSwitch
    <3> QED
      BY <1>1, <3>1, <3>2 DEF LoopRow
  <2>3. loop[l].deleting => ~enabled
    OBVIOUS
  <2> HIDE DEF enabled, cadence, row
  <2> QED
    BY <1>3, <2>1, <2>2, <2>3 DEF FollowsSwitch
<1>6. \A q \in Runs : /\ run[q] \in RunRow /\ canceled[q].loop = run[q].loop
                      /\ canceled[q].phase \in Open => canceled[q] = run[q]
                      /\ run[q].loop = l /\ canceled[q].phase = "pending" => run[q].by # "system"
  BY CanceledSurvive DEF TypeInv, TypeOK
<1> HIDE DEF canceled, row, cadence, index
<1>7. \A q \in Runs : Survivor(q)
  BY <1>1, <1>6 DEF Survivor, Open
<1>8. ASSUME NEW q \in Runs, run[q].loop \in {l}
      PROVE  Awaited(q)' /\ Told(q)'
  <2>1. Awaited(q) /\ Told(q)
    BY DEF QueueInv
  <2>2. run'[q].phase \in Open => run'[q] = run[q]
    BY <1>1, <1>6
  <2>3. run'[q].phase = "pending" /\ run[q].by = "system" => on # "no" /\ loop[l].enabled
    BY <1>1, <1>6, <1>8, <2>1, <2>2 DEF Awaited, Open
  <2>4. run'[q].phase = "pending" => ~loop[l].deleting
    BY <1>8, <2>1, <2>2 DEF Awaited, Open
  <2>5. run'[q].phase = "pending" /\ run[q].by = "system" => enabled
    BY <2>3, <2>4 DEF EnabledBy
  <2> HIDE DEF enabled
  <2> QED
    BY <1>2, <1>3, <1>8, <2>1, <2>2, <2>5 DEF Awaited, Told, Open
<1>9. /\ \A k \in Loops \ {l} : SameGate(k)
      /\ \A k \in Loops : FollowsSwitch(loop'[k])
  BY <1>2, <1>5 DEF SameGate, QueueInv
<1> QED
  BY <1>7, <1>8, <1>9, QueueShrinks

\* A stop, also the one a deletion begins with: nothing stays queued, and what runs is
\* told.
LEMMA StopQueue ==
  ASSUME TypeInv, QueueInv, NEW l \in Loops, NEW deleting \in BOOLEAN, Stop(l, deleting)
  PROVE  QueueInv'
<1> DEFINE all == {"owner", "system"}
           row == [loop[l] EXCEPT !.enabled = FALSE, !.cadence = "none", !.deleting = deleting,
                                  !.lastRunIndex = IndexAfterCancel(l, all)]
           canceled == QueueCanceled(l, all)
<1>1. /\ loop[l] \in LoopRow
      /\ loop'[l] = row
      /\ \A k \in Loops \ {l} : loop'[k] = loop[k]
  BY DEF TypeInv, TypeOK, Stop
<1>2. row.enabled = FALSE /\ row.cadence = "none"
  BY <1>1 DEF LoopRow
<1>3. ASSUME NEW q \in Runs
      PROVE  /\ Survivor(q)
             /\ run[q].loop = l /\ run'[q].phase \in Open =>
                  run'[q].phase = "running" /\ run'[q].cancel /\ run'[q].loop = l
  <2>1. run[q] \in RunRow
    BY DEF TypeInv, TypeOK
  <2>2. /\ canceled[q].loop = run[q].loop
        /\ canceled[q].phase \in Open => canceled[q] = run[q]
        /\ run[q].loop = l => canceled[q].phase # "pending"
    BY <2>1, CanceledSurvive DEF RunRow
  <2>3. run'[q] = IF run[q].loop = l /\ run[q].phase = "running"
                  THEN [run[q] EXCEPT !.cancel = TRUE] ELSE canceled[q]
    BY DEF Stop, StopRows
  <2> HIDE DEF canceled
  <2> QED
    BY <2>1, <2>2, <2>3 DEF Survivor, Open, RunRow
<1> HIDE DEF row
<1>4. ASSUME NEW q \in Runs, run[q].loop \in {l}
      PROVE  Awaited(q)' /\ Told(q)'
  BY <1>3, <1>4 DEF Awaited, Told, Open
<1>5. /\ \A k \in Loops \ {l} : SameGate(k)
      /\ \A k \in Loops : FollowsSwitch(loop'[k])
  BY <1>1, <1>2 DEF SameGate, FollowsSwitch, QueueInv
<1> QED
  BY <1>3, <1>4, <1>5, QueueShrinks

\* Dropping loops drops their queues.
LEMMA DropQueue ==
  ASSUME TypeInv, QueueInv, NEW S \in SUBSET Loops, DropLoopRows(S)
  PROVE  QueueInv'
<1>1. ASSUME NEW q \in Runs
      PROVE  IF run[q].loop \in S THEN run'[q].phase = "deleted" ELSE run'[q] = run[q]
  <2>1. run[q] \in RunRow
    BY DEF TypeInv, TypeOK
  <2> QED
    BY <2>1 DEF DropLoopRows, RunRow
<1>2. ASSUME NEW l \in Loops
      PROVE  IF l \in S THEN loop'[l].enabled = FALSE /\ loop'[l].cadence = "none"
             ELSE loop'[l] = loop[l]
  <2>1. loop[l] \in LoopRow
    BY DEF TypeInv, TypeOK
  <2> QED
    BY <2>1 DEF DropLoopRows, LoopRow
<1>3. \A q \in Runs : Survivor(q)
  BY <1>1 DEF Survivor
<1>4. \A q \in Runs : run[q].loop \in S => Awaited(q)' /\ Told(q)'
  BY <1>1 DEF Awaited, Told
<1>5. /\ \A l \in Loops \ S : SameGate(l)
      /\ \A l \in Loops : FollowsSwitch(loop'[l])
  BY <1>2 DEF SameGate, FollowsSwitch, QueueInv
<1> QED
  BY <1>3, <1>4, <1>5, QueueShrinks

\* A loop that is created has an empty queue.
LEMMA CreateQueue ==
  ASSUME TypeInv, QueueInv, NEW l \in Loops, NEW e \in BOOLEAN, NEW m \in Modes, NEW o,
         CreateLoop(l, e, m, o)
  PROVE  QueueInv'
<1>1. /\ loop[l].state = "unborn" /\ run' = run
      /\ ~loop'[l].deleting /\ FollowsSwitch(loop'[l])
      /\ \A k \in Loops \ {l} : loop'[k] = loop[k]
  BY DEF CreateLoop, TypeInv, TypeOK, FollowsSwitch, Modes
<1>2. \A q \in Runs : run[q].loop \in {l} => Awaited(q)' /\ Told(q)'
  BY <1>1 DEF Awaited, Told, QueueInv
<1>3. /\ \A k \in Loops \ {l} : SameGate(k)
      /\ \A k \in Loops : FollowsSwitch(loop'[k])
      /\ \A q \in Runs : Survivor(q)
  BY <1>1 DEF SameGate, Survivor, QueueInv
<1> QED
  BY <1>2, <1>3, QueueShrinks

-----------------------------------------------------------------------------
(* The steps that add to the queue, and the claim that takes from it.      *)

\* A run that is queued finds its loop as its caller did.
LEMMA EnqueueQueue ==
  ASSUME TypeInv, QueueInv, NEW l \in Loops, NEW who \in {"owner", "system"},
         Enqueue(l, who), Present(l), ~loop[l].deleting, who = "system" => loop[l].enabled,
         \A k \in Loops : SameGate(k) /\ FollowsSwitch(loop'[k])
  PROVE  QueueInv'
<1>1. CASE HasPhase(l, {"pending"})
  <2>1. ASSUME NEW q \in Runs PROVE Survivor(q)
    <3>1. run[q] \in RunRow
      BY DEF TypeInv, TypeOK
    <3>2. run'[q] = IF run[q].loop = l /\ run[q].phase = "pending" /\ who = "owner"
                    THEN [run[q] EXCEPT !.by = "owner"] ELSE run[q]
      BY <1>1 DEF Enqueue
    <3> QED
      BY <3>1, <3>2 DEF Survivor, RunRow
  <2> QED
    BY <2>1, QueueUnmoved
<1>2. CASE ~HasPhase(l, {"pending"})
  <2> DEFINE new == [phase |-> "pending", loop |-> l, by |-> who, index |-> 0,
                     cancel |-> FALSE]
  <2>1. PICK r \in Runs : run' = [run EXCEPT ![r] = new]
    BY <1>2 DEF Enqueue
  <2>2. /\ run'[r] = new
        /\ \A q \in Runs \ {r} : run'[q] = run[q]
    BY <2>1 DEF TypeInv, TypeOK
  <2>3. ASSUME NEW q \in Runs PROVE Awaited(q)' /\ Told(q)'
    <3>1. CASE q = r
      BY <2>2, <3>1 DEF Awaited, Told, SameGate, Present
    <3>2. CASE q # r /\ run[q].phase \in Open
      <4>1. run[q].loop \in Loops /\ SameGate(run[q].loop) /\ run'[q] = run[q]
        BY <2>2, <3>2 DEF TypeInv, RunsHaveLoops, Open
      <4>2. Awaited(q) /\ Told(q)
        BY DEF QueueInv
      <4> QED
        BY <4>1, <4>2 DEF Awaited, Told, SameGate
    <3>3. CASE q # r /\ run[q].phase \notin Open
      BY <2>2, <3>3 DEF Awaited, Told, Open
    <3> QED
      BY <3>1, <3>2, <3>3
  <2>4. \A q \in Runs : run[q].phase = "pending" => run[q].loop # l
    BY <1>2 DEF HasPhase
  <2>5. OneSlot'
    BY <2>2, <2>4 DEF OneSlot, QueueInv
  <2> QED
    BY <2>3, <2>5 DEF QueueInv
<1> QED
  BY <1>1, <1>2

\* An occurrence that is due.
LEMMA AdvanceQueue ==
  ASSUME TypeInv, QueueInv, NEW l \in Loops, AdvanceSchedule(l)
  PROVE  QueueInv'
<1> DEFINE c == IF loop[l].mode = "cron" THEN "future" ELSE "none"
           row == [loop[l] EXCEPT !.cadence = c]
<1>1. /\ loop[l] \in LoopRow /\ FollowsSwitch(loop[l])
      /\ loop'[l] = row
      /\ \A k \in Loops \ {l} : loop'[k] = loop[k]
  BY DEF TypeInv, TypeOK, AdvanceSchedule, QueueInv
<1>2. /\ row.state = loop[l].state /\ row.deleting = loop[l].deleting
      /\ row.mode = loop[l].mode /\ row.enabled = loop[l].enabled /\ row.cadence = c
  BY <1>1 DEF LoopRow
<1>3. Present(l) /\ loop[l].enabled /\ ~loop[l].deleting
  BY DEF AdvanceSchedule
<1> HIDE DEF row
<1>4. \A k \in Loops : SameGate(k) /\ FollowsSwitch(loop'[k])
  BY <1>1, <1>2, <1>3 DEF SameGate, FollowsSwitch, QueueInv
<1>5. CASE UNCHANGED run
  BY <1>4, <1>5, QueueUnmoved DEF Survivor
<1>6. CASE Enqueue(l, "system")
  BY <1>3, <1>4, <1>6, EnqueueQueue
<1> QED
  BY <1>5, <1>6 DEF AdvanceSchedule

\* A step that numbers a loop's next run, and may let a continuous cadence go.
LEMMA NumberKeeps ==
  ASSUME TypeInv, QueueInv, NEW l \in Loops, NEW n, NEW c \in {"none", "future", "due"},
         loop' = [loop EXCEPT ![l] = [loop[l] EXCEPT !.lastRunIndex = n, !.cadence = c]],
         c # loop[l].cadence => c = "none" /\ loop[l].mode = "continuous"
  PROVE  \A k \in Loops : SameGate(k) /\ FollowsSwitch(loop'[k])
<1> DEFINE row == [loop[l] EXCEPT !.lastRunIndex = n, !.cadence = c]
<1>1. /\ loop[l] \in LoopRow /\ FollowsSwitch(loop[l])
      /\ loop'[l] = row
      /\ \A k \in Loops \ {l} : loop'[k] = loop[k]
  BY DEF TypeInv, TypeOK, QueueInv
<1>2. /\ row.state = loop[l].state /\ row.deleting = loop[l].deleting
      /\ row.mode = loop[l].mode /\ row.enabled = loop[l].enabled /\ row.cadence = c
  BY <1>1 DEF LoopRow
<1> HIDE DEF row
<1> QED
  BY <1>1, <1>2 DEF SameGate, FollowsSwitch, QueueInv

\* A claim: the loop of the run it takes is not going away.
LEMMA ClaimQueue ==
  ASSUME TypeInv, QueueInv, NEW r \in Runs, NEW reported, ClaimReadyRun(r, reported)
  PROVE  QueueInv'
<1> DEFINE l == run[r].loop
           n == loop[l].lastRunIndex + 1
           c == IF loop[l].mode = "continuous" THEN "none" ELSE loop[l].cadence
<1>1. run[r].phase = "pending" /\ l \in Loops /\ ~loop[l].deleting
  BY DEF ClaimReadyRun, Claimable, TypeInv, RunsHaveLoops
<1>2. /\ run' = [run EXCEPT ![r] = [run[r] EXCEPT !.phase = "running", !.index = n]]
      /\ loop' = [loop EXCEPT ![l] = [loop[l] EXCEPT !.lastRunIndex = n, !.cadence = c]]
  BY DEF ClaimReadyRun, TypeInv, TypeOK
<1>3. /\ c \in {"none", "future", "due"}
      /\ c # loop[l].cadence => c = "none" /\ loop[l].mode = "continuous"
  BY <1>1 DEF TypeInv, TypeOK, LoopRow
<1>4. /\ run'[r].phase = "running" /\ run'[r].loop = l
      /\ \A q \in Runs \ {r} : run'[q] = run[q]
  BY <1>2 DEF TypeInv, TypeOK, RunRow
<1> HIDE DEF n, c
<1>5. \A k \in Loops : SameGate(k) /\ FollowsSwitch(loop'[k])
  BY <1>1, <1>2, <1>3, NumberKeeps
<1>6. ASSUME NEW q \in Runs PROVE Awaited(q)' /\ Told(q)'
  <2>1. CASE q = r
    BY <1>1, <1>4, <1>5, <2>1 DEF Awaited, Told, SameGate
  <2>2. CASE q # r /\ run[q].phase \in Open
    <3>1. run[q].loop \in Loops /\ SameGate(run[q].loop) /\ run'[q] = run[q]
      BY <1>4, <1>5, <2>2 DEF TypeInv, RunsHaveLoops, Open
    <3>2. Awaited(q) /\ Told(q)
      BY DEF QueueInv
    <3> QED
      BY <3>1, <3>2 DEF Awaited, Told, SameGate
  <2>3. CASE q # r /\ run[q].phase \notin Open
    BY <1>4, <2>3 DEF Awaited, Told, Open
  <2> QED
    BY <2>1, <2>2, <2>3
<1>7. OneSlot'
  BY <1>4 DEF OneSlot, QueueInv
<1> QED
  BY <1>5, <1>6, <1>7 DEF QueueInv

-----------------------------------------------------------------------------
(* Every step, by its kind.                                                *)

LEMMA LoopStepQueue ==
  ASSUME TypeInv, QueueInv, NEW l \in Loops, LoopStep(l)
  PROVE  QueueInv'
<1>1. ASSUME NEW e \in BOOLEAN, NEW m \in ModesInUse, NEW o \in OverlapsInUse,
             CreateLoop(l, e, m, o)
      PROVE  QueueInv'
  BY <1>1, CreateQueue, ConstantsAssumption DEF ConstantsAssumption
<1>2. CASE UpdateLoop(l) \/ PauseLoop(l) \/ StartLoop(l)
  <2>1. loop[l].mode \in Modes /\ loop[l].overlap \in Overlaps
    BY DEF TypeInv, TypeOK, LoopRow
  <2> QED
    BY <1>2, <2>1, PatchQueue, ConstantsAssumption
       DEF UpdateLoop, PauseLoop, StartLoop, ConstantsAssumption
<1>3. CASE StopLoop(l) \/ RequestDeleteLoop(l)
  <2>1. loop[l].deleting \in BOOLEAN
    BY DEF TypeInv, TypeOK, LoopRow
  <2> QED
    BY <1>3, <2>1, StopQueue DEF StopLoop, RequestDeleteLoop
<1>4. CASE TryDeleteLoop(l) \/ ForceDeleteLoop(l)
  <2>1. DropLoopRows({l})
    BY <1>4 DEF TryDeleteLoop, ForceDeleteLoop
  <2>2. {l} \in SUBSET Loops
    OBVIOUS
  <2> QED
    BY <2>1, <2>2, DropQueue
<1>5. CASE EnqueueRun(l)
  <2>1. /\ Enqueue(l, "owner") /\ Present(l) /\ ~loop[l].deleting
        /\ \A k \in Loops : SameGate(k) /\ FollowsSwitch(loop'[k])
    BY <1>5 DEF EnqueueRun, SameGate, QueueInv
  <2> QED
    BY <2>1, EnqueueQueue
<1>6. CASE AdvanceSchedule(l)
  BY <1>6, AdvanceQueue
<1>7. CASE CadenceFallsDue(l)
  <2> DEFINE row == [loop[l] EXCEPT !.cadence = "due"]
  <2>1. /\ loop[l] \in LoopRow /\ FollowsSwitch(loop[l]) /\ loop[l].cadence = "future"
        /\ loop'[l] = row
        /\ \A k \in Loops \ {l} : loop'[k] = loop[k]
    BY <1>7 DEF CadenceFallsDue, TypeInv, TypeOK, QueueInv
  <2>2. /\ row.state = loop[l].state /\ row.deleting = loop[l].deleting
        /\ row.mode = loop[l].mode /\ row.enabled = loop[l].enabled /\ row.cadence = "due"
    BY <2>1 DEF LoopRow
  <2> HIDE DEF row
  <2>3. \A k \in Loops : SameGate(k) /\ FollowsSwitch(loop'[k])
    BY <2>1, <2>2 DEF SameGate, FollowsSwitch, QueueInv
  <2> QED
    BY <1>7, <2>3, QueueUnmoved DEF CadenceFallsDue, Survivor
<1> QED
  BY <1>1, <1>2, <1>3, <1>4, <1>5, <1>6, <1>7 DEF LoopStep

LEMMA RunStepQueue ==
  ASSUME TypeInv, QueueInv, NEW r \in Runs, RunStep(r)
  PROVE  QueueInv'
<1> DEFINE l == run[r].loop
           n == loop[l].lastRunIndex + 1
<1>1. CASE /\ run[r].phase = "pending"
           /\ run' = [run EXCEPT ![r].phase = "canceled", ![r].index = n]
           /\ loop' = [loop EXCEPT ![l].lastRunIndex = n]
  <2>1. l \in Loops /\ loop[l] \in LoopRow
    BY <1>1 DEF TypeInv, TypeOK, RunsHaveLoops
  <2>2. [loop[l] EXCEPT !.lastRunIndex = n]
          = [loop[l] EXCEPT !.lastRunIndex = n, !.cadence = loop[l].cadence]
    BY <2>1 DEF LoopRow
  <2>3. /\ loop' = [loop EXCEPT ![l] =
                      [loop[l] EXCEPT !.lastRunIndex = n, !.cadence = loop[l].cadence]]
        /\ loop[l].cadence \in {"none", "future", "due"}
    BY <1>1, <2>1, <2>2 DEF TypeInv, TypeOK, LoopRow
  <2>4. \A q \in Runs : Survivor(q)
    BY <1>1 DEF Survivor, TypeInv, TypeOK, RunRow
  <2> HIDE DEF n
  <2>5. \A k \in Loops : SameGate(k) /\ FollowsSwitch(loop'[k])
    BY <2>1, <2>3, NumberKeeps
  <2> QED
    BY <2>4, <2>5, QueueUnmoved
<1>2. CASE RequestRunCancel(r)
  <2>1. CASE run[r].phase = "running"
    <3>1. \A q \in Runs : Survivor(q)
      BY <1>2, <2>1 DEF RequestRunCancel, Survivor, TypeInv, TypeOK, RunRow
    <3>2. loop' = loop
      BY <1>2, <2>1 DEF RequestRunCancel
    <3> QED
      BY <3>1, <3>2, QueueUnmoved DEF SameGate, QueueInv
  <2> QED
    BY <1>1, <1>2, <2>1 DEF RequestRunCancel
<1>3. CASE ExpirePendingRun(r)
  BY <1>1, <1>3 DEF ExpirePendingRun
<1>4. CASE ReclaimRun(r)
  <2>1. l \in Loops
    BY <1>4 DEF ReclaimRun, TypeInv, RunsHaveLoops
  <2> QED
    BY <1>4, <2>1, SettleRunQueue DEF ReclaimRun, Terminal
<1>5. CASE RetireElapsed(r) \/ LeaseElapses(r)
  BY <1>5, QueueUnmoved DEF RetireElapsed, LeaseElapses, Survivor, SameGate, QueueInv
<1>6. ASSUME NEW reported, ClaimReadyRun(r, reported)
      PROVE  QueueInv'
  BY <1>6, ClaimQueue
<1> QED
  BY <1>2, <1>3, <1>4, <1>5, <1>6 DEF RunStep

LEMMA ReportStepQueue ==
  ASSUME TypeInv, QueueInv, NEW r \in Runs, NEW rid \in ReportIds, ReportStep(r, rid)
  PROVE  QueueInv'
<1>1. CASE UNCHANGED <<loop, run>>
  BY <1>1, QueueUnmoved DEF Survivor, SameGate, QueueInv
<1>2. ASSUME NEW ph \in Terminal, NEW block, NEW streak, run[r].phase # "unborn",
             SettleRun(r, ph, block, streak)
      PROVE  QueueInv'
  <2>1. run[r].loop \in Loops
    BY <1>2 DEF TypeInv, RunsHaveLoops
  <2> QED
    BY <1>2, <2>1, SettleRunQueue
<1>3. ASSUME NEW outcome \in Outcomes
      PROVE  PhaseOf(outcome) \in Terminal
  BY <1>3 DEF Outcomes, PhaseOf, Terminal
<1>4. ASSUME NEW outcome \in Outcomes, FinalizeRunningRun(r, rid, outcome)
      PROVE  QueueInv'
  BY <1>2, <1>3, <1>4 DEF FinalizeRunningRun
<1>5. ASSUME NEW outcome \in Outcomes, ReconcileReclaimedRun(r, rid, outcome)
      PROVE  QueueInv'
  <2>1. CASE lease[r].state = "reconciliation-only"
    <3>1. run' = [run EXCEPT ![r].phase = PhaseOf(outcome)] /\ UNCHANGED loop
      BY <1>5, <2>1 DEF ReconcileReclaimedRun
    <3>2. \A q \in Runs : Survivor(q)
      BY <1>3, <3>1 DEF Survivor, Terminal, TypeInv, TypeOK, RunRow
    <3> QED
      BY <3>1, <3>2, QueueUnmoved DEF SameGate, QueueInv
  <2>2. CASE lease[r].state # "reconciliation-only"
    BY <1>2, <1>3, <1>5, <2>2 DEF ReconcileReclaimedRun
  <2> QED
    BY <2>1, <2>2
<1>6. CASE RejectTerminalReport(r, rid)
  <2>1. CASE run[r].phase = "running" /\ SettleRun(r, "error", FALSE, AutopauseStreak)
    BY <1>2, <2>1 DEF Terminal
  <2> QED
    BY <1>1, <1>6, <2>1 DEF RejectTerminalReport
<1>7. CASE \/ AcknowledgeRetiredReport(r, rid) \/ AcknowledgeRetiredTerminalIncident(r, rid)
           \/ IgnoreCanceledReport(r, rid)
  BY <1>1, <1>7 DEF AcknowledgeRetiredReport, AcknowledgeRetiredTerminalIncident,
     IgnoreCanceledReport
<1> QED
  BY <1>4, <1>5, <1>6, <1>7 DEF ReportStep

LEMMA MachineStepQueue ==
  ASSUME TypeInv, QueueInv, MachineStep
  PROVE  QueueInv'
<1>1. CASE ForceDeleteMachine
  <2> DEFINE owned == {l \in Loops : Present(l)}
  <2>1. owned \in SUBSET Loops /\ DropLoopRows(owned)
    BY <1>1 DEF ForceDeleteMachine
  <2> HIDE DEF owned
  <2> QED
    BY <2>1, DropQueue
<1>2. CASE UNCHANGED <<loop, run>>
  BY <1>2, QueueUnmoved DEF Survivor, SameGate, QueueInv
<1> QED
  BY <1>1, <1>2 DEF MachineStep, SetMachineOnline, ReleaseAbsentReconciliations

LEMMA StepQueue == TypeInv /\ QueueInv /\ [Next]_vars => QueueInv'
<1> SUFFICES ASSUME TypeInv, QueueInv, [Next]_vars PROVE QueueInv'
  OBVIOUS
<1>1. CASE UNCHANGED vars
  BY <1>1, QueueUnmoved DEF vars, Survivor, SameGate, QueueInv
<1>2. CASE Next
  BY <1>2, LoopStepQueue, RunStepQueue, ReportStepQueue, MachineStepQueue DEF Next
<1> QED
  BY <1>1, <1>2

\* Initially no loop is on and nothing is queued.
LEMMA InitQueue == Init => QueueInv
  BY DEF Init, QueueInv, FollowsSwitch, Awaited, Told, OneSlot

LEMMA QueueAlways == Spec => [](TypeInv /\ QueueInv)
<1>1. TypeInv /\ QueueInv /\ [Next]_vars => (TypeInv /\ QueueInv)'
  BY StepType, StepQueue
<1>2. Init => TypeInv /\ QueueInv
  BY InitType, InitQueue
<1> QED
  BY <1>1, <1>2, PTL DEF Spec

-----------------------------------------------------------------------------

\* What waits in the queue of a loop may be started: whatever order owners, schedules,
\* breakers, sweeps and deletions commit in, a loop that is off keeps only what its owner
\* asked for, one that goes away keeps nothing and has told what runs to stop, and there
\* is one slot.
THEOREM QueuedRunsMayStart == Spec => []QueueIsStartable
<1>1. TypeInv /\ QueueInv => QueueIsStartable
  BY DEF TypeInv, QueueInv, QueueIsStartable, Queued, Awaited, Told, OneSlot
<1> QED
  BY <1>1, QueueAlways, PTL

\* The cadence fact of a loop follows its switch: a cron loop that is on always has a
\* next occurrence, so that initializeCronCadence, which repairs one that has none at the
\* boot of the server, finds nothing to do; one that is off or goes away has none.
THEOREM CadenceIsKept == Spec => []CadenceFollowsSwitch
<1>1. TypeInv /\ QueueInv => CadenceFollowsSwitch
  BY DEF QueueInv, CadenceFollowsSwitch, FollowsSwitch
<1> QED
  BY <1>1, QueueAlways, PTL

-----------------------------------------------------------------------------
(* The history numbers.  A queue that is canceled gets one number, so that *)
(* numbers are unique rests on there being one slot (OneSlot, above).      *)

Unstarted == {"unborn", "pending"}
Started == {"running", "done", "error", "canceled"}

IndexInv ==
  /\ \A q \in Runs :
       /\ run[q].phase \in Unstarted => run[q].index = 0
       /\ run[q].phase \in Started => run[q].index # 0
       /\ run[q].phase # "unborn" => /\ run[q].index <= loop[run[q].loop].lastRunIndex
                                     /\ loop[run[q].loop].state # "unborn"
       /\ run[q].phase = "unborn" => run[q].loop \notin Loops
  /\ \A q, r \in Runs : run[q].loop = run[r].loop /\ run[q].index = run[r].index
                          /\ run[r].index # 0 => q = r

\* What a step may do to the number of a run: leave it, insert the run, or number it.
Unnumbered(q) ==
  /\ run'[q].loop = run[q].loop /\ run'[q].index = run[q].index
  /\ run'[q].phase \in Unstarted => run[q].phase \in Unstarted
  /\ run'[q].phase \in Started => run[q].phase \in Started
  /\ run'[q].phase = "unborn" <=> run[q].phase = "unborn"
Inserted(q) ==
  /\ run[q].phase = "unborn" /\ run'[q].phase = "pending" /\ run'[q].index = 0
  /\ loop[run'[q].loop].state # "unborn"
Numbered(q) ==
  /\ run[q].phase = "pending" /\ run'[q].phase \in {"running", "canceled"}
  /\ run'[q].loop = run[q].loop
  /\ run'[q].index = loop[run[q].loop].lastRunIndex + 1
  /\ loop'[run[q].loop].lastRunIndex = loop[run[q].loop].lastRunIndex + 1

\* The counter of a loop that exists never falls.
Counts(l) == loop[l].state # "unborn" =>
               /\ loop'[l].lastRunIndex >= loop[l].lastRunIndex
               /\ loop'[l].state # "unborn"

LEMMA IndexStep ==
  ASSUME TypeInv, TypeInv', IndexInv,
         \A l \in Loops : Counts(l),
         \A q \in Runs : Unnumbered(q) \/ Inserted(q) \/ Numbered(q),
         \A q, r \in Runs : Numbered(q) /\ Numbered(r) /\ run[q].loop = run[r].loop => q = r
  PROVE  IndexInv'
<1>1. \A q \in Runs : /\ run[q].index \in Nat /\ run'[q].index \in Nat
                      /\ run[q].phase # "unborn" => run[q].loop \in Loops
                      /\ run'[q].phase # "unborn" => run'[q].loop \in Loops
  BY DEF TypeInv, TypeOK, RunsHaveLoops, RunRow
<1>2. \A l \in Loops : loop[l].lastRunIndex \in Nat /\ loop'[l].lastRunIndex \in Nat
  BY DEF TypeInv, TypeOK, LoopRow
<1>3. ASSUME NEW q \in Runs
      PROVE  /\ run'[q].phase \in Unstarted => run'[q].index = 0
             /\ run'[q].phase \in Started => run'[q].index # 0
             /\ run'[q].phase # "unborn" =>
                  /\ run'[q].index <= loop'[run'[q].loop].lastRunIndex
                  /\ loop'[run'[q].loop].state # "unborn"
             /\ run'[q].phase = "unborn" => run'[q].loop \notin Loops
  <2>1. CASE Unnumbered(q)
    BY <1>1, <1>2, <2>1 DEF Unnumbered, IndexInv, Counts
  <2>2. CASE Inserted(q)
    BY <1>1, <1>2, <2>2 DEF Inserted, IndexInv, Counts, Unstarted, Started
  <2>3. CASE Numbered(q)
    BY <1>1, <1>2, <2>3 DEF Numbered, IndexInv, Counts, Unstarted, Started
  <2> QED
    BY <2>1, <2>2, <2>3
<1>4. ASSUME NEW q \in Runs, NEW r \in Runs, run'[q].loop = run'[r].loop,
             run'[q].index = run'[r].index, run'[r].index # 0
      PROVE  q = r
  <2>1. ~Inserted(q) /\ ~Inserted(r)
    BY <1>4 DEF Inserted
  <2>2. CASE Unnumbered(q) /\ Unnumbered(r)
    BY <1>4, <2>2 DEF Unnumbered, IndexInv
  <2>3. ASSUME NEW a \in Runs, NEW b \in Runs, Numbered(a), Unnumbered(b),
               run'[a].loop = run'[b].loop, run'[a].index = run'[b].index
        PROVE  FALSE
    <3>1. run[b].index = loop[run[b].loop].lastRunIndex + 1 /\ run[b].loop \in Loops
      BY <1>1, <2>3 DEF Numbered, Unnumbered
    <3>2. run[b].phase # "unborn"
      BY <1>2, <3>1 DEF IndexInv, Unstarted
    <3> QED
      BY <1>1, <1>2, <3>1, <3>2 DEF IndexInv
  <2>4. CASE Numbered(q) /\ Numbered(r)
    BY <1>4, <2>4 DEF Numbered
  <2> QED
    BY <1>4, <2>1, <2>2, <2>3, <2>4
<1> QED
  BY <1>3, <1>4 DEF IndexInv

\* A step that numbers nothing.
LEMMA IndexUnmoved ==
  ASSUME TypeInv, TypeInv', IndexInv, \A l \in Loops : Counts(l),
         \A q \in Runs : Unnumbered(q) \/ Inserted(q)
  PROVE  IndexInv'
<1>1. \A q \in Runs : ~Numbered(q)
  BY DEF Numbered, Unnumbered, Inserted, Unstarted, Started
<1> QED
  BY <1>1, IndexStep

\* A step that numbers and cancels the queue of a loop, or a part of it.
LEMMA IndexQueueCanceled ==
  ASSUME TypeInv, TypeInv', QueueInv, IndexInv, NEW l \in Loops, NEW who,
         \A k \in Loops \ {l} : loop'[k] = loop[k],
         loop[l].state # "unborn" => loop'[l].state # "unborn",
         loop'[l].lastRunIndex = IndexAfterCancel(l, who),
         \A q \in Runs : \/ Unnumbered(q) /\ q \notin Queued(l, who)
                         \/ q \in Queued(l, who) /\ run'[q] = QueueCanceled(l, who)[q]
  PROVE  IndexInv'
<1>1. /\ loop[l].lastRunIndex \in Nat
      /\ \A k \in Loops : loop[k].lastRunIndex \in Nat
  BY DEF TypeInv, TypeOK, LoopRow
<1>2. \A k \in Loops : Counts(k)
  BY <1>1 DEF Counts, IndexAfterCancel
<1>3. ASSUME NEW q \in Runs, q \in Queued(l, who)
      PROVE  Numbered(q)
  <2>1. run[q] \in RunRow /\ run[q].loop = l /\ run[q].phase = "pending"
    BY <1>3 DEF TypeInv, TypeOK, Queued
  <2>2. loop'[l].lastRunIndex = loop[l].lastRunIndex + 1
    BY <1>3 DEF IndexAfterCancel
  <2>3. run'[q] = [run[q] EXCEPT !.phase = "canceled", !.index = loop[l].lastRunIndex + 1]
    <3>1. ~(Unnumbered(q) /\ q \notin Queued(l, who))
      BY <1>3
    <3> QED
      BY <1>3, <3>1 DEF QueueCanceled
  <2> QED
    BY <2>1, <2>2, <2>3 DEF Numbered, RunRow
<1>4. \A q \in Runs : Unnumbered(q) \/ Numbered(q)
  BY <1>3
<1>5. \A q, r \in Runs : Numbered(q) /\ Numbered(r) /\ run[q].loop = run[r].loop => q = r
  BY DEF Numbered, QueueInv, OneSlot
<1> QED
  BY <1>2, <1>4, <1>5, IndexStep

\* Settling a run, which may cancel the queue.
LEMMA SettleRunIndex ==
  ASSUME TypeInv, TypeInv', QueueInv, IndexInv, NEW r \in Runs, run[r].phase \in Started,
         NEW ph \in Terminal, NEW block, NEW streak, SettleRun(r, ph, block, streak)
  PROVE  IndexInv'
<1> DEFINE l == run[r].loop
           pauses == Pauses(r, ph, block, streak)
           canceled == QueueCanceled(l, {"system"})
           rows == IF pauses THEN canceled ELSE run
           off == [loop[l] EXCEPT !.enabled = FALSE, !.cadence = "none",
                                  !.lastRunIndex = IndexAfterCancel(l, {"system"})]
           on == [loop[l] EXCEPT !.cadence = CadenceAfter(r, ph)]
<1>1. l \in Loops /\ loop[l] \in LoopRow
  BY DEF TypeInv, TypeOK, RunsHaveLoops, Started
<1>2. /\ loop'[l] = IF pauses THEN off ELSE on
      /\ \A k \in Loops \ {l} : loop'[k] = loop[k]
  BY <1>1 DEF TypeInv, TypeOK, SettleRun
<1>3. /\ off.state = loop[l].state /\ off.lastRunIndex = IndexAfterCancel(l, {"system"})
      /\ on.state = loop[l].state /\ on.lastRunIndex = loop[l].lastRunIndex
  BY <1>1 DEF LoopRow
<1> HIDE DEF off, on
<1>4. \A q \in Runs : /\ run[q] \in RunRow
                      /\ q \notin Queued(l, {"system"}) => rows[q] = run[q]
  BY DEF TypeInv, TypeOK, QueueCanceled
<1>5. r \notin Queued(l, {"system"})
  BY DEF Queued, Started
<1>6. /\ \A q \in Runs \ {r} : run'[q] = rows[q]
      /\ run'[r] = [run[r] EXCEPT !.phase = ph]
  <2>1. /\ DOMAIN rows = Runs
        /\ run' = [rows EXCEPT ![r] = [rows[r] EXCEPT !.phase = ph]]
    BY DEF QueueCanceled, TypeInv, TypeOK, SettleRun
  <2>2. rows[r] = run[r]
    BY <1>4, <1>5
  <2> HIDE DEF rows
  <2> QED
    BY <2>1, <2>2
<1>7. Unnumbered(r)
  BY <1>4, <1>6 DEF Unnumbered, RunRow, Started, Terminal, Unstarted
<1>8. \A q \in Runs : run'[q] = run[q] => Unnumbered(q)
  BY DEF Unnumbered
<1>9. CASE pauses
  <2>1. \A q \in Runs : \/ Unnumbered(q) /\ q \notin Queued(l, {"system"})
                        \/ /\ q \in Queued(l, {"system"})
                           /\ run'[q] = canceled[q]
    BY <1>4, <1>5, <1>6, <1>7, <1>8, <1>9
  <2> QED
    BY <1>1, <1>2, <1>3, <1>9, <2>1, IndexQueueCanceled
<1>10. CASE ~pauses
  <2>1. \A q \in Runs : Unnumbered(q)
    BY <1>6, <1>7, <1>8, <1>10
  <2>2. \A k \in Loops : Counts(k)
    <3>1. \A k \in Loops : loop[k].lastRunIndex \in Nat
      BY DEF TypeInv, TypeOK, LoopRow
    <3> QED
      BY <1>2, <1>3, <1>10, <3>1 DEF Counts
  <2> QED
    BY <2>1, <2>2, IndexUnmoved
<1> QED
  BY <1>9, <1>10

\* A loop whose counter stays, or one more.
LEMMA SameCounts ==
  ASSUME TypeInv, NEW l \in Loops,
         \/ loop'[l].lastRunIndex = loop[l].lastRunIndex
         \/ loop'[l].lastRunIndex = loop[l].lastRunIndex + 1,
         loop[l].state # "unborn" => loop'[l].state # "unborn"
  PROVE  Counts(l)
<1>1. loop[l].lastRunIndex \in Nat
  BY DEF TypeInv, TypeOK, LoopRow
<1> QED
  BY <1>1 DEF Counts

\* A step that keeps every counter and starts, ends or marks runs without numbering any.
LEMMA IndexKeptByStep ==
  ASSUME TypeInv, TypeInv', IndexInv, \A l \in Loops : loop'[l] = loop[l],
         \A q \in Runs : Unnumbered(q) \/ Inserted(q)
  PROVE  IndexInv'
<1>1. \A l \in Loops : Counts(l)
  BY SameCounts
<1> QED
  BY <1>1, IndexUnmoved

LEMMA PatchIndex ==
  ASSUME TypeInv, TypeInv', QueueInv, IndexInv, NEW l \in Loops, NEW on, NEW m, NEW o,
         NEW retimed, PatchLoop(l, on, m, o, retimed)
  PROVE  IndexInv'
<1> DEFINE enabled == EnabledBy(on, loop[l]) /\ ~loop[l].deleting
           index == IF on = "no" THEN IndexAfterCancel(l, {"system"}) ELSE loop[l].lastRunIndex
           cadence == CadenceBy(l, enabled, m, retimed)
           row == [loop[l] EXCEPT !.enabled = enabled, !.mode = m, !.overlap = o,
                                  !.cadence = cadence, !.lastRunIndex = index]
<1>1. /\ loop[l] \in LoopRow
      /\ loop' = [loop EXCEPT ![l] = row]
      /\ run' = IF on = "no" THEN QueueCanceled(l, {"system"}) ELSE run
  BY DEF TypeInv, TypeOK, PatchLoop
<1>2. row.state = loop[l].state /\ row.lastRunIndex = index
  <2> HIDE DEF enabled, cadence, index
  <2> QED
    BY <1>1 DEF LoopRow
<1>3. /\ loop'[l] = row
      /\ \A k \in Loops \ {l} : loop'[k] = loop[k]
  BY <1>1 DEF TypeInv, TypeOK
<1> HIDE DEF row
<1>4. CASE on = "no"
  <2>1. \A q \in Runs : \/ Unnumbered(q) /\ q \notin Queued(l, {"system"})
                        \/ /\ q \in Queued(l, {"system"})
                           /\ run'[q] = QueueCanceled(l, {"system"})[q]
    BY <1>1, <1>4 DEF Unnumbered, QueueCanceled
  <2> QED
    BY <1>2, <1>3, <1>4, <2>1, IndexQueueCanceled
<1>5. CASE on # "no"
  <2>1. \A q \in Runs : Unnumbered(q)
    BY <1>1, <1>5 DEF Unnumbered
  <2>2. \A k \in Loops : Counts(k)
    BY <1>2, <1>3, <1>5, SameCounts
  <2> QED
    BY <2>1, <2>2, IndexUnmoved
<1> QED
  BY <1>4, <1>5

LEMMA StopIndex ==
  ASSUME TypeInv, TypeInv', QueueInv, IndexInv, NEW l \in Loops, NEW deleting,
         Stop(l, deleting)
  PROVE  IndexInv'
<1> DEFINE all == {"owner", "system"}
           row == [loop[l] EXCEPT !.enabled = FALSE, !.cadence = "none", !.deleting = deleting,
                                  !.lastRunIndex = IndexAfterCancel(l, all)]
<1>1. /\ loop[l] \in LoopRow
      /\ loop'[l] = row
      /\ \A k \in Loops \ {l} : loop'[k] = loop[k]
  BY DEF TypeInv, TypeOK, Stop
<1>2. row.state = loop[l].state /\ row.lastRunIndex = IndexAfterCancel(l, all)
  BY <1>1 DEF LoopRow
<1> HIDE DEF row
<1>3. ASSUME NEW q \in Runs
      PROVE  \/ Unnumbered(q) /\ q \notin Queued(l, all)
             \/ q \in Queued(l, all) /\ run'[q] = QueueCanceled(l, all)[q]
  <2>1. run[q] \in RunRow
    BY DEF TypeInv, TypeOK
  <2>2. run'[q] = IF run[q].loop = l /\ run[q].phase = "running"
                  THEN [run[q] EXCEPT !.cancel = TRUE] ELSE QueueCanceled(l, all)[q]
    BY DEF Stop, StopRows
  <2>3. q \notin Queued(l, all) => QueueCanceled(l, all)[q] = run[q]
    BY DEF QueueCanceled
  <2> QED
    BY <2>1, <2>2, <2>3 DEF Unnumbered, Queued, RunRow
<1> QED
  BY <1>1, <1>2, <1>3, IndexQueueCanceled

LEMMA DropIndex ==
  ASSUME TypeInv, TypeInv', IndexInv, NEW S \in SUBSET Loops, DropLoopRows(S)
  PROVE  IndexInv'
<1>1. ASSUME NEW q \in Runs
      PROVE  Unnumbered(q)
  <2>1. run[q] \in RunRow
    BY DEF TypeInv, TypeOK
  <2>2. run[q].loop \in S => run[q].phase # "unborn"
    BY DEF IndexInv
  <2> QED
    BY <2>1, <2>2 DEF DropLoopRows, RunRow, Unnumbered, Unstarted, Started
<1>2. ASSUME NEW l \in Loops
      PROVE  Counts(l)
  <2>1. loop[l] \in LoopRow
    BY DEF TypeInv, TypeOK
  <2>2. loop'[l].lastRunIndex = loop[l].lastRunIndex
    BY <2>1 DEF DropLoopRows, LoopRow
  <2>3. loop[l].state # "unborn" => loop'[l].state # "unborn"
    BY <2>1 DEF DropLoopRows, LoopRow
  <2> QED
    BY <2>2, <2>3, SameCounts
<1> QED
  BY <1>1, <1>2, IndexUnmoved

LEMMA EnqueueIndex ==
  ASSUME TypeInv, NEW l \in Loops, NEW who, Present(l), Enqueue(l, who)
  PROVE  \A q \in Runs : Unnumbered(q) \/ Inserted(q)
<1>1. CASE HasPhase(l, {"pending"})
  <2> SUFFICES ASSUME NEW q \in Runs PROVE Unnumbered(q)
    OBVIOUS
  <2>1. run[q] \in RunRow
    BY DEF TypeInv, TypeOK
  <2>2. run'[q] = IF run[q].loop = l /\ run[q].phase = "pending" /\ who = "owner"
                  THEN [run[q] EXCEPT !.by = "owner"] ELSE run[q]
    BY <1>1 DEF Enqueue
  <2> QED
    BY <2>1, <2>2 DEF Unnumbered, RunRow
<1>2. CASE ~HasPhase(l, {"pending"})
  <2>1. PICK r \in Runs : /\ Fresh(r)
                          /\ run' = [run EXCEPT ![r] =
                               [phase |-> "pending", loop |-> l, by |-> who,
                                index |-> 0, cancel |-> FALSE]]
    BY <1>2 DEF Enqueue
  <2> QED
    BY <2>1 DEF TypeInv, TypeOK, Fresh, Inserted, Unnumbered, Present
<1> QED
  BY <1>1, <1>2

\* A step that numbers one run.
LEMMA OneNumbered ==
  ASSUME TypeInv, TypeInv', IndexInv, NEW r \in Runs, run[r].phase = "pending",
         NEW ph \in {"running", "canceled"}, NEW c,
         run' = [run EXCEPT ![r].phase = ph,
                            ![r].index = loop[run[r].loop].lastRunIndex + 1],
         loop' = [loop EXCEPT ![run[r].loop].lastRunIndex = loop[run[r].loop].lastRunIndex + 1,
                              ![run[r].loop].cadence = c]
  PROVE  IndexInv'
<1> DEFINE l == run[r].loop
           n == loop[l].lastRunIndex + 1
           row == [loop[l] EXCEPT !.lastRunIndex = n, !.cadence = c]
<1>1. l \in Loops /\ loop[l] \in LoopRow /\ run[r] \in RunRow
  BY DEF TypeInv, TypeOK, RunsHaveLoops
<1>2. /\ loop'[l] = row
      /\ \A k \in Loops \ {l} : loop'[k] = loop[k]
      /\ run'[r] = [run[r] EXCEPT !.phase = ph, !.index = n]
      /\ \A q \in Runs \ {r} : run'[q] = run[q]
  BY <1>1 DEF TypeInv, TypeOK
<1> HIDE DEF n
<1>3. /\ row.state = loop[l].state /\ row.lastRunIndex = n
      /\ run'[r].phase = ph /\ run'[r].index = n /\ run'[r].loop = l
  <2>1. row.state = loop[l].state /\ row.lastRunIndex = n
    BY <1>1 DEF LoopRow
  <2>2. run'[r].phase = ph /\ run'[r].index = n /\ run'[r].loop = l
    <3> DEFINE old == run[r]
               new == run'[r]
    <3>1. /\ new = [old EXCEPT !.phase = ph, !.index = n]
          /\ DOMAIN old = {"phase", "loop", "by", "index", "cancel"}
      BY <1>1, <1>2 DEF RunRow
    <3> HIDE DEF old, new, row, l
    <3>2. new.phase = ph /\ new.index = n /\ new.loop = old.loop
      BY ONLY <3>1
    <3> QED
      BY <3>2 DEF old, new, l
  <2> QED
    BY <2>1, <2>2
<1> HIDE DEF row
<1> USE DEF n
<1>4. \A k \in Loops : Counts(k)
  <2>1. Counts(l)
    BY <1>1, <1>2, <1>3, SameCounts
  <2>2. ASSUME NEW k \in Loops \ {l} PROVE Counts(k)
    BY <1>2, SameCounts
  <2> QED
    BY <2>1, <2>2
<1>5. Numbered(r) /\ \A q \in Runs \ {r} : Unnumbered(q) /\ ~Numbered(q)
  BY <1>2, <1>3 DEF Numbered, Unnumbered
<1> QED
  BY <1>4, <1>5, IndexStep

LEMMA LoopStepIndex ==
  ASSUME TypeInv, TypeInv', QueueInv, IndexInv, NEW l \in Loops, LoopStep(l)
  PROVE  IndexInv'
<1>1. ASSUME NEW e, NEW m, NEW o, CreateLoop(l, e, m, o)
      PROVE  IndexInv'
  <2>1. \A k \in Loops : Counts(k)
    <3>1. /\ loop[l].state = "unborn"
          /\ \A k \in Loops \ {l} : loop'[k] = loop[k]
      BY <1>1 DEF CreateLoop, TypeInv, TypeOK
    <3> QED
      BY <3>1, SameCounts DEF Counts
  <2>2. \A q \in Runs : Unnumbered(q)
    BY <1>1 DEF CreateLoop, Unnumbered
  <2> QED
    BY <2>1, <2>2, IndexUnmoved
<1>2. CASE UpdateLoop(l) \/ PauseLoop(l) \/ StartLoop(l)
  BY <1>2, PatchIndex DEF UpdateLoop, PauseLoop, StartLoop
<1>3. CASE StopLoop(l) \/ RequestDeleteLoop(l)
  BY <1>3, StopIndex DEF StopLoop, RequestDeleteLoop
<1>4. CASE TryDeleteLoop(l) \/ ForceDeleteLoop(l)
  <2>1. DropLoopRows({l})
    BY <1>4 DEF TryDeleteLoop, ForceDeleteLoop
  <2>2. {l} \in SUBSET Loops
    OBVIOUS
  <2> QED
    BY <2>1, <2>2, DropIndex
<1>5. CASE EnqueueRun(l)
  <2>1. Enqueue(l, "owner") /\ Present(l) /\ loop' = loop
    BY <1>5 DEF EnqueueRun
  <2> QED
    BY <2>1, EnqueueIndex, IndexKeptByStep
<1>6. ASSUME NEW c, loop' = [loop EXCEPT ![l].cadence = c],
             \A q \in Runs : Unnumbered(q) \/ Inserted(q)
      PROVE  IndexInv'
  <2> DEFINE row == [loop[l] EXCEPT !.cadence = c]
  <2>1. /\ loop[l] \in LoopRow /\ loop'[l] = row
        /\ \A k \in Loops \ {l} : loop'[k] = loop[k]
    BY <1>6 DEF TypeInv, TypeOK
  <2>2. row.state = loop[l].state /\ row.lastRunIndex = loop[l].lastRunIndex
    BY <2>1 DEF LoopRow
  <2> HIDE DEF row
  <2>3. \A k \in Loops : Counts(k)
    BY <2>1, <2>2, SameCounts
  <2> QED
    BY <1>6, <2>3, IndexUnmoved
<1>7. CASE AdvanceSchedule(l)
  <2>1. \A q \in Runs : Unnumbered(q) \/ Inserted(q)
    <3>1. CASE UNCHANGED run
      BY <3>1 DEF Unnumbered
    <3>2. CASE Enqueue(l, "system")
      BY <1>7, <3>2, EnqueueIndex DEF AdvanceSchedule
    <3> QED
      BY <1>7, <3>1, <3>2 DEF AdvanceSchedule
  <2> QED
    BY <1>6, <1>7, <2>1 DEF AdvanceSchedule
<1>8. CASE CadenceFallsDue(l)
  <2>1. \A q \in Runs : Unnumbered(q)
    BY <1>8 DEF CadenceFallsDue, Unnumbered
  <2> QED
    BY <1>6, <1>8, <2>1 DEF CadenceFallsDue
<1> QED
  BY <1>1, <1>2, <1>3, <1>4, <1>5, <1>7, <1>8 DEF LoopStep

LEMMA RunStepIndex ==
  ASSUME TypeInv, TypeInv', QueueInv, IndexInv, NEW r \in Runs, RunStep(r)
  PROVE  IndexInv'
<1> DEFINE l == run[r].loop
           n == loop[l].lastRunIndex + 1
<1>1. CASE /\ run[r].phase = "pending"
           /\ run' = [run EXCEPT ![r].phase = "canceled", ![r].index = n]
           /\ loop' = [loop EXCEPT ![l].lastRunIndex = n]
  <2>1. l \in Loops /\ loop[l] \in LoopRow
    BY <1>1 DEF TypeInv, TypeOK, RunsHaveLoops
  <2>2. [loop[l] EXCEPT !.lastRunIndex = n]
          = [loop[l] EXCEPT !.lastRunIndex = n, !.cadence = loop[l].cadence]
    BY <2>1 DEF LoopRow
  <2>3. loop' = [loop EXCEPT ![l].lastRunIndex = n, ![l].cadence = loop[l].cadence]
    BY <1>1, <2>1, <2>2 DEF TypeInv, TypeOK
  <2> QED
    BY <1>1, <2>3, OneNumbered
<1>2. CASE RequestRunCancel(r)
  <2>1. CASE run[r].phase = "running"
    <3>1. \A q \in Runs : Unnumbered(q)
      BY <1>2, <2>1 DEF RequestRunCancel, Unnumbered, TypeInv, TypeOK, RunRow
    <3> QED
      BY <1>2, <2>1, <3>1, IndexKeptByStep DEF RequestRunCancel
  <2> QED
    BY <1>1, <1>2, <2>1 DEF RequestRunCancel
<1>3. CASE ExpirePendingRun(r)
  BY <1>1, <1>3 DEF ExpirePendingRun
<1>4. CASE ReclaimRun(r)
  BY <1>4, SettleRunIndex DEF ReclaimRun, Terminal, Started
<1>5. CASE RetireElapsed(r) \/ LeaseElapses(r)
  BY <1>5, IndexKeptByStep DEF RetireElapsed, LeaseElapses, Unnumbered
<1>6. ASSUME NEW reported, ClaimReadyRun(r, reported)
      PROVE  IndexInv'
  <2> DEFINE c == IF loop[l].mode = "continuous" THEN "none" ELSE loop[l].cadence
  <2>1. run[r].phase = "pending" /\ l \in Loops
    BY <1>6 DEF ClaimReadyRun, Claimable, TypeInv, RunsHaveLoops
  <2>2. /\ run' = [run EXCEPT ![r].phase = "running", ![r].index = n]
        /\ loop' = [loop EXCEPT ![l].lastRunIndex = n, ![l].cadence = c]
    BY <1>6, <2>1 DEF ClaimReadyRun, TypeInv, TypeOK
  <2> HIDE DEF c
  <2> QED
    BY <2>1, <2>2, OneNumbered
<1> QED
  BY <1>2, <1>3, <1>4, <1>5, <1>6 DEF RunStep

LEMMA ReportStepIndex ==
  ASSUME TypeInv, TypeInv', QueueInv, IndexInv, NEW r \in Runs, NEW rid \in ReportIds,
         ReportStep(r, rid)
  PROVE  IndexInv'
<1>1. CASE UNCHANGED <<loop, run>>
  BY <1>1, IndexKeptByStep DEF Unnumbered
<1>2. ASSUME NEW ph \in Terminal, NEW block, NEW streak, run[r].phase \in Started,
             SettleRun(r, ph, block, streak)
      PROVE  IndexInv'
  BY <1>2, SettleRunIndex
<1>3. ASSUME NEW outcome \in Outcomes
      PROVE  PhaseOf(outcome) \in Terminal
  BY <1>3 DEF Outcomes, PhaseOf, Terminal
<1>4. ASSUME NEW outcome \in Outcomes, FinalizeRunningRun(r, rid, outcome)
      PROVE  IndexInv'
  BY <1>2, <1>3, <1>4 DEF FinalizeRunningRun, Started
<1>5. ASSUME NEW outcome \in Outcomes, ReconcileReclaimedRun(r, rid, outcome)
      PROVE  IndexInv'
  <2>1. CASE lease[r].state = "reconciliation-only"
    <3>1. /\ run[r].phase = "error" /\ UNCHANGED loop
          /\ run' = [run EXCEPT ![r].phase = PhaseOf(outcome)]
      BY <1>5, <2>1 DEF ReconcileReclaimedRun
    <3>2. \A q \in Runs : Unnumbered(q)
      BY <1>3, <3>1 DEF Unnumbered, Terminal, Unstarted, Started, TypeInv, TypeOK, RunRow
    <3> QED
      BY <3>1, <3>2, IndexKeptByStep
  <2>2. CASE lease[r].state # "reconciliation-only"
    BY <1>2, <1>3, <1>5, <2>2 DEF ReconcileReclaimedRun, Started
  <2> QED
    BY <2>1, <2>2
<1>6. CASE RejectTerminalReport(r, rid)
  <2>1. CASE run[r].phase = "running" /\ SettleRun(r, "error", FALSE, AutopauseStreak)
    BY <2>1, SettleRunIndex DEF Terminal, Started
  <2> QED
    BY <1>1, <1>6, <2>1 DEF RejectTerminalReport
<1>7. CASE \/ AcknowledgeRetiredReport(r, rid) \/ AcknowledgeRetiredTerminalIncident(r, rid)
           \/ IgnoreCanceledReport(r, rid)
  BY <1>1, <1>7 DEF AcknowledgeRetiredReport, AcknowledgeRetiredTerminalIncident,
     IgnoreCanceledReport
<1> QED
  BY <1>4, <1>5, <1>6, <1>7 DEF ReportStep

LEMMA StepIndex == TypeInv /\ QueueInv /\ IndexInv /\ [Next]_vars => IndexInv'
<1> SUFFICES ASSUME TypeInv, QueueInv, IndexInv, [Next]_vars PROVE IndexInv'
  OBVIOUS
<1>1. TypeInv'
  BY StepType
<1>2. CASE UNCHANGED <<loop, run>>
  BY <1>1, <1>2, IndexKeptByStep DEF Unnumbered
<1>3. CASE MachineStep
  <2>1. CASE ForceDeleteMachine
    <3> DEFINE owned == {l \in Loops : Present(l)}
    <3>1. owned \in SUBSET Loops /\ DropLoopRows(owned)
      BY <2>1 DEF ForceDeleteMachine
    <3> HIDE DEF owned
    <3> QED
      BY <1>1, <3>1, DropIndex
  <2> QED
    BY <1>2, <1>3, <2>1 DEF MachineStep, SetMachineOnline, ReleaseAbsentReconciliations
<1>4. CASE Next
  BY <1>1, <1>3, <1>4, LoopStepIndex, RunStepIndex, ReportStepIndex DEF Next
<1> QED
  BY <1>2, <1>4 DEF vars

\* The history of a loop is numbered without reuse: what was started or ended has a
\* number of its own, up to the counter, whichever of claim, cancel, pause, breaker or
\* expiry numbered it, and whatever retried.
THEOREM HistoryIsNumbered == Spec => []IndexHistory
<1>1. Init => IndexInv
  BY ConstantsAssumption DEF Init, IndexInv, Unstarted, Started, ConstantsAssumption
<1>2. TypeInv /\ IndexInv => IndexHistory
  <2> SUFFICES ASSUME TypeInv, IndexInv, NEW q \in Runs, NEW r \in Runs
               PROVE  /\ run[r].phase \in {"unborn", "pending"} => run[r].index = 0
                      /\ run[r].phase \in {"running"} \cup Terminal =>
                           run[r].index \in 1..loop[run[r].loop].lastRunIndex
                      /\ run[q].loop = run[r].loop /\ run[q].index = run[r].index
                           /\ run[r].index # 0 => q = r
    BY DEF IndexHistory
  <2>1. /\ run[r].index \in Nat
        /\ run[r].phase # "unborn" => loop[run[r].loop].lastRunIndex \in Nat
    BY DEF TypeInv, TypeOK, RunsHaveLoops, RunRow, LoopRow
  <2> QED
    BY <2>1 DEF IndexInv, Unstarted, Started, Terminal
<1> QED
  BY <1>1, <1>2, StepIndex, QueueAlways, PTL DEF Spec

-----------------------------------------------------------------------------
(* The ledger.  The stage of a run, arm by arm.                            *)

StageFacts(r) ==
  /\ run[r].phase = "unborn" => StageOf(r) = "unborn"
  /\ run[r].phase = "pending" => StageOf(r) = "queued"
  /\ run[r].phase = "running" => StageOf(r) = "executing"
  /\ run[r].phase = "done" => StageOf(r) = "done"
  /\ run[r].phase = "canceled" => StageOf(r) = "canceled"
  /\ run[r].phase = "deleted" => StageOf(r) = "deleted"
  /\ run[r].phase = "error" /\ lease[r].state = "terminal-grace" /\ ~lease[r].elapsed
       => StageOf(r) = "suspect"
  /\ run[r].phase = "error" /\ lease[r].state = "reconciliation-only" /\ ~lease[r].elapsed
       => StageOf(r) = "disowned"
  /\ run[r].phase = "error" /\ ( \/ lease[r].state \notin {"terminal-grace", "reconciliation-only"}
                                 \/ lease[r].elapsed )
       => StageOf(r) = "error"

LEMMA StageIs == \A r : StageFacts(r)
  BY DEF StageFacts, StageOf, Grace, Reconcilable

LEMMA StageIsNext == \A r : StageFacts(r)'
  BY DEF StageFacts, StageOf, Grace, Reconcilable

LEMMA StageType ==
  ASSUME TypeInv', NEW r \in Runs
  PROVE  StageOf(r)' \in Ledger!Stages
<1>1. run'[r] \in RunRow /\ lease'[r] \in LeaseRow
  BY DEF TypeInv, TypeOK
<1>2. StageFacts(r)'
  BY StageIsNext
<1> QED
  BY <1>1, <1>2 DEF StageFacts, RunRow, LeaseRow, Ledger!Stages

-----------------------------------------------------------------------------
(* The three kinds of step that are not ends.                              *)

owner == [r \in Runs |-> run[r].loop]
stage == [r \in Runs |-> StageOf(r)]

LedgerStep == Ledger!Next \/ UNCHANGED <<owner, stage>>

\* Runs end, each in a direction the ledger allows.
LEMMA EndsAreLedger ==
  ASSUME TypeInv',
         \A q \in Runs : /\ run'[q].loop = run[q].loop
                         /\ \/ StageOf(q)' = StageOf(q)
                            \/ StageOf(q)' \in Ledger!Ends(StageOf(q))
  PROVE  LedgerStep
<1>1. owner' = owner
  BY DEF owner
<1>2. \A q \in Runs : StageOf(q)' \in Ledger!Stages
  BY StageType
<1>3. Ledger!End
  BY <1>1, <1>2 DEF Ledger!End, Ledger!Runs, Runs, stage, owner
<1> QED
  BY <1>3 DEF LedgerStep, Ledger!Next

\* What a step may do to a run that it does not start, insert or erase.
Follows(q) ==
  /\ run'[q].loop = run[q].loop
  /\ StageOf(q)' = StageOf(q) \/ StageOf(q)' \in Ledger!Ends(StageOf(q))

\* A row that stays, or leaves the queue, follows.
QuietEnd(q) ==
  /\ run'[q].loop = run[q].loop
  /\ \/ run'[q].phase = run[q].phase
     \/ run[q].phase = "pending" /\ run'[q].phase = "canceled"

LEMMA QuietFollows ==
  ASSUME TypeInv, NEW q \in Runs, lease'[q] = lease[q], QuietEnd(q)
  PROVE  Follows(q)
<1>1. run[q] \in RunRow /\ lease[q] \in LeaseRow
  BY DEF TypeInv, TypeOK
<1>2. StageFacts(q) /\ StageFacts(q)'
  BY StageIs, StageIsNext
<1>3. CASE run'[q].phase = run[q].phase
  BY <1>1, <1>2, <1>3 DEF StageFacts, QuietEnd, Follows, RunRow, LeaseRow
<1>4. CASE run[q].phase = "pending" /\ run'[q].phase = "canceled"
  BY <1>2, <1>4 DEF StageFacts, QuietEnd, Follows, Ledger!Ends
<1> QED
  BY <1>3, <1>4 DEF QuietEnd

\* A step that ends runs, or nothing.
LEMMA FollowsIsLedger ==
  ASSUME TypeInv', \A q \in Runs : Follows(q)
  PROVE  LedgerStep
  BY EndsAreLedger DEF Follows

\* Run r ends, or its lease moves on.
LEMMA EndFollows ==
  ASSUME TypeInv, TypeInv', NEW r \in Runs, run'[r].loop = run[r].loop,
         \/ /\ run[r].phase = "running"
            /\ run'[r].phase \in Terminal
            /\ run'[r].phase = "error" =>
                 lease'[r].state \in {"terminal-grace", "consumed"} /\ ~lease'[r].elapsed
         \/ /\ run[r].phase = "error" /\ Reconcilable(r)
            /\ run'[r].phase \in Terminal
            /\ run'[r].phase = "error" => lease'[r].state \in {"retired", "consumed"}
         \/ /\ run[r].phase = "error" /\ run'[r].phase = "error" /\ lease'[r].elapsed
         \/ /\ run[r].phase = "error" /\ run'[r].phase = "error" /\ Grace(r)
            /\ lease'[r].state = "reconciliation-only" /\ ~lease'[r].elapsed
  PROVE  Follows(r)
<1>1. /\ run[r] \in RunRow /\ lease[r] \in LeaseRow
      /\ run'[r] \in RunRow /\ lease'[r] \in LeaseRow
  BY DEF TypeInv, TypeOK
<1>2. StageFacts(r) /\ StageFacts(r)'
  BY StageIs, StageIsNext
<1>3. /\ Ledger!Ends("executing") = {"suspect", "done", "error", "canceled"}
      /\ Ledger!Ends("suspect") = {"disowned", "done", "error", "canceled"}
      /\ Ledger!Ends("disowned") = {"done", "error", "canceled"}
  BY DEF Ledger!Ends, Ledger!Outcomes
<1>4. CASE run[r].phase = "running"
  <2>1. StageOf(r) = "executing"
    BY <1>2, <1>4 DEF StageFacts
  <2>2. StageOf(r)' \in {"suspect", "done", "error", "canceled"}
    BY <1>1, <1>2, <1>4 DEF StageFacts, Terminal
  <2> QED
    BY <1>3, <2>1, <2>2 DEF Follows
<1>5. CASE run[r].phase = "error"
  <2>1. CASE Grace(r)
    <3>1. StageOf(r) = "suspect"
      BY <1>2, <1>5, <2>1 DEF StageFacts, Grace
    <3>2. StageOf(r)' \in {"disowned", "done", "error", "canceled"}
      BY <1>1, <1>2, <1>5, <2>1 DEF StageFacts, Terminal, LeaseRow
    <3> QED
      BY <1>3, <3>1, <3>2 DEF Follows
  <2>2. CASE ~Grace(r) /\ Reconcilable(r)
    <3>1. StageOf(r) = "disowned"
      BY <1>1, <1>2, <1>5, <2>2 DEF StageFacts, Grace, Reconcilable
    <3>2. StageOf(r)' \in {"done", "error", "canceled"}
      BY <1>1, <1>2, <1>5, <2>2 DEF StageFacts, Terminal, LeaseRow
    <3> QED
      BY <1>3, <3>1, <3>2 DEF Follows
  <2>3. CASE ~Reconcilable(r)
    <3>1. StageOf(r) = "error"
      BY <1>1, <1>2, <1>5, <2>3 DEF StageFacts, Reconcilable, LeaseRow
    <3>2. StageOf(r)' = "error"
      BY <1>1, <1>2, <1>5, <2>3 DEF StageFacts, Reconcilable, Grace, LeaseRow
    <3> QED
      BY <3>1, <3>2 DEF Follows
  <2> QED
    BY <2>1, <2>2, <2>3
<1> QED
  BY <1>4, <1>5

\* Loops are deleted.
LEMMA DropIsLedger ==
  ASSUME TypeInv, TypeInv', NEW S \in SUBSET Loops, NEW states, DropLoopRows(S),
         RetireLeases(S, states)
  PROVE  LedgerStep
<1>1. ASSUME NEW q \in Runs
      PROVE  /\ run'[q].loop = run[q].loop
             /\ StageOf(q)' = IF run[q].loop \in S THEN "deleted" ELSE StageOf(q)
  <2>1. run[q] \in RunRow
    BY DEF TypeInv, TypeOK
  <2>2. run[q].loop \in S => run'[q].loop = run[q].loop /\ run'[q].phase = "deleted"
    BY <2>1 DEF DropLoopRows, RunRow
  <2>3. run[q].loop \notin S => run'[q] = run[q] /\ lease'[q] = lease[q]
    BY DEF DropLoopRows, RetireLeases
  <2>4. run[q].loop \in S => StageOf(q)' = "deleted"
    BY <2>2, StageIsNext DEF StageFacts
  <2>5. run[q].loop \notin S => StageOf(q)' = StageOf(q)
    BY <2>3 DEF StageOf, Grace, Reconcilable
  <2> QED
    BY <2>2, <2>3, <2>4, <2>5
<1>2. Ledger!Erase(S)
  BY <1>1 DEF Ledger!Erase, Ledger!Runs, Runs
<1> QED
  BY <1>2 DEF LedgerStep, Ledger!Next

\* A run is queued, or a queued one is promoted.
LEMMA EnqueueIsLedger ==
  ASSUME TypeInv, TypeInv', NEW l \in Loops, NEW who, Enqueue(l, who), lease' = lease
  PROVE  LedgerStep
<1>1. CASE HasPhase(l, {"pending"})
  <2>1. ASSUME NEW q \in Runs PROVE Follows(q)
    <3>1. run[q] \in RunRow
      BY DEF TypeInv, TypeOK
    <3>2. run'[q] = IF run[q].loop = l /\ run[q].phase = "pending" /\ who = "owner"
                    THEN [run[q] EXCEPT !.by = "owner"] ELSE run[q]
      BY <1>1 DEF Enqueue
    <3>3. QuietEnd(q)
      BY <3>1, <3>2 DEF QuietEnd, RunRow
    <3> QED
      BY <3>3, QuietFollows
  <2> QED
    BY <2>1, FollowsIsLedger
<1>2. CASE ~HasPhase(l, {"pending"})
  <2>1. PICK r \in Runs : /\ Fresh(r)
                          /\ run' = [run EXCEPT ![r] =
                               [phase |-> "pending", loop |-> l, by |-> who,
                                index |-> 0, cancel |-> FALSE]]
    BY <1>2 DEF Enqueue
  <2>2. /\ run[r].phase = "unborn" /\ run'[r].phase = "pending" /\ run'[r].loop = l
        /\ \A q \in Runs \ {r} : run'[q] = run[q]
    BY <2>1 DEF Fresh, TypeInv, TypeOK
  <2>3. StageOf(r) = "unborn" /\ StageOf(r)' = "queued"
    BY <2>2, StageIs, StageIsNext DEF StageFacts
  <2>4. \A q \in Runs \ {r} : StageOf(q)' = StageOf(q)
    BY <2>2 DEF StageOf, Grace, Reconcilable
  <2>5. Ledger!Submit(r, l)
    BY <2>2, <2>3, <2>4 DEF Ledger!Submit, Ledger!Runs, Runs
  <2> QED
    BY <2>5 DEF LedgerStep, Ledger!Next, Ledger!Runs, Runs
<1> QED
  BY <1>1, <1>2

\* A run is claimed: the fence of its loop is the ledger's Busy.
LEMMA ClaimIsLedger ==
  ASSUME TypeInv, Authority, NEW r \in Runs, NEW reported, ClaimReadyRun(r, reported)
  PROVE  LedgerStep
<1>1. run[r].phase = "pending" /\ ~Fenced(run[r].loop)
  BY DEF ClaimReadyRun, Claimable
<1>2. /\ run'[r].phase = "running" /\ run'[r].loop = run[r].loop
      /\ \A q \in Runs \ {r} : run'[q] = run[q] /\ lease'[q] = lease[q]
  BY DEF ClaimReadyRun, TypeInv, TypeOK, RunRow
<1>3. StageOf(r) = "queued" /\ StageOf(r)' = "executing"
  BY <1>1, <1>2, StageIs, StageIsNext DEF StageFacts
<1>4. \A q \in Runs \ {r} : StageOf(q)' = StageOf(q)
  BY <1>2 DEF StageOf, Grace, Reconcilable
<1>5. ASSUME NEW q \in Runs, StageOf(q) \in {"executing", "suspect"}
      PROVE  Fences(q)
  <2>1. StageFacts(q) /\ run[q] \in RunRow /\ lease[q] \in LeaseRow
    BY StageIs DEF TypeInv, TypeOK
  <2>2. \/ run[q].phase = "running"
        \/ lease[q].state = "terminal-grace" /\ ~lease[q].elapsed
    BY <1>5, <2>1 DEF StageFacts, RunRow, LeaseRow
  <2> QED
    BY <2>2 DEF Fences, Grace, Authority, AuthorityMatchesPhase
<1>6. ~Ledger!Busy(run[r].loop)
  BY <1>1, <1>5 DEF Ledger!Busy, Ledger!Runs, Runs, Fenced
<1>7. Ledger!Start(r)
  BY <1>2, <1>3, <1>4, <1>6 DEF Ledger!Start, Ledger!Runs, Runs
<1> QED
  BY <1>7 DEF LedgerStep, Ledger!Next, Ledger!Runs, Runs

\* Run r settles, and the queue of its loop may go with it.
LEMMA SettleFollows ==
  ASSUME TypeInv, NEW r \in Runs, NEW ph, NEW block, NEW streak,
         SettleRun(r, ph, block, streak), \A q \in Runs \ {r} : lease'[q] = lease[q]
  PROVE  /\ run'[r].phase = ph /\ run'[r].loop = run[r].loop
         /\ \A q \in Runs \ {r} : Follows(q)
<1> DEFINE canceled == QueueCanceled(run[r].loop, {"system"})
           rows == IF Pauses(r, ph, block, streak) THEN canceled ELSE run
<1>1. run'[r].phase = ph /\ run'[r].loop = run[r].loop
  BY SettleRunQuiet DEF TypeInv
<1>2. \A q \in Runs : /\ rows[q].loop = run[q].loop
                      /\ \/ rows[q].phase = run[q].phase
                         \/ run[q].phase = "pending" /\ rows[q].phase = "canceled"
  BY QueueCanceledQuiet DEF TypeInv
<1>3. \A q \in Runs \ {r} : run'[q] = rows[q]
  <2>1. /\ DOMAIN rows = Runs
        /\ run' = [rows EXCEPT ![r] = [rows[r] EXCEPT !.phase = ph]]
    BY DEF QueueCanceled, TypeInv, TypeOK, SettleRun
  <2> HIDE DEF rows
  <2> QED
    BY <2>1
<1> HIDE DEF rows
<1>4. \A q \in Runs \ {r} : QuietEnd(q)
  BY <1>2, <1>3 DEF QuietEnd
<1> QED
  BY <1>1, <1>4, QuietFollows

-----------------------------------------------------------------------------
(* Every step, by its kind.                                                *)

LEMMA LoopStepLedger ==
  ASSUME TypeInv, TypeInv', NEW l \in Loops, LoopStep(l)
  PROVE  LedgerStep
<1>1. ASSUME lease' = lease, \A q \in Runs : QuietEnd(q)
      PROVE  LedgerStep
  BY <1>1, QuietFollows, FollowsIsLedger
<1>2. ASSUME NEW e, NEW m, NEW o, CreateLoop(l, e, m, o)
      PROVE  LedgerStep
  BY <1>1, <1>2 DEF CreateLoop, QuietEnd
<1>3. ASSUME NEW on, NEW m, NEW o, NEW retimed, PatchLoop(l, on, m, o, retimed)
      PROVE  LedgerStep
  <2>1. lease' = lease /\ \A q \in Runs : QuietEnd(q)
    BY <1>3, QueueCanceledQuiet DEF PatchLoop, QuietEnd, TypeInv
  <2> QED
    BY <1>1, <2>1
<1>4. ASSUME NEW deleting, Stop(l, deleting)
      PROVE  LedgerStep
  <2>1. ASSUME NEW q \in Runs
        PROVE  /\ [run[q] EXCEPT !.cancel = TRUE].loop = run[q].loop
               /\ [run[q] EXCEPT !.cancel = TRUE].phase = run[q].phase
    BY DEF TypeInv, TypeOK, RunRow
  <2>2. \A q \in Runs : QuietEnd(q)
    BY <1>4, <2>1, QueueCanceledQuiet DEF Stop, StopRows, QuietEnd, TypeInv
  <2> QED
    BY <1>1, <1>4, <2>2 DEF Stop
<1>5. CASE TryDeleteLoop(l) \/ ForceDeleteLoop(l)
  <2>1. /\ DropLoopRows({l}) /\ {l} \in SUBSET Loops
        /\ \E states \in {Authorities, {"reconciliation-only"}} : RetireLeases({l}, states)
    BY <1>5 DEF TryDeleteLoop, ForceDeleteLoop
  <2> QED
    BY <2>1, DropIsLedger
<1>6. CASE EnqueueRun(l)
  BY <1>6, EnqueueIsLedger DEF EnqueueRun
<1>7. CASE AdvanceSchedule(l)
  <2>1. CASE UNCHANGED run
    BY <1>1, <1>7, <2>1 DEF AdvanceSchedule, QuietEnd
  <2>2. CASE Enqueue(l, "system")
    BY <1>7, <2>2, EnqueueIsLedger DEF AdvanceSchedule
  <2> QED
    BY <1>7, <2>1, <2>2 DEF AdvanceSchedule
<1>8. CASE CadenceFallsDue(l)
  BY <1>1, <1>8 DEF CadenceFallsDue, QuietEnd
<1>9. CASE UpdateLoop(l) \/ PauseLoop(l) \/ StartLoop(l) \/ StopLoop(l) \/ RequestDeleteLoop(l)
  BY <1>3, <1>4, <1>9 DEF UpdateLoop, PauseLoop, StartLoop, StopLoop, RequestDeleteLoop
<1> QED
  BY <1>2, <1>5, <1>6, <1>7, <1>8, <1>9 DEF LoopStep

LEMMA RunStepLedger ==
  ASSUME TypeInv, TypeInv', Authority, NEW r \in Runs, RunStep(r)
  PROVE  LedgerStep
<1>1. \A q \in Runs : run'[q] = run[q] /\ lease'[q] = lease[q] => Follows(q)
  BY QuietFollows DEF QuietEnd
<1>2. CASE RequestRunCancel(r) \/ ExpirePendingRun(r)
  <2>1. lease' = lease /\ \A q \in Runs : QuietEnd(q)
    BY <1>2 DEF RequestRunCancel, ExpirePendingRun, QuietEnd, TypeInv, TypeOK, RunRow
  <2> QED
    BY <2>1, QuietFollows, FollowsIsLedger
<1>3. CASE ReclaimRun(r)
  <2>1. /\ lease' = [lease EXCEPT ![r] = [state |-> "terminal-grace", elapsed |-> FALSE]]
        /\ run[r].phase = "running" /\ SettleRun(r, "error", FALSE, 0)
    BY <1>3 DEF ReclaimRun, Authority, AuthorityMatchesPhase, TypeInv, TypeOK
  <2>2. /\ lease'[r] = [state |-> "terminal-grace", elapsed |-> FALSE]
        /\ \A q \in Runs \ {r} : lease'[q] = lease[q]
    BY <2>1 DEF TypeInv, TypeOK
  <2>3. /\ run'[r].phase = "error" /\ run'[r].loop = run[r].loop
        /\ \A q \in Runs \ {r} : Follows(q)
    BY <2>1, <2>2, SettleFollows
  <2>4. Follows(r)
    BY <2>1, <2>2, <2>3, EndFollows DEF Terminal
  <2> QED
    BY <2>3, <2>4, FollowsIsLedger
<1>4. CASE RetireElapsed(r)
  <2>1. /\ run[r].phase = "error" /\ run' = run
        /\ lease[r].elapsed /\ lease[r].state \in {"terminal-grace", "reconciliation-only"}
    BY <1>4 DEF RetireElapsed, Authority, AuthorityMatchesPhase
  <2>2. /\ lease'[r].state = "retired"
        /\ \A q \in Runs \ {r} : lease'[q] = lease[q]
    BY <1>4 DEF RetireElapsed, TypeInv, TypeOK
  <2>3. StageOf(r) = "error" /\ StageOf(r)' = "error"
    BY <2>1, <2>2, StageIs, StageIsNext DEF StageFacts
  <2>4. \A q \in Runs : Follows(q)
    BY <1>1, <2>1, <2>2, <2>3 DEF Follows
  <2> QED
    BY <2>4, FollowsIsLedger
<1>5. CASE LeaseElapses(r)
  <2>1. /\ run[r].phase = "error" /\ run' = run
    BY <1>5 DEF LeaseElapses, Reconcilable, Authority, AuthorityMatchesPhase
  <2>2. /\ lease'[r].elapsed
        /\ \A q \in Runs \ {r} : lease'[q] = lease[q]
    BY <1>5 DEF LeaseElapses, TypeInv, TypeOK, LeaseRow
  <2>3. Follows(r)
    BY <2>1, <2>2, EndFollows
  <2> QED
    BY <1>1, <2>1, <2>2, <2>3, FollowsIsLedger
<1>6. ASSUME NEW reported, ClaimReadyRun(r, reported)
      PROVE  LedgerStep
  BY <1>6, ClaimIsLedger
<1> QED
  BY <1>2, <1>3, <1>4, <1>5, <1>6 DEF RunStep

LEMMA ReportStepLedger ==
  ASSUME TypeInv, TypeInv', Authority, NEW r \in Runs, NEW rid \in ReportIds,
         ReportStep(r, rid)
  PROVE  LedgerStep
<1>1. /\ Consume(r)
      /\ lease'[r] = [state |-> "consumed", elapsed |-> FALSE]
      /\ \A q \in Runs \ {r} : lease'[q] = lease[q]
  <2>1. Consume(r)
    BY DEF ReportStep, FinalizeRunningRun, ReconcileReclaimedRun, RejectTerminalReport,
       AcknowledgeRetiredReport, AcknowledgeRetiredTerminalIncident, IgnoreCanceledReport
  <2> QED
    BY <2>1 DEF Consume, TypeInv, TypeOK
<1>2. \A q \in Runs \ {r} : run'[q] = run[q] => Follows(q)
  BY <1>1, QuietFollows DEF QuietEnd
<1>3. ASSUME NEW ph \in Terminal, run'[r].phase = ph, run'[r].loop = run[r].loop,
             run[r].phase = "running" \/ (run[r].phase = "error" /\ Reconcilable(r))
      PROVE  Follows(r)
  BY <1>1, <1>3, EndFollows
<1>4. ASSUME NEW ph \in Terminal, NEW block, NEW streak, SettleRun(r, ph, block, streak),
             run[r].phase = "running" \/ (run[r].phase = "error" /\ Reconcilable(r))
      PROVE  LedgerStep
  <2>1. /\ run'[r].phase = ph /\ run'[r].loop = run[r].loop
        /\ \A q \in Runs \ {r} : Follows(q)
    BY <1>1, <1>4, SettleFollows
  <2> QED
    BY <1>3, <1>4, <2>1, FollowsIsLedger
<1>5. ASSUME NEW outcome \in Outcomes
      PROVE  PhaseOf(outcome) \in Terminal
  BY <1>5 DEF Outcomes, PhaseOf, Terminal
<1>6. ASSUME NEW outcome \in Outcomes, FinalizeRunningRun(r, rid, outcome)
      PROVE  LedgerStep
  <2>1. /\ run[r].phase = "running"
        /\ SettleRun(r, PhaseOf(outcome), outcome = "block", AutopauseStreak)
    BY <1>6 DEF FinalizeRunningRun
  <2>2. /\ run'[r].phase = PhaseOf(outcome) /\ run'[r].loop = run[r].loop
        /\ \A q \in Runs \ {r} : Follows(q)
    BY <1>1, <2>1, SettleFollows
  <2>3. PhaseOf(outcome) \in Terminal
    BY <1>5
  <2>4. run[r].phase = "running" /\ run'[r].phase \in Terminal
    BY <2>1, <2>2, <2>3
  <2>5. Follows(r)
    BY <1>1, <2>2, <2>4, EndFollows
  <2> QED
    BY <2>2, <2>5, FollowsIsLedger
<1>7. ASSUME NEW outcome \in Outcomes, ReconcileReclaimedRun(r, rid, outcome)
      PROVE  LedgerStep
  <2>1. CASE lease[r].state = "reconciliation-only"
    <3>1. run' = [run EXCEPT ![r] = [run[r] EXCEPT !.phase = PhaseOf(outcome)]]
      BY <1>7, <2>1 DEF ReconcileReclaimedRun, TypeInv, TypeOK
    <3>2. /\ run'[r].phase = PhaseOf(outcome) /\ run'[r].loop = run[r].loop
          /\ \A q \in Runs \ {r} : run'[q] = run[q]
      BY <3>1 DEF TypeInv, TypeOK, RunRow
    <3>3. Follows(r)
      BY <1>3, <1>5, <1>7, <3>2 DEF ReconcileReclaimedRun
    <3> QED
      BY <1>2, <3>2, <3>3, FollowsIsLedger
  <2>2. CASE lease[r].state # "reconciliation-only"
    BY <1>4, <1>5, <1>7, <2>2 DEF ReconcileReclaimedRun
  <2> QED
    BY <2>1, <2>2
<1>8. CASE RejectTerminalReport(r, rid)
  <2>1. CASE run[r].phase = "running" /\ SettleRun(r, "error", FALSE, AutopauseStreak)
    <3>1. "error" \in Terminal
      BY DEF Terminal
    <3>2. /\ run'[r].phase = "error" /\ run'[r].loop = run[r].loop
          /\ \A q \in Runs \ {r} : Follows(q)
      BY <1>1, <2>1, SettleFollows
    <3>3. Follows(r)
      BY <1>1, <2>1, <3>1, <3>2, EndFollows
    <3> QED
      BY <3>2, <3>3, FollowsIsLedger
  <2>2. CASE run[r].phase \in Terminal /\ UNCHANGED run
    <3>1. run[r].phase = "error" /\ Reconcilable(r)
      BY <1>8, <2>2 DEF RejectTerminalReport, Rejectable, Reconcilable, Terminal, Authority,
         AuthorityMatchesPhase
    <3>2. Follows(r)
      BY <1>3, <2>2, <3>1
    <3> QED
      BY <1>2, <2>2, <3>2, FollowsIsLedger
  <2> QED
    BY <1>8, <2>1, <2>2 DEF RejectTerminalReport
<1>9. ASSUME UNCHANGED run, lease[r].state = "retired" \/ run[r].phase = "canceled"
      PROVE  LedgerStep
  <2>1. run[r] \in RunRow
    BY DEF TypeInv, TypeOK
  <2>2. StageFacts(r) /\ StageFacts(r)'
    BY StageIs, StageIsNext
  <2>3. StageOf(r)' = StageOf(r)
    BY <1>1, <1>9, <2>1, <2>2 DEF StageFacts, RunRow
  <2>4. Follows(r)
    BY <1>9, <2>3 DEF Follows
  <2> QED
    BY <1>2, <1>9, <2>4, FollowsIsLedger
<1>10. CASE \/ AcknowledgeRetiredReport(r, rid) \/ AcknowledgeRetiredTerminalIncident(r, rid)
            \/ IgnoreCanceledReport(r, rid)
  BY <1>9, <1>10 DEF AcknowledgeRetiredReport, AcknowledgeRetiredTerminalIncident,
     IgnoreCanceledReport
<1> QED
  BY <1>6, <1>7, <1>8, <1>10 DEF ReportStep

LEMMA MachineStepLedger ==
  ASSUME TypeInv, TypeInv', Authority, MachineStep
  PROVE  LedgerStep
<1>1. CASE ForceDeleteMachine
  <2> DEFINE owned == {l \in Loops : Present(l)}
  <2>1. owned \in SUBSET Loops /\ DropLoopRows(owned) /\ RetireLeases(owned, Authorities)
    BY <1>1 DEF ForceDeleteMachine
  <2> HIDE DEF owned
  <2> QED
    BY <2>1, DropIsLedger
<1>2. ASSUME NEW status, SetMachineOnline(status)
      PROVE  LedgerStep
  <2>1. \A q \in Runs : Follows(q)
    BY <1>2, QuietFollows DEF SetMachineOnline, QuietEnd
  <2> QED
    BY <2>1, FollowsIsLedger
<1>3. ASSUME NEW reported, ReleaseAbsentReconciliations(reported)
      PROVE  LedgerStep
  <2>1. ASSUME NEW q \in Runs PROVE Follows(q)
    <3>1. /\ run' = run
          /\ lease'[q] = IF Grace(q) /\ q \notin reported
                         THEN [lease[q] EXCEPT !.state = "reconciliation-only"] ELSE lease[q]
      BY <1>3 DEF ReleaseAbsentReconciliations
    <3>2. CASE Grace(q) /\ q \notin reported
      <4>1. run[q].phase = "error"
        BY <3>2 DEF Grace, Authority, AuthorityMatchesPhase
      <4>2. lease'[q].state = "reconciliation-only" /\ lease'[q].elapsed = lease[q].elapsed
        BY <3>1, <3>2 DEF TypeInv, TypeOK, LeaseRow
      <4> QED
        BY <3>1, <3>2, <4>1, <4>2, EndFollows DEF Grace
    <3>3. CASE ~(Grace(q) /\ q \notin reported)
      BY <3>1, <3>3, QuietFollows DEF QuietEnd
    <3> QED
      BY <3>2, <3>3
  <2> QED
    BY <2>1, FollowsIsLedger
<1> QED
  BY <1>1, <1>2, <1>3 DEF MachineStep

LEMMA StepLedger == TypeInv /\ Authority /\ [Next]_vars => LedgerStep
<1> SUFFICES ASSUME TypeInv, Authority, [Next]_vars PROVE LedgerStep
  OBVIOUS
<1>1. CASE UNCHANGED vars
  BY <1>1 DEF vars, LedgerStep, owner, stage, StageOf, Grace, Reconcilable
<1>2. CASE Next
  <2>1. TypeInv'
    BY StepType
  <2> QED
    BY <1>2, <2>1, LoopStepLedger, RunStepLedger, ReportStepLedger, MachineStepLedger DEF Next
<1> QED
  BY <1>1, <1>2

LEMMA InitLedger == Init => Ledger!Init
  BY StageIs DEF Init, Ledger!Init, Ledger!Runs, Runs, StageFacts

\* The store implements the ledger: whatever transactions commit, in whatever order, a run
\* passes its stages in one direction, a settled outcome stands, and no run of a loop starts
\* while another one executes or may still be executing.
THEOREM StoreImplementsLedger == Spec => ImplementsLedger
<1>1. TypeInv /\ Authority /\ [Next]_vars => (TypeInv /\ Authority)'
  BY StepType, StepAuthority
<1>2. Init => TypeInv /\ Authority
  BY InitType, InitAuthority
<1>3. TypeInv /\ Authority /\ [Next]_vars => [Ledger!Next]_<<owner, stage>>
  BY StepLedger DEF LedgerStep
<1> QED
  BY <1>1, <1>2, <1>3, InitLedger, PTL DEF Spec, ImplementsLedger, Ledger!Spec, owner, stage

-----------------------------------------------------------------------------
(* What keeps a loop going, and what switches it off.                      *)

\* A settled run, row by row.
LEMMA Settled ==
  ASSUME TypeInv, NEW r \in Runs, run[r].loop \in Loops, NEW ph \in Terminal,
         NEW block, NEW streak, SettleRun(r, ph, block, streak)
  PROVE  /\ \A k \in Loops \ {run[r].loop} : loop'[k] = loop[k]
         /\ loop'[run[r].loop].state = loop[run[r].loop].state
         /\ loop'[run[r].loop].mode = loop[run[r].loop].mode
         /\ Pauses(r, ph, block, streak) => ~loop'[run[r].loop].enabled
         /\ ~Pauses(r, ph, block, streak) =>
              /\ loop'[run[r].loop].enabled = loop[run[r].loop].enabled
              /\ loop'[run[r].loop].cadence = CadenceAfter(r, ph)
              /\ \A q \in Runs \ {r} : run'[q] = run[q]
         /\ \A q \in Runs \ {r} :
              run'[q] # run[q] => /\ run'[q].phase = "canceled" /\ run[q].phase = "pending"
                                  /\ run[q].loop = run[r].loop
         /\ run'[r].phase = ph /\ run'[r].loop = run[r].loop
         /\ run[r].phase # "pending" => run'[r].index = run[r].index
<1> DEFINE l == run[r].loop
           pauses == Pauses(r, ph, block, streak)
           canceled == QueueCanceled(l, {"system"})
           rows == IF pauses THEN canceled ELSE run
           off == [loop[l] EXCEPT !.enabled = FALSE, !.cadence = "none",
                                  !.lastRunIndex = IndexAfterCancel(l, {"system"})]
           on == [loop[l] EXCEPT !.cadence = CadenceAfter(r, ph)]
<1>1. /\ loop[l] \in LoopRow
      /\ loop'[l] = IF pauses THEN off ELSE on
      /\ \A k \in Loops \ {l} : loop'[k] = loop[k]
  BY DEF TypeInv, TypeOK, SettleRun
<1>2. /\ off.state = loop[l].state /\ off.mode = loop[l].mode /\ off.enabled = FALSE
      /\ on.state = loop[l].state /\ on.mode = loop[l].mode
      /\ on.enabled = loop[l].enabled /\ on.cadence = CadenceAfter(r, ph)
  BY <1>1 DEF LoopRow
<1>3. \A q \in Runs : /\ run[q] \in RunRow
                      /\ q \notin Queued(l, {"system"}) => rows[q] = run[q]
                      /\ q \in Queued(l, {"system"}) /\ pauses => rows[q].phase = "canceled"
  BY DEF TypeInv, TypeOK, QueueCanceled, RunRow
<1>4. /\ \A q \in Runs \ {r} : run'[q] = rows[q]
      /\ run'[r] = [rows[r] EXCEPT !.phase = ph]
  <2>1. /\ DOMAIN rows = Runs
        /\ run' = [rows EXCEPT ![r] = [rows[r] EXCEPT !.phase = ph]]
    BY DEF QueueCanceled, TypeInv, TypeOK, SettleRun
  <2> HIDE DEF rows
  <2> QED
    BY <2>1
<1>5. run[r].phase # "pending" => run'[r].index = run[r].index
  BY <1>3, <1>4 DEF Queued, RunRow
<1>6. run'[r].phase = ph /\ run'[r].loop = l
  BY SettleRunQuiet DEF TypeInv
<1>7. \A q \in Runs \ {r} :
        run'[q] # run[q] => /\ run'[q].phase = "canceled" /\ run[q].phase = "pending"
                            /\ run[q].loop = l
  BY <1>3, <1>4 DEF Queued
<1>8. ~pauses => \A q \in Runs \ {r} : run'[q] = run[q]
  BY <1>4
<1> HIDE DEF off, on
<1> QED
  BY <1>1, <1>2, <1>5, <1>6, <1>7, <1>8

StallIsCanceled(l) ==
  ~Stalled(l) /\ Stalled(l)' =>
    \E r \in Runs : run[r].loop = l /\ run[r].phase \in Open /\ run'[r].phase = "canceled"

\* A loop whose own row says what it said stalls only with the end of a run of its own.
LEMMA SameRowStall ==
  ASSUME NEW l \in Loops, loop'[l].state = loop[l].state, loop'[l].enabled = loop[l].enabled,
         loop'[l].mode = loop[l].mode, loop'[l].cadence = loop[l].cadence,
         \A q \in Runs : run[q].loop = l /\ run[q].phase \in Open =>
           \/ run'[q].phase = "canceled"
           \/ run'[q].loop = l /\ run'[q].phase \in Open
  PROVE  StallIsCanceled(l)
BY DEF StallIsCanceled, Stalled, Present, HasPhase

LEMMA SettleStall ==
  ASSUME TypeInv, NEW r \in Runs, run[r].loop \in Loops, NEW ph \in Terminal,
         NEW block, NEW streak, SettleRun(r, ph, block, streak), NEW l \in Loops
  PROVE  StallIsCanceled(l)
<1> DEFINE k == run[r].loop
<1>1. /\ l # k => loop'[l] = loop[l]
      /\ loop'[k].state = loop[k].state /\ loop'[k].mode = loop[k].mode
      /\ run'[r].phase = ph /\ run'[r].loop = k
      /\ \A q \in Runs \ {r} :
           run'[q] # run[q] => run'[q].phase = "canceled" /\ run[q].loop = k
  BY Settled
<1>2. CASE l # k
  BY <1>1, <1>2, SameRowStall
<1>3. CASE l = k /\ Pauses(r, ph, block, streak)
  <2>1. ~loop'[l].enabled
    BY <1>3, Settled
  <2> QED
    BY <2>1 DEF StallIsCanceled, Stalled
<1>4. CASE l = k /\ ~Pauses(r, ph, block, streak)
  <2>1. /\ loop'[l].enabled = loop[l].enabled /\ loop'[l].cadence = CadenceAfter(r, ph)
        /\ \A q \in Runs \ {r} : run'[q] = run[q]
    BY <1>4, Settled
  <2>2. CASE ph = "canceled"
    BY <1>1, <1>4, <2>1, <2>2, SameRowStall DEF CadenceAfter
  <2>3. CASE ph \in {"done", "error"}
    <3> SUFFICES ASSUME Stalled(l)' PROVE FALSE
      BY DEF StallIsCanceled
    <3>1. /\ loop[l].mode = "continuous" /\ loop[l].enabled /\ CadenceAfter(r, ph) = "none"
          /\ ~\E q \in Runs : run'[q].loop = l /\ run'[q].phase \in Open
      BY <1>1, <1>4, <2>1 DEF Stalled, HasPhase
    <3>2. PICK q \in Runs \ {r} : run[q].loop = l /\ run[q].phase \in Open
      BY <1>4, <2>3, <3>1 DEF CadenceAfter
    <3> QED
      BY <2>1, <3>1, <3>2
  <2> QED
    BY <2>2, <2>3 DEF Terminal
<1> QED
  BY <1>2, <1>3, <1>4

\* A patch leaves a loop with a run, or gives it an occurrence.
LEMMA PatchStall ==
  ASSUME TypeInv, NEW l \in Loops, NEW on \in {"keep", "yes", "no"}, NEW m \in Modes,
         NEW o \in Overlaps, NEW retimed \in BOOLEAN, PatchLoop(l, on, m, o, retimed),
         NEW k \in Loops
  PROVE  StallIsCanceled(k)
<1> DEFINE enabled == EnabledBy(on, loop[l]) /\ ~loop[l].deleting
           cadence == CadenceBy(l, enabled, m, retimed)
           index == IF on = "no" THEN IndexAfterCancel(l, {"system"}) ELSE loop[l].lastRunIndex
           row == [loop[l] EXCEPT !.enabled = enabled, !.mode = m, !.overlap = o,
                                  !.cadence = cadence, !.lastRunIndex = index]
           canceled == QueueCanceled(l, {"system"})
<1>1. /\ loop[l] \in LoopRow /\ Present(l)
      /\ loop' = [loop EXCEPT ![l] = row]
      /\ run' = IF on = "no" THEN canceled ELSE run
  BY DEF TypeInv, TypeOK, PatchLoop
<1>2. /\ loop'[l] = row
      /\ \A j \in Loops \ {l} : loop'[j] = loop[j]
  BY <1>1 DEF TypeInv, TypeOK
<1>3. /\ row.state = loop[l].state /\ row.mode = m /\ row.enabled = enabled
      /\ row.cadence = cadence
  <2> HIDE DEF enabled, cadence, index
  <2> QED
    BY <1>1 DEF LoopRow
<1>4. \A q \in Runs : /\ canceled[q].loop = run[q].loop
                      /\ \/ canceled[q].phase = run[q].phase
                         \/ run[q].phase = "pending" /\ canceled[q].phase = "canceled"
  BY QueueCanceledQuiet DEF TypeInv
<1>5. CASE k # l
  <2> HIDE DEF canceled, row
  <2> QED
    BY <1>1, <1>2, <1>4, <1>5, SameRowStall DEF Open
<1>6. CASE k = l /\ Stalled(l)' /\ ~Stalled(l)
  <2>1. /\ enabled /\ m = "continuous" /\ cadence = "none"
        /\ ~\E q \in Runs : run'[q].loop = l /\ run'[q].phase \in Open
    BY <1>2, <1>3, <1>6 DEF Stalled, HasPhase
  <2>2. run' = run
    BY <1>1, <2>1 DEF EnabledBy
  <2>3. HasPhase(l, Open)
    <3>1. CASE ~loop[l].enabled \/ m # loop[l].mode
      BY <2>1, <3>1 DEF CadenceBy
    <3>2. CASE loop[l].enabled /\ m = loop[l].mode
      <4>1. cadence = loop[l].cadence
        BY <2>1, <3>2 DEF CadenceBy
      <4> QED
        BY <1>1, <1>6, <2>1, <3>2, <4>1 DEF Stalled
    <3> QED
      BY <1>1, <3>1, <3>2 DEF LoopRow
  <2> QED
    BY <2>1, <2>2, <2>3 DEF HasPhase
<1> QED
  BY <1>5, <1>6 DEF StallIsCanceled

\* A loop that goes away is not stalled.
LEMMA DropStall ==
  ASSUME TypeInv, NEW S, DropLoopRows(S), NEW l \in Loops
  PROVE  StallIsCanceled(l)
<1>1. loop[l] \in LoopRow
  BY DEF TypeInv, TypeOK
<1>2. CASE l \in S
  <2>1. loop'[l].enabled = FALSE
    BY <1>1, <1>2 DEF DropLoopRows, LoopRow
  <2> QED
    BY <2>1 DEF StallIsCanceled, Stalled
<1>3. CASE l \notin S
  <2>1. loop'[l] = loop[l] /\ \A q \in Runs : run[q].loop = l => run'[q] = run[q]
    BY <1>3 DEF DropLoopRows
  <2> QED
    BY <2>1, SameRowStall
<1> QED
  BY <1>2, <1>3

\* A step that leaves the loops alone and ends no run that is open.
LEMMA QuietStall ==
  ASSUME loop' = loop,
         \A q \in Runs : run'[q].loop = run[q].loop \/ run[q].phase \notin Open,
         \A q \in Runs : run[q].phase \in Open => run'[q].phase \in Open
  PROVE  \A l \in Loops : StallIsCanceled(l)
BY SameRowStall

\* A queued run that is canceled by itself.
LEMMA CancelStall ==
  ASSUME TypeInv, NEW r \in Runs, run[r].phase = "pending", NEW n, NEW m,
         run' = [run EXCEPT ![r].phase = "canceled", ![r].index = n],
         loop' = [loop EXCEPT ![run[r].loop].lastRunIndex = m]
  PROVE  \A l \in Loops : StallIsCanceled(l)
<1>1. /\ \A q \in Runs : q # r => run'[q] = run[q]
      /\ run'[r].phase = "canceled"
  BY DEF TypeInv, TypeOK, RunRow
<1>2. \A l \in Loops : /\ loop'[l].state = loop[l].state /\ loop'[l].enabled = loop[l].enabled
                       /\ loop'[l].mode = loop[l].mode /\ loop'[l].cadence = loop[l].cadence
  BY DEF TypeInv, TypeOK, LoopRow
<1> QED
  BY <1>1, <1>2, SameRowStall

\* What is queued, or taken from the queue, is there to go on with.
LEMMA EnqueueStall ==
  ASSUME TypeInv, NEW l \in Loops, NEW who \in {"owner", "system"}, Enqueue(l, who)
  PROVE  /\ \E q \in Runs : run'[q].loop = l /\ run'[q].phase \in Open
         /\ \A q \in Runs : run[q].phase \in Open =>
              run'[q].loop = run[q].loop /\ run'[q].phase \in Open
<1>1. CASE HasPhase(l, {"pending"})
  <2>1. ASSUME NEW q \in Runs
        PROVE  run'[q].loop = run[q].loop /\ run'[q].phase = run[q].phase
    <3>1. run[q] \in RunRow
      BY DEF TypeInv, TypeOK
    <3>2. run'[q] = IF run[q].loop = l /\ run[q].phase = "pending" /\ who = "owner"
                    THEN [run[q] EXCEPT !.by = "owner"] ELSE run[q]
      BY <1>1 DEF Enqueue
    <3> QED
      BY <3>1, <3>2 DEF RunRow
  <2> QED
    BY <1>1, <2>1 DEF HasPhase, Open
<1>2. CASE ~HasPhase(l, {"pending"})
  <2> DEFINE new == [phase |-> "pending", loop |-> l, by |-> who, index |-> 0,
                     cancel |-> FALSE]
  <2>1. PICK r \in Runs : Fresh(r) /\ run' = [run EXCEPT ![r] = new]
    BY <1>2 DEF Enqueue
  <2>2. /\ run'[r].loop = l /\ run'[r].phase = "pending" /\ run[r].phase = "unborn"
        /\ \A q \in Runs \ {r} : run'[q] = run[q]
    BY <2>1 DEF TypeInv, TypeOK, Fresh
  <2> QED
    BY <2>2 DEF Open
<1> QED
  BY <1>1, <1>2

LEMMA LoopStepStall ==
  ASSUME TypeInv, NEW k \in Loops, LoopStep(k), NEW l \in Loops
  PROVE  StallIsCanceled(l)
<1>1. ASSUME NEW e, NEW m, NEW o, CreateLoop(k, e, m, o)
      PROVE  StallIsCanceled(l)
  <2>1. /\ loop'[k].cadence = IF ~e THEN "none" ELSE IF m = "continuous" THEN "due" ELSE "future"
        /\ loop'[k].enabled = e /\ run' = run
        /\ \A j \in Loops \ {k} : loop'[j] = loop[j]
    BY <1>1 DEF CreateLoop, TypeInv, TypeOK
  <2>2. CASE l = k
    BY <2>1, <2>2 DEF StallIsCanceled, Stalled
  <2>3. CASE l # k
    BY <2>1, <2>3, SameRowStall
  <2> QED
    BY <2>2, <2>3
<1>2. CASE UpdateLoop(k) \/ PauseLoop(k) \/ StartLoop(k)
  <2>1. loop[k].mode \in Modes /\ loop[k].overlap \in Overlaps
    BY DEF TypeInv, TypeOK, LoopRow
  <2> QED
    BY <1>2, <2>1, PatchStall, ConstantsAssumption
       DEF UpdateLoop, PauseLoop, StartLoop, ConstantsAssumption
<1>3. CASE StopLoop(k) \/ RequestDeleteLoop(k)
  <2>1. PICK deleting : Stop(k, deleting)
    BY <1>3 DEF StopLoop, RequestDeleteLoop
  <2> DEFINE row == [loop[k] EXCEPT !.enabled = FALSE, !.cadence = "none",
                       !.deleting = deleting,
                       !.lastRunIndex = IndexAfterCancel(k, {"owner", "system"})]
  <2>2. /\ loop[k] \in LoopRow /\ loop'[k] = row
        /\ \A j \in Loops \ {k} : loop'[j] = loop[j]
    BY <2>1 DEF TypeInv, TypeOK, Stop
  <2>3. row.enabled = FALSE
    BY <2>2 DEF LoopRow
  <2>4. CASE l = k
    BY <2>2, <2>3, <2>4 DEF StallIsCanceled, Stalled
  <2>5. ASSUME NEW q \in Runs, run[q].loop = l, l # k
        PROVE  run'[q] = run[q]
    BY <2>1, <2>5 DEF Stop, StopRows, QueueCanceled, Queued
  <2>6. CASE l # k
    BY <2>2, <2>5, <2>6, SameRowStall
  <2> QED
    BY <2>4, <2>6
<1>4. CASE TryDeleteLoop(k) \/ ForceDeleteLoop(k)
  <2>1. DropLoopRows({k})
    BY <1>4 DEF TryDeleteLoop, ForceDeleteLoop
  <2> QED
    BY <2>1, DropStall
<1>5. CASE EnqueueRun(k)
  <2>1. Enqueue(k, "owner") /\ loop' = loop
    BY <1>5 DEF EnqueueRun
  <2> QED
    BY <2>1, EnqueueStall, SameRowStall
<1>6. CASE AdvanceSchedule(k)
  <2>1. \A j \in Loops \ {k} : loop'[j] = loop[j]
    BY <1>6 DEF AdvanceSchedule, TypeInv, TypeOK
  <2>2. \A q \in Runs : run[q].phase \in Open =>
          run'[q].loop = run[q].loop /\ run'[q].phase \in Open
    BY <1>6, EnqueueStall DEF AdvanceSchedule
  <2>3. CASE l # k
    BY <2>1, <2>2, <2>3, SameRowStall
  <2>4. \E q \in Runs : run'[q].loop = k /\ run'[q].phase \in Open
    BY <1>6, EnqueueStall DEF AdvanceSchedule, SkipsOccurrence, HasPhase
  <2>5. CASE l = k
    BY <2>4, <2>5 DEF StallIsCanceled, Stalled, HasPhase
  <2> QED
    BY <2>3, <2>5
<1>7. CASE CadenceFallsDue(k)
  <2>1. /\ \A j \in Loops \ {k} : loop'[j] = loop[j]
        /\ loop'[k].cadence = "due" /\ run' = run
    BY <1>7 DEF CadenceFallsDue, TypeInv, TypeOK, LoopRow
  <2>2. CASE l = k
    BY <2>1, <2>2 DEF StallIsCanceled, Stalled
  <2>3. CASE l # k
    BY <2>1, <2>3, SameRowStall
  <2> QED
    BY <2>2, <2>3
<1> QED
  BY <1>1, <1>2, <1>3, <1>4, <1>5, <1>6, <1>7 DEF LoopStep

LEMMA RunStepStall ==
  ASSUME TypeInv, NEW r \in Runs, RunStep(r), NEW l \in Loops
  PROVE  StallIsCanceled(l)
<1>1. CASE RequestRunCancel(r)
  <2>1. CASE run[r].phase = "pending"
    BY <1>1, <2>1, CancelStall DEF RequestRunCancel
  <2>2. CASE run[r].phase = "running"
    <3>1. /\ loop' = loop
          /\ \A q \in Runs : run'[q].loop = run[q].loop /\ run'[q].phase = run[q].phase
      BY <1>1, <2>2 DEF RequestRunCancel, TypeInv, TypeOK, RunRow
    <3> QED
      BY <3>1, QuietStall
  <2> QED
    BY <1>1, <2>1, <2>2 DEF RequestRunCancel
<1>2. CASE ExpirePendingRun(r)
  BY <1>2, CancelStall DEF ExpirePendingRun
<1>3. CASE ReclaimRun(r)
  <2>1. run[r].loop \in Loops
    BY <1>3 DEF ReclaimRun, TypeInv, RunsHaveLoops
  <2> QED
    BY <1>3, <2>1, SettleStall DEF ReclaimRun, Terminal
<1>4. CASE RetireElapsed(r) \/ LeaseElapses(r)
  BY <1>4, QuietStall DEF RetireElapsed, LeaseElapses
<1>5. ASSUME NEW reported, ClaimReadyRun(r, reported)
      PROVE  StallIsCanceled(l)
  <2> DEFINE k == run[r].loop
  <2>1. /\ \A q \in Runs \ {r} : run'[q] = run[q]
        /\ run'[r].phase = "running" /\ run'[r].loop = k
        /\ \A j \in Loops \ {k} : loop'[j] = loop[j]
    BY <1>5 DEF ClaimReadyRun, TypeInv, TypeOK, RunRow
  <2>2. CASE l = k
    BY <2>1, <2>2 DEF StallIsCanceled, Stalled, HasPhase, Open
  <2>3. CASE l # k
    BY <2>1, <2>3, SameRowStall DEF Open
  <2> QED
    BY <2>2, <2>3
<1> QED
  BY <1>1, <1>2, <1>3, <1>4, <1>5 DEF RunStep

LEMMA ReportStepStall ==
  ASSUME TypeInv, NEW r \in Runs, NEW rid \in ReportIds, ReportStep(r, rid), NEW l \in Loops
  PROVE  StallIsCanceled(l)
<1>1. CASE UNCHANGED <<loop, run>>
  BY <1>1, QuietStall
<1>2. ASSUME NEW ph \in Terminal, NEW block, NEW streak, run[r].phase # "unborn",
             SettleRun(r, ph, block, streak)
      PROVE  StallIsCanceled(l)
  BY <1>2, SettleStall DEF TypeInv, RunsHaveLoops
<1>3. ASSUME NEW outcome \in Outcomes
      PROVE  PhaseOf(outcome) \in Terminal
  BY <1>3 DEF Outcomes, PhaseOf, Terminal
<1>4. ASSUME NEW outcome \in Outcomes, FinalizeRunningRun(r, rid, outcome)
      PROVE  StallIsCanceled(l)
  BY <1>2, <1>3, <1>4 DEF FinalizeRunningRun
<1>5. ASSUME NEW outcome \in Outcomes, ReconcileReclaimedRun(r, rid, outcome)
      PROVE  StallIsCanceled(l)
  <2>1. CASE lease[r].state = "reconciliation-only"
    <3>1. /\ run' = [run EXCEPT ![r].phase = PhaseOf(outcome)] /\ loop' = loop
          /\ run[r].phase = "error"
      BY <1>5, <2>1 DEF ReconcileReclaimedRun
    <3>2. \A q \in Runs : q # r => run'[q] = run[q]
      BY <3>1 DEF TypeInv, TypeOK
    <3> QED
      BY <3>1, <3>2, QuietStall DEF Open
  <2>2. CASE lease[r].state # "reconciliation-only"
    BY <1>2, <1>3, <1>5, <2>2 DEF ReconcileReclaimedRun
  <2> QED
    BY <2>1, <2>2
<1>6. CASE RejectTerminalReport(r, rid)
  BY <1>1, <1>2, <1>6 DEF RejectTerminalReport, Terminal
<1>7. CASE \/ AcknowledgeRetiredReport(r, rid) \/ AcknowledgeRetiredTerminalIncident(r, rid)
           \/ IgnoreCanceledReport(r, rid)
  BY <1>1, <1>7 DEF AcknowledgeRetiredReport, AcknowledgeRetiredTerminalIncident,
     IgnoreCanceledReport
<1> QED
  BY <1>4, <1>5, <1>6, <1>7 DEF ReportStep

LEMMA StepStall ==
  ASSUME TypeInv, [Next]_vars, NEW l \in Loops
  PROVE  StallIsCanceled(l)
<1>1. CASE UNCHANGED <<loop, run>>
  BY <1>1, QuietStall
<1>2. CASE ForceDeleteMachine
  BY <1>2, DropStall DEF ForceDeleteMachine
<1> QED
  BY <1>1, <1>2, LoopStepStall, RunStepStall, ReportStepStall
     DEF Next, vars, MachineStep, SetMachineOnline, ReleaseAbsentReconciliations

\* A continuous loop that is on keeps itself going: whatever transactions commit, in
\* whatever order, only a run that ends as canceled leaves it with nothing to do and no
\* occurrence to come.
THEOREM LoopsKeepGoing == Spec => StallsOnlyByCancel
<1>1. TypeInv /\ [Next]_vars => TypeInv'
  BY StepType
<1>2. ASSUME TypeInv, [Next]_vars
      PROVE  [\A l \in Loops : ~Stalled(l) /\ Stalled(l)' =>
                \E r \in Runs : /\ run[r].loop = l /\ run[r].phase \in Open
                                /\ run'[r].phase = "canceled"]_vars
  BY <1>2, StepStall DEF StallIsCanceled
<1> QED
  BY <1>1, <1>2, InitType, PTL DEF Spec, StallsOnlyByCancel

\* A set holds as many elements as one asks of it, up to its size.
LEMMA SubsetOfSize ==
  ASSUME NEW F, IsFiniteSet(F), NEW k \in Nat, k <= Cardinality(F)
  PROVE  \E S \in SUBSET F : Cardinality(S) = k
<1>1. Cardinality(F) \in Nat /\ ExistsBijection(1..Cardinality(F), F)
  BY FS_CardinalityType
<1>2. PICK f \in Bijection(1..Cardinality(F), F) : TRUE
  BY <1>1 DEF ExistsBijection
<1> DEFINE S == {f[i] : i \in 1..k}
           g == [i \in 1..k |-> f[i]]
<1>3. 1..k \subseteq 1..Cardinality(F)
  BY <1>1
<1>4. /\ f \in [1..Cardinality(F) -> F]
      /\ \A i, j \in 1..Cardinality(F) : f[i] = f[j] => i = j
  BY <1>2 DEF Bijection, Injection, IsInjective
<1>5. S \in SUBSET F
  BY <1>3, <1>4
<1>6. /\ g \in [1..k -> S]
      /\ \A i, j \in 1..k : g[i] = g[j] => i = j
      /\ \A x \in S : \E i \in 1..k : g[i] = x
  BY <1>3, <1>4
<1>7. g \in Bijection(1..k, S)
  BY <1>6 DEF Bijection, Injection, Surjection, IsInjective
<1>8. Cardinality(S) = k
  BY <1>7, FS_CountingElements DEF ExistsBijection
<1> QED
  BY <1>5, <1>8

\* A result that switches its loop off is a success that says so, or completes a streak of
\* failures: what the transaction counts is there when it has committed.
LEMMA PauseIsEarned ==
  ASSUME TypeInv, NEW r \in Runs, NEW l \in Loops, run[r].loop = l, run[r].phase # "pending",
         NEW ph \in Terminal, NEW block, SettleRun(r, ph, block, AutopauseStreak),
         loop[l].enabled, ~loop'[l].enabled
  PROVE  run'[r].phase = "done" \/ \E S \in SUBSET Runs : ErrorStreak(l, S)'
<1> DEFINE at(q) == IF q = r THEN ph ELSE run[q].phase
           F == {q \in Runs : /\ run[q].loop = l /\ at(q) = "error"
                              /\ \A d \in Runs : run[d].loop = l /\ at(d) = "done"
                                                   => run[d].index < run[q].index}
<1>1. Pauses(r, ph, block, AutopauseStreak) /\ run'[r].phase = ph
  BY Settled
<1>2. CASE ph = "done"
  BY <1>1, <1>2
<1>3. CASE ph # "done"
  <2>1. ph = "error" /\ FailureStreak(r, ph) >= AutopauseStreak
    BY <1>1, <1>3 DEF Pauses
  <2>2. FailureStreak(r, ph) = Cardinality(F)
    <3>1. F = {q \in {e \in Runs : run[e].loop = run[r].loop /\ at(e) = "error"} :
                 \A d \in {e \in Runs : run[e].loop = run[r].loop /\ at(e) = "done"} :
                   run[d].index < run[q].index}
      OBVIOUS
    <3> QED
      BY <3>1 DEF FailureStreak
  <2>3. IsFiniteSet(F)
    <3>1. IsFiniteSet(1..MaxRuns)
      BY FS_Interval, ConstantsAssumption DEF ConstantsAssumption
    <3> QED
      BY <3>1, FS_Subset DEF Runs
  <2>4. AutopauseStreak \in Nat /\ Cardinality(F) \in Nat
    BY <2>3, FS_CardinalityType, ConstantsAssumption DEF ConstantsAssumption
  <2>5. PICK S \in SUBSET F : Cardinality(S) = AutopauseStreak
    BY <2>1, <2>2, <2>3, <2>4, SubsetOfSize
  <2>6. \A q \in Runs \ {r} :
          run'[q] # run[q] => run'[q].phase = "canceled" /\ run[q].phase = "pending"
    BY Settled
  <2>7. run'[r].loop = l /\ run'[r].index = run[r].index
    BY Settled
  <2>8. ASSUME NEW q \in F
        PROVE  /\ run'[q].loop = l /\ run'[q].phase = "error"
               /\ run'[q].index = run[q].index
    BY <1>1, <2>1, <2>6, <2>7, <2>8
  <2>9. ASSUME NEW d \in Runs, run'[d].loop = l, run'[d].phase = "done"
        PROVE  run[d].loop = l /\ at(d) = "done" /\ run'[d].index = run[d].index
    BY <1>1, <2>1, <2>6, <2>9
  <2>10. \A d \in Runs, q \in F : run'[d].loop = l /\ run'[d].phase = "done"
                                    => run'[d].index < run'[q].index
    BY <2>8, <2>9
  <2>11. S \subseteq Runs
    OBVIOUS
  <2> HIDE DEF F
  <2>12. ErrorStreak(l, S)'
    BY <2>5, <2>8, <2>10 DEF ErrorStreak
  <2> QED
    BY <2>11, <2>12
<1> QED
  BY <1>2, <1>3

Earned(l, r) ==
  /\ run[r].loop = l /\ Present(l)' /\ loop[l].enabled /\ ~loop[l].enabled'
  /\ lease[r] # lease[r]'
  => /\ lease[r].state' = "consumed"
     /\ run[r].phase' = "done" \/ \E S \in SUBSET Runs : ErrorStreak(l, S)'

\* A step that leaves leases alone earns nothing, and neither does one that leaves the
\* loops switched as they are.
LEMMA NothingEarned ==
  ASSUME NEW l \in Loops, NEW r \in Runs,
         lease'[r] = lease[r] \/ loop'[l].enabled = loop[l].enabled \/ loop'[l].state # "present"
  PROVE  Earned(l, r)
BY DEF Earned, Present

\* The result that a report carries.
LEMMA SettleEarned ==
  ASSUME TypeInv, NEW q \in Runs, run[q].loop \in Loops, run[q].phase # "pending",
         NEW ph \in Terminal, NEW block, SettleRun(q, ph, block, AutopauseStreak), Consume(q),
         NEW l \in Loops, NEW r \in Runs
  PROVE  Earned(l, r)
<1>1. /\ lease'[q].state = "consumed"
      /\ r # q => lease'[r] = lease[r]
  BY DEF Consume, TypeInv, TypeOK
<1>2. CASE r = q
  <2>1. CASE run[q].loop = l /\ loop[l].enabled /\ ~loop'[l].enabled
    <3>1. run'[q].phase = "done" \/ \E S \in SUBSET Runs : ErrorStreak(l, S)'
      BY <2>1, PauseIsEarned
    <3> QED
      BY <1>1, <1>2, <3>1 DEF Earned
  <2> QED
    BY <1>2, <2>1 DEF Earned
<1> QED
  BY <1>1, <1>2, NothingEarned

LEMMA StepEarned ==
  ASSUME TypeInv, [Next]_vars, NEW l \in Loops, NEW r \in Runs
  PROVE  Earned(l, r)
<1>1. CASE lease' = lease \/ loop' = loop
  BY <1>1, NothingEarned
<1>2. ASSUME NEW S, l \in S, DropLoopRows(S) PROVE Earned(l, r)
  <2>1. loop'[l].state = "deleted"
    BY <1>2 DEF DropLoopRows, TypeInv, TypeOK, LoopRow
  <2> QED
    BY <2>1, NothingEarned
<1>3. ASSUME NEW S, l \notin S, DropLoopRows(S) PROVE Earned(l, r)
  <2>1. loop'[l] = loop[l]
    BY <1>3 DEF DropLoopRows
  <2> QED
    BY <2>1, NothingEarned
<1>4. ASSUME NEW k \in Loops, LoopStep(k) PROVE Earned(l, r)
  <2>1. CASE lease' = lease
    BY <1>1, <2>1
  <2>2. CASE TryDeleteLoop(k) \/ ForceDeleteLoop(k)
    BY <1>2, <1>3, <2>2 DEF TryDeleteLoop, ForceDeleteLoop
  <2>3. ASSUME NEW on, NEW m, NEW o, NEW retimed, PatchLoop(k, on, m, o, retimed)
        PROVE  lease' = lease
    BY <2>3 DEF PatchLoop
  <2>4. UpdateLoop(k) \/ PauseLoop(k) \/ StartLoop(k) => lease' = lease
    BY <2>3 DEF UpdateLoop, PauseLoop, StartLoop
  <2>5. StopLoop(k) \/ RequestDeleteLoop(k) => lease' = lease
    BY DEF StopLoop, RequestDeleteLoop, Stop
  <2>6. \A e, m, o : CreateLoop(k, e, m, o) => lease' = lease
    BY DEF CreateLoop
  <2>7. EnqueueRun(k) \/ AdvanceSchedule(k) \/ CadenceFallsDue(k) => lease' = lease
    BY DEF EnqueueRun, AdvanceSchedule, CadenceFallsDue
  <2> QED
    BY <1>4, <2>1, <2>2, <2>4, <2>5, <2>6, <2>7 DEF LoopStep
<1>5. ASSUME NEW q \in Runs, RunStep(q) PROVE Earned(l, r)
  <2>1. CASE RequestRunCancel(q) \/ ExpirePendingRun(q) \/ RetireElapsed(q) \/ LeaseElapses(q)
    BY <1>1, <2>1 DEF RequestRunCancel, ExpirePendingRun, RetireElapsed, LeaseElapses
  <2>2. CASE ReclaimRun(q)
    <3>1. run[q].loop \in Loops /\ SettleRun(q, "error", FALSE, 0)
      BY <2>2 DEF ReclaimRun, TypeInv, RunsHaveLoops
    <3>2. ~Pauses(q, "error", FALSE, 0) /\ "error" \in Terminal
      BY DEF Pauses, Terminal
    <3>3. /\ \A k \in Loops \ {run[q].loop} : loop'[k] = loop[k]
          /\ loop'[run[q].loop].enabled = loop[run[q].loop].enabled
      BY <3>1, <3>2, Settled
    <3>4. loop'[l].enabled = loop[l].enabled
      BY <3>3
    <3> QED
      BY <3>4, NothingEarned
  <2>3. ASSUME NEW reported, ClaimReadyRun(q, reported) PROVE Earned(l, r)
    <3>1. loop'[l].enabled = loop[l].enabled
      BY <2>3 DEF ClaimReadyRun, TypeInv, TypeOK, LoopRow
    <3> QED
      BY <3>1, NothingEarned
  <2> QED
    BY <1>5, <2>1, <2>2, <2>3 DEF RunStep
<1>6. ASSUME NEW q \in Runs, NEW rid \in ReportIds, ReportStep(q, rid) PROVE Earned(l, r)
  <2>1. ASSUME NEW outcome \in Outcomes PROVE PhaseOf(outcome) \in Terminal
    BY <2>1 DEF Outcomes, PhaseOf, Terminal
  <2>2. ASSUME run[q].phase \in {"running", "error"} PROVE run[q].loop \in Loops
    BY <2>2 DEF TypeInv, RunsHaveLoops
  <2>3. ASSUME NEW outcome \in Outcomes, FinalizeRunningRun(q, rid, outcome)
        PROVE  Earned(l, r)
    BY <2>1, <2>2, <2>3, SettleEarned DEF FinalizeRunningRun
  <2>4. ASSUME NEW outcome \in Outcomes, ReconcileReclaimedRun(q, rid, outcome)
        PROVE  Earned(l, r)
    <3>1. CASE lease[q].state = "reconciliation-only"
      BY <1>1, <2>4, <3>1 DEF ReconcileReclaimedRun
    <3>2. CASE lease[q].state # "reconciliation-only"
      BY <2>1, <2>2, <2>4, <3>2, SettleEarned DEF ReconcileReclaimedRun
    <3> QED
      BY <3>1, <3>2
  <2>5. CASE RejectTerminalReport(q, rid)
    <3>1. CASE run[q].phase = "running"
      <4>1. SettleRun(q, "error", FALSE, AutopauseStreak) /\ Consume(q)
        BY <2>5, <3>1 DEF RejectTerminalReport, Terminal
      <4> QED
        BY <2>2, <3>1, <4>1, SettleEarned DEF Terminal
    <3>2. CASE run[q].phase # "running"
      BY <1>1, <2>5, <3>2 DEF RejectTerminalReport
    <3> QED
      BY <3>1, <3>2
  <2>6. CASE \/ AcknowledgeRetiredReport(q, rid) \/ AcknowledgeRetiredTerminalIncident(q, rid)
             \/ IgnoreCanceledReport(q, rid)
    BY <1>1, <2>6 DEF AcknowledgeRetiredReport, AcknowledgeRetiredTerminalIncident,
       IgnoreCanceledReport
  <2> QED
    BY <1>6, <2>3, <2>4, <2>5, <2>6 DEF ReportStep
<1>7. CASE ForceDeleteMachine
  BY <1>2, <1>3, <1>7 DEF ForceDeleteMachine
<1> QED
  BY <1>1, <1>4, <1>5, <1>6, <1>7
     DEF Next, vars, MachineStep, SetMachineOnline, ReleaseAbsentReconciliations

\* The breaker acts on results that stand: a report switches its loop off only with an
\* accepted success that asks for it or with the last of AutopauseStreak errors that no
\* later success follows, whatever order the loop's runs were numbered and settled in, and
\* a timeout of the sweep never does.
THEOREM BreakersAreEarned == Spec => AutopauseIsEarned
<1>1. TypeInv /\ [Next]_vars => TypeInv'
  BY StepType
<1>2. ASSUME TypeInv, [Next]_vars
      PROVE  [\A l \in Loops, r \in Runs :
                /\ run[r].loop = l /\ Present(l)' /\ loop[l].enabled /\ ~loop[l].enabled'
                /\ lease[r] # lease[r]'
                => /\ lease[r].state' = "consumed"
                   /\ run[r].phase' = "done" \/ \E S \in SUBSET Runs : ErrorStreak(l, S)']_vars
  BY <1>2, StepEarned DEF Earned
<1> QED
  BY <1>1, <1>2, InitType, PTL DEF Spec, AutopauseIsEarned
=============================================================================
