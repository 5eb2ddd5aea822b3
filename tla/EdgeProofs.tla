----------------------------- MODULE EdgeProofs -----------------------------
(***************************************************************************)
(* Theorems about the parts at the edges of the system: how a process ends *)
(* (RunProcess), what it is charged (Telemetry), how a loop is configured  *)
(* (LoopConfig), and what a poll and a report say on the wire (PollWire,   *)
(* ReportWire), for any bodies, numbers, texts and requests at once.       *)
(***************************************************************************)
EXTENDS ReportWire, Telemetry, RunProcess, WellFoundedInduction, TLAPS

-----------------------------------------------------------------------------
(* The process: the report names what ended it.                            *)

\* The daemon's flags say what came first; a settled process does not move, unless an error
\* event has settled it.
ProcessInv ==
  /\ leader \in {"starting", "runs", "killed"} \cup Exits
  /\ abort \in {"none", "cancel", "shutdown"}
  /\ aborted = (abort # "none")
  /\ timedOut \in BOOLEAN
  /\ cause = IF timedOut THEN "timeout" ELSE abort
  /\ leader = "starting" => cause = "none" /\ ~timedOut /\ result = "none"
  /\ Settled => result = "broken" \/ (Exited /\ result = ResultOf)

\* The flags of runProcess tell the first cause in every reachable state.
LEMMA ProcessInvariant == ProcessSpec => []ProcessInv
<1>1. ProcessInit => ProcessInv
  BY DEF ProcessInit, ProcessInv, Settled
<1>2. ProcessInv /\ [ProcessNext]_pvars => ProcessInv'
  <2>1. ASSUME ProcessInv, UNCHANGED pvars PROVE ProcessInv'
    BY <2>1 DEF ProcessInv, pvars, Settled, Exited, ResultOf
  <2>2. ASSUME ProcessInv, SpawnAgent \/ SpawnFails PROVE ProcessInv'
    BY <2>2 DEF ProcessInv, SpawnAgent, SpawnFails, Settled, Exited, Exits, ResultOf
  <2>3. ASSUME ProcessInv, AgentForks \/ HelpersEnd PROVE ProcessInv'
    BY <2>3 DEF ProcessInv, AgentForks, HelpersEnd, Settled, Exited, ResultOf
  <2>4. ASSUME ProcessInv, AgentExits \/ AgentObeys PROVE ProcessInv'
    BY <2>4 DEF ProcessInv, AgentExits, AgentObeys, Settled, Exited, Exits, ResultOf
  <2>5. ASSUME ProcessInv, NEW reason \in {"cancel", "shutdown"}, AbortRun(reason)
        PROVE ProcessInv'
    BY <2>5 DEF ProcessInv, AbortRun, Because, InFlight, Settled, Exited, ResultOf
  <2>6. ASSUME ProcessInv, Timeout PROVE ProcessInv'
    BY <2>6 DEF ProcessInv, Timeout, TimeIsUp, Because, InFlight, Settled, Exited, ResultOf
  <2>7. ASSUME ProcessInv, KillGroup PROVE ProcessInv'
    BY <2>7 DEF ProcessInv, KillGroup, InFlight, Settled, Exited, Exits, ResultOf
  <2>8. ASSUME ProcessInv, Settle PROVE ProcessInv'
    BY <2>8 DEF ProcessInv, Settle, SettleOnClose, SettleAfterExit, InFlight, Settled, Exited,
                Exits, ResultOf
  <2>9. ASSUME ProcessInv, ErrorEvent PROVE ProcessInv'
    BY <2>9 DEF ProcessInv, ErrorEvent, InFlight, Settled, Exited, ResultOf
  <2> QED BY <2>1, <2>2, <2>3, <2>4, <2>5, <2>6, <2>7, <2>8, <2>9 DEF ProcessNext
<1> QED BY <1>1, <1>2, PTL DEF ProcessSpec

\* Of cancel, shutdown and timeout the report names the first, whatever the agent did before
\* the process settled, and whatever it does after an error event: a cancel is reported as
\* one, and only what timed out first as a timeout, unless the run failed by that event.
THEOREM TheFirstCauseIsReported == ProcessSpec => []FirstCauseWins
<1>1. ProcessInv => FirstCauseWins
  BY DEF ProcessInv, FirstCauseWins, Settled, Exited, Exits, ResultOf
<1> QED BY <1>1, ProcessInvariant, PTL

-----------------------------------------------------------------------------
(* Usage: a run is charged with its own tokens.                            *)

Split == [input : Nat, cached : Nat, output : Nat]
AtMost(a, b) == a.input <= b.input /\ a.cached <= b.cached /\ a.output <= b.output

LEMMA PlusIs == ASSUME NEW a \in Split, NEW b \in Split
                PROVE  Plus(a, b) = [input |-> a.input + b.input, cached |-> a.cached + b.cached,
                                     output |-> a.output + b.output]
  BY DEF Split, Plus

LEMMA NormalizeIs == ASSUME NEW a \in Counts
                     PROVE  /\ Normalize(a) = [input |-> a.input - a.cached, cached |-> a.cached,
                                               output |-> a.output]
                            /\ Normalize(a) \in Split
  BY DEF Counts, Split, Normalize, Least, Clamped

LEMMA CountsAdd == ASSUME NEW a \in Counts, NEW b \in Counts
                   PROVE  Plus(a, b) \in Counts
<1>1. a \in Split /\ b \in Split
  BY DEF Counts, Split
<1> QED BY <1>1, PlusIs DEF Counts, Split

\* Cached input is part of the input in each request, and so in their sum.
LEMMA NormalizeAdds == ASSUME NEW a \in Counts, NEW b \in Counts
                       PROVE  Normalize(Plus(a, b)) = Plus(Normalize(a), Normalize(b))
<1>1. a \in Split /\ b \in Split
  BY DEF Counts, Split
<1>2. Plus(a, b) \in Counts
  BY CountsAdd
<1>3. Plus(a, b) = [input |-> a.input + b.input, cached |-> a.cached + b.cached,
                    output |-> a.output + b.output]
  BY <1>1, PlusIs
<1>4. Normalize(Plus(a, b)) = [input |-> (a.input + b.input) - (a.cached + b.cached),
                               cached |-> a.cached + b.cached, output |-> a.output + b.output]
  BY <1>2, <1>3, NormalizeIs
<1>5. Plus(Normalize(a), Normalize(b)) =
        [input |-> (a.input - a.cached) + (b.input - b.cached),
         cached |-> a.cached + b.cached, output |-> a.output + b.output]
  BY NormalizeIs, PlusIs
<1>6. (a.input + b.input) - (a.cached + b.cached) = (a.input - a.cached) + (b.input - b.cached)
  BY DEF Counts
<1> QED BY <1>4, <1>5, <1>6

LEMMA PlusBounds == ASSUME NEW a \in Split, NEW b \in Split
                    PROVE  AtMost(a, Plus(a, b)) /\ AtMost(b, Plus(a, b)) /\ Plus(a, b) \in Split
  BY PlusIs DEF Split, AtMost

LEMMA AtMostAdds == ASSUME NEW a \in Split, NEW b \in Split, NEW c \in Split, AtMost(a, b)
                    PROVE  AtMost(Plus(a, c), Plus(b, c))
  BY PlusIs DEF Split, AtMost

LEMMA AtMostTransits == ASSUME NEW a \in Split, NEW b \in Split, NEW c \in Split,
                               AtMost(a, b), AtMost(b, c)
                        PROVE  AtMost(a, c)
  BY DEF Split, AtMost

LEMMA PlusCommutes == ASSUME NEW a \in Split, NEW b \in Split
                      PROVE  Plus(a, b) = Plus(b, a)
<1>1. /\ a.input + b.input = b.input + a.input
      /\ a.cached + b.cached = b.cached + a.cached
      /\ a.output + b.output = b.output + a.output
  BY DEF Split
<1> QED BY <1>1, PlusIs

LEMMA PlusAssociates == ASSUME NEW a \in Split, NEW b \in Split, NEW c \in Split
                        PROVE  Plus(Plus(a, b), c) = Plus(a, Plus(b, c))
<1>1. Plus(a, b) \in Split /\ Plus(b, c) \in Split
  BY PlusBounds
<1>2. Plus(Plus(a, b), c) = [input |-> (a.input + b.input) + c.input,
                             cached |-> (a.cached + b.cached) + c.cached,
                             output |-> (a.output + b.output) + c.output]
  BY <1>1, PlusIs
<1>3. Plus(a, Plus(b, c)) = [input |-> a.input + (b.input + c.input),
                             cached |-> a.cached + (b.cached + c.cached),
                             output |-> a.output + (b.output + c.output)]
  BY <1>1, PlusIs
<1>4. /\ (a.input + b.input) + c.input = a.input + (b.input + c.input)
      /\ (a.cached + b.cached) + c.cached = a.cached + (b.cached + c.cached)
      /\ (a.output + b.output) + c.output = a.output + (b.output + c.output)
  BY DEF Split
<1> QED BY <1>2, <1>3, <1>4

\* What was added is taken off again.
LEMMA SubtractUndoes == ASSUME NEW a \in Split, NEW b \in Split
                        PROVE  SubtractRaw(Plus(a, b), b) = a
<1>1. SubtractRaw(Plus(a, b), b) = [input |-> a.input, cached |-> a.cached, output |-> a.output]
  BY PlusIs DEF Split, SubtractRaw, Clamped
<1> QED BY <1>1 DEF Split

LEMMA ZeroIsNeutral == ASSUME NEW a \in Split
                       PROVE  Plus(Zero, a) = a /\ Plus(a, Zero) = a /\ Zero \in Counts
<1>1. Zero \in Split /\ Zero \in Counts
  BY DEF Zero, Split, Counts
<1>2. Plus(Zero, a) = [input |-> a.input, cached |-> a.cached, output |-> a.output]
  BY <1>1, PlusIs DEF Zero, Split
<1>3. Plus(Zero, a) = a
  BY <1>2 DEF Split
<1> QED BY <1>1, <1>3, PlusCommutes

\* What a usage says of a process that has spent so much.
Charges(usage, total, all) ==
  usage # NoUsage => /\ usage \in Split /\ AtMost(usage, Normalize(total))
                     /\ all => usage = Normalize(total)

\* The baseline is the past and what was spent before the first total.
Based(baseline, total, all) ==
  baseline # NoUsage =>
    \E before \in Counts, since \in Counts :
      /\ baseline = Plus(past, before) /\ total = Plus(before, since)
      /\ all => before = Zero

Streams == {"open", "turned", "closed"}
Collectors == [usage : Split \cup {NoUsage}, baseline : Split \cup {NoUsage},
               terminalSeen : BOOLEAN, completed : BOOLEAN, failed : BOOLEAN,
               diagnostic : BOOLEAN, stop : {"none", "toolUse", "stop", "error"},
               isError : BOOLEAN]

TelemetryTypeOK ==
  /\ agent \in {"claude-code", "codex", "pi"}
  /\ past \in Counts /\ spent \in Counts /\ spends \in Nat
  /\ exact \in BOOLEAN /\ collector \in Collectors /\ stream \in Streams

\* Before the first request nothing is spent; pi adds from nothing; once Codex has told a
\* total for the turn, no snapshot counts.
Beginnings ==
  /\ spends = 0 => spent = Zero
  /\ spends = 0 /\ stream = "open" => collector.usage = NoUsage /\ collector.baseline = NoUsage
  /\ agent = "pi" /\ exact /\ collector.usage = NoUsage => spent = Zero
  /\ collector.terminalSeen => stream # "open"

UsageInv ==
  /\ TelemetryTypeOK /\ Beginnings
  /\ Charges(collector.usage, spent, exact)
  /\ Based(collector.baseline, spent, exact /\ stream = "open")

LEMMA CountsSplit == ASSUME NEW a \in Counts
                     PROVE  a \in Split /\ Normalize(a) \in Split /\ a # NoUsage
                            /\ Normalize(a) # NoUsage
<1>1. a \in Split /\ Normalize(a) \in Split
  BY NormalizeIs DEF Counts, Split
<1>2. \A b \in Split : b # NoUsage
  BY DEF Split, NoUsage
<1> QED BY <1>1, <1>2

\* What a process was charged with is not too much when it has spent more.
LEMMA ChargesLag ==
  ASSUME NEW u, NEW total \in Counts, NEW cost \in Counts, NEW all, Charges(u, total, all)
  PROVE  Charges(u, Plus(total, cost), FALSE)
<1> SUFFICES ASSUME u # NoUsage
             PROVE  u \in Split /\ AtMost(u, Normalize(Plus(total, cost)))
  BY DEF Charges
<1>1. u \in Split /\ AtMost(u, Normalize(total))
  BY DEF Charges
<1>2. Normalize(total) \in Split /\ Normalize(cost) \in Split
  BY CountsSplit
<1>3. Normalize(Plus(total, cost)) = Plus(Normalize(total), Normalize(cost))
  BY NormalizeAdds
<1>4. AtMost(Normalize(total), Plus(Normalize(total), Normalize(cost)))
      /\ Plus(Normalize(total), Normalize(cost)) \in Split
  BY <1>2, PlusBounds
<1> QED BY <1>1, <1>2, <1>3, <1>4, AtMostTransits

\* What was spent since any moment is a charge; from the start it is the whole.
LEMMA ChargesSince ==
  ASSUME NEW before \in Counts, NEW since \in Counts
  PROVE  Charges(Normalize(since), Plus(before, since), before = Zero)
<1>1. Normalize(before) \in Split /\ Normalize(since) \in Split
  BY CountsSplit
<1>2. Normalize(Plus(before, since)) = Plus(Normalize(before), Normalize(since))
  BY NormalizeAdds
<1>3. AtMost(Normalize(since), Normalize(Plus(before, since)))
  BY <1>1, <1>2, PlusBounds
<1>4. before = Zero => Plus(before, since) = since
  BY ZeroIsNeutral, CountsSplit
<1> QED BY <1>1, <1>3, <1>4 DEF Charges

LEMMA ChargesAll == ASSUME NEW total \in Counts, NEW all
                    PROVE  Charges(Normalize(total), total, all)
<1>1. Zero \in Counts /\ Plus(Zero, total) = total
  BY ZeroIsNeutral, CountsSplit
<1>2. Charges(Normalize(total), total, TRUE)
  BY <1>1, ChargesSince
<1> QED BY <1>2 DEF Charges

\* A request that is added to what was charged is charged as well.
LEMMA ChargesAdd ==
  ASSUME NEW u, NEW total \in Counts, NEW cost \in Counts, NEW all,
         Charges(u, total, all), all /\ u = NoUsage => total = Zero
  PROVE  Charges(AddUsage(u, Normalize(cost)), Plus(total, cost), all)
<1>1. Normalize(total) \in Split /\ Normalize(cost) \in Split /\ Plus(total, cost) \in Counts
  BY CountsSplit, CountsAdd
<1>2. CASE u = NoUsage
  <2>1. AddUsage(u, Normalize(cost)) = Normalize(cost)
    BY <1>2 DEF AddUsage
  <2>2. Charges(Normalize(cost), Plus(total, cost), total = Zero)
    BY ChargesSince
  <2> QED BY <1>2, <2>1, <2>2 DEF Charges
<1>3. CASE u # NoUsage
  <2>1. u \in Split /\ AtMost(u, Normalize(total)) /\ (all => u = Normalize(total))
    BY <1>3 DEF Charges
  <2>2. AddUsage(u, Normalize(cost)) = Plus(u, Normalize(cost))
    BY <1>3 DEF AddUsage
  <2>3. Normalize(Plus(total, cost)) = Plus(Normalize(total), Normalize(cost))
    BY NormalizeAdds
  <2>4. Plus(u, Normalize(cost)) \in Split
        /\ AtMost(Plus(u, Normalize(cost)), Plus(Normalize(total), Normalize(cost)))
    BY <1>1, <2>1, PlusBounds, AtMostAdds
  <2> QED BY <2>1, <2>2, <2>3, <2>4 DEF Charges
<1> QED BY <1>2, <1>3

\* The baseline stands while the process spends; it is the past only if it was so before.
LEMMA BasedLags ==
  ASSUME NEW b, NEW total \in Counts, NEW cost \in Counts, NEW all, Based(b, total, all),
         past \in Counts
  PROVE  Based(b, Plus(total, cost), all)
<1> SUFFICES ASSUME b # NoUsage
             PROVE  \E before \in Counts, since \in Counts :
                      /\ b = Plus(past, before) /\ Plus(total, cost) = Plus(before, since)
                      /\ all => before = Zero
  BY DEF Based
<1>1. PICK before \in Counts, since \in Counts :
        b = Plus(past, before) /\ total = Plus(before, since) /\ (all => before = Zero)
  BY DEF Based
<1>2. Plus(total, cost) = Plus(before, Plus(since, cost))
  BY <1>1, PlusAssociates, CountsSplit
<1>3. Plus(since, cost) \in Counts
  BY CountsAdd
<1> QED BY <1>1, <1>2, <1>3

\* A total without its baseline is what was spent since.
LEMMA TotalSince ==
  ASSUME past \in Counts, NEW before \in Counts, NEW since \in Counts
  PROVE  SubtractRaw(Plus(past, Plus(before, since)), Plus(past, before)) = since
<1>1. past \in Split /\ before \in Split /\ since \in Split
  BY CountsSplit
<1>2. Plus(past, before) \in Split
  BY <1>1, PlusBounds
<1>3. Plus(past, Plus(before, since)) = Plus(since, Plus(past, before))
  BY <1>1, <1>2, PlusAssociates, PlusCommutes
<1> QED BY <1>1, <1>2, <1>3, SubtractUndoes

\* Whichever baseline a total finds or makes, the rest is a charge.
LEMMA SnapshotTotal ==
  ASSUME UsageInv, stream = "open", NEW cost \in Counts, NEW last \in {cost, NoUsage},
         past = Zero \/ last = cost
  PROVE  LET total == Plus(past, Plus(spent, cost))
             b == Baseline(total, last)
             tells == spends = 0 \/ (exact /\ collector.baseline # NoUsage)
         IN  /\ b \in Split
             /\ Based(b, Plus(spent, cost), tells)
             /\ Charges(Normalize(SubtractRaw(total, b)), Plus(spent, cost), tells)
<1> DEFINE total == Plus(past, Plus(spent, cost))
           b == Baseline(total, last)
           tells == spends = 0 \/ (exact /\ collector.baseline # NoUsage)
<1>1. past \in Counts /\ spent \in Counts /\ cost # NoUsage
  BY CountsSplit DEF UsageInv, TelemetryTypeOK
<1>2. SUFFICES \E before \in Counts, since \in Counts :
                 /\ b = Plus(past, before) /\ Plus(spent, cost) = Plus(before, since)
                 /\ tells => before = Zero
  <2>1. PICK before \in Counts, since \in Counts :
                 /\ b = Plus(past, before) /\ Plus(spent, cost) = Plus(before, since)
                 /\ tells => before = Zero
    BY <1>2
  <2>2. SubtractRaw(total, b) = since
    BY <1>1, <2>1, TotalSince
  <2>3. Charges(Normalize(since), Plus(spent, cost), before = Zero)
    BY <2>1, ChargesSince
  <2>4. b \in Split
    BY <1>1, <2>1, CountsAdd, CountsSplit
  <2>5. Based(b, Plus(spent, cost), tells)
    BY <2>1 DEF Based
  <2>6. Charges(Normalize(since), Plus(spent, cost), tells)
    BY <2>1, <2>3 DEF Charges
  <2> QED BY <2>2, <2>4, <2>5, <2>6
<1>3. CASE collector.baseline # NoUsage
  <2>1. b = collector.baseline
    BY <1>3 DEF Baseline
  <2>2. Based(collector.baseline, spent, exact)
    BY DEF UsageInv, Based
  <2>3. Based(collector.baseline, Plus(spent, cost), exact)
    BY <1>1, <2>2, BasedLags
  <2>4. spends # 0
    BY <1>3 DEF UsageInv, Beginnings
  <2> QED BY <1>3, <2>1, <2>3, <2>4 DEF Based
<1>4. CASE collector.baseline = NoUsage /\ last # NoUsage
  <2>1. b = SubtractRaw(total, cost)
    BY <1>4 DEF Baseline
  <2>2. total = Plus(Plus(past, spent), cost)
    BY <1>1, PlusAssociates, CountsSplit
  <2>3. b = Plus(past, spent)
    BY <1>1, <2>1, <2>2, SubtractUndoes, CountsAdd, CountsSplit
  <2>4. tells => spent = Zero
    BY <1>4 DEF UsageInv, Beginnings
  <2> QED BY <1>1, <2>3, <2>4
<1>5. CASE collector.baseline = NoUsage /\ last = NoUsage
  <2>1. past = Zero /\ b = Zero
    BY <1>1, <1>5 DEF Baseline
  <2>2. Plus(spent, cost) \in Counts /\ Zero \in Counts
    BY <1>1, CountsAdd, ZeroIsNeutral, CountsSplit
  <2>3. b = Plus(past, Zero) /\ Plus(spent, cost) = Plus(Zero, Plus(spent, cost))
    BY <2>1, <2>2, ZeroIsNeutral, CountsSplit
  <2> QED BY <2>2, <2>3
<1> QED BY <1>3, <1>4, <1>5

LEMMA CodexCharges == ASSUME UsageInv, Codex PROVE UsageInv'
<1>0. /\ TelemetryTypeOK /\ agent = "codex" /\ Costs \subseteq Counts
      /\ Charges(collector.usage, spent, exact)
      /\ Based(collector.baseline, spent, exact /\ stream = "open")
      /\ past \in Counts /\ spent \in Counts
  BY CountsAssumption DEF Codex, UsageInv, TelemetryTypeOK
<1>1. ASSUME NEW cost \in Costs, NEW whole \in BOOLEAN, NEW parts \in BOOLEAN,
             Spends(cost), whole \/ parts, past = Zero \/ parts,
             collector' = CodexSnapshot(IF whole THEN Plus(past, Plus(spent, cost)) ELSE NoUsage,
                                        IF parts THEN cost ELSE NoUsage),
             exact' = (spends = 0 \/ (exact /\ whole /\ collector.baseline # NoUsage))
      PROVE  UsageInv'
  <2> DEFINE total == Plus(past, Plus(spent, cost))
             last == IF parts THEN cost ELSE NoUsage
             b == Baseline(total, last)
  <2>1. /\ cost \in Counts /\ Plus(spent, cost) \in Counts /\ total \in Counts
        /\ total # NoUsage /\ cost # NoUsage
    BY <1>0, CountsAdd, CountsSplit
  <2>2. /\ stream = "open" /\ stream' = "open" /\ spent' = Plus(spent, cost) /\ past' = past
        /\ agent' = agent /\ spends' = spends + 1
    BY <1>1 DEF Spends
  <2>3. ~collector.terminalSeen
    BY <2>2 DEF UsageInv, Beginnings
  <2>4. CASE whole
    <3>1. collector' = [collector EXCEPT !.baseline = b, !.usage = Normalize(SubtractRaw(total, b))]
      BY <1>1, <2>1, <2>3, <2>4 DEF CodexSnapshot
    <3>2. last \in {cost, NoUsage} /\ (past = Zero \/ last = cost)
      BY <1>1
    <3>3. /\ b \in Split
          /\ Based(b, Plus(spent, cost), exact')
          /\ Charges(Normalize(SubtractRaw(total, b)), Plus(spent, cost), exact')
      BY <1>1, <2>1, <2>2, <2>4, <3>2, SnapshotTotal
    <3>4. Normalize(SubtractRaw(total, b)) \in Split \cup {NoUsage}
      BY <3>3 DEF Charges
    <3>5. collector' \in Collectors /\ collector'.baseline = b
          /\ collector'.usage = Normalize(SubtractRaw(total, b))
          /\ collector'.terminalSeen = collector.terminalSeen
      BY <1>0, <3>1, <3>3, <3>4 DEF Collectors, TelemetryTypeOK
    <3>6. TelemetryTypeOK'
      BY <1>0, <1>1, <2>1, <2>2, <3>5 DEF TelemetryTypeOK
    <3>7. Beginnings'
      BY <1>0, <2>2, <2>3, <3>5 DEF Beginnings, TelemetryTypeOK
    <3>8. Charges(collector.usage, spent, exact)'
      BY <2>2, <3>3, <3>5 DEF Charges
    <3>9. Based(collector.baseline, spent, exact /\ stream = "open")'
      BY <2>2, <3>3, <3>5 DEF Based
    <3> QED BY <3>6, <3>7, <3>8, <3>9 DEF UsageInv
  <2>5. CASE ~whole
    <3>1. collector' = [collector EXCEPT !.usage = Normalize(cost)]
      BY <1>1, <2>1, <2>3, <2>5 DEF CodexSnapshot
    <3>2. collector' \in Collectors /\ collector'.baseline = collector.baseline
          /\ collector'.usage = Normalize(cost)
          /\ collector'.terminalSeen = collector.terminalSeen
      BY <1>0, <2>1, <3>1, CountsSplit DEF Collectors, TelemetryTypeOK
    <3>3. exact' => spent = Zero /\ collector.baseline = NoUsage
      BY <1>1, <2>2, <2>5 DEF UsageInv, Beginnings
    <3>4. TelemetryTypeOK'
      BY <1>0, <1>1, <2>1, <2>2, <3>2 DEF TelemetryTypeOK
    <3>5. Beginnings'
      BY <1>0, <2>2, <2>3, <3>2 DEF Beginnings, TelemetryTypeOK
    <3>6. Charges(collector.usage, spent, exact)'
      <4>1. Charges(Normalize(cost), Plus(spent, cost), spent = Zero)
        BY <1>0, <2>1, ChargesSince
      <4> QED BY <2>2, <3>2, <3>3, <4>1 DEF Charges
    <3>7. Based(collector.baseline, spent, exact /\ stream = "open")'
      <4>1. Based(collector.baseline, Plus(spent, cost), exact)
        BY <1>0, <2>1, <2>2, BasedLags DEF Based
      <4> QED BY <2>2, <3>2, <3>3, <4>1 DEF Based
    <3> QED BY <3>4, <3>5, <3>6, <3>7 DEF UsageInv
  <2> QED BY <2>4, <2>5
<1>2. ASSUME NEW told \in BOOLEAN, Says, stream = "open", stream' = "turned",
             collector' = CodexTurnCompleted(IF told THEN spent ELSE NoUsage),
             exact' = (exact \/ told)
      PROVE  UsageInv'
  <2>1. spent # NoUsage /\ Normalize(spent) \in Split
    BY <1>0, CountsSplit
  <2>2. /\ spent' = spent /\ past' = past /\ agent' = agent /\ spends' = spends
    BY <1>2 DEF Says
  <2>3. collector' \in Collectors /\ collector'.baseline = collector.baseline
        /\ collector'.usage = IF told THEN Normalize(spent) ELSE collector.usage
    BY <1>0, <1>2, <2>1 DEF Collectors, TelemetryTypeOK, CodexTurnCompleted
  <2>4. TelemetryTypeOK' /\ Beginnings'
    BY <1>0, <1>2, <2>2, <2>3 DEF TelemetryTypeOK, Streams, UsageInv, Beginnings
  <2>5. Charges(collector.usage, spent, exact)'
    <3>1. Charges(Normalize(spent), spent, exact')
      BY <1>0, ChargesAll
    <3> QED BY <1>0, <1>2, <2>2, <2>3, <3>1 DEF Charges
  <2>6. Based(collector.baseline, spent, exact /\ stream = "open")'
    BY <1>0, <1>2, <2>2, <2>3 DEF Based
  <2> QED BY <2>4, <2>5, <2>6 DEF UsageInv
<1>3. ASSUME Says, UNCHANGED exact, stream' \in Streams, stream' = "open" => stream = "open",
             \/ collector' = [collector EXCEPT !.failed = TRUE]
             \/ collector' = [collector EXCEPT !.diagnostic = TRUE]
      PROVE  UsageInv'
  <2>1. /\ spent' = spent /\ past' = past /\ agent' = agent /\ spends' = spends
    BY <1>3 DEF Says
  <2>2. collector' \in Collectors /\ collector'.baseline = collector.baseline
        /\ collector'.usage = collector.usage /\ collector'.terminalSeen = collector.terminalSeen
    BY <1>0, <1>3 DEF Collectors, TelemetryTypeOK
  <2> QED BY <1>0, <1>3, <2>1, <2>2 DEF UsageInv, TelemetryTypeOK, Beginnings, Charges, Based
<1> QED BY <1>0, <1>1, <1>2, <1>3 DEF Codex, TelemetryTypeOK, Streams

LEMMA ClaudeCharges == ASSUME UsageInv, Claude PROVE UsageInv'
<1>0. /\ TelemetryTypeOK /\ agent = "claude-code" /\ Costs \subseteq Counts
      /\ Charges(collector.usage, spent, exact)
      /\ Based(collector.baseline, spent, exact /\ stream = "open")
      /\ past \in Counts /\ spent \in Counts
      /\ Normalize(spent) \in Split /\ Normalize(spent) # NoUsage
  BY CountsAssumption, CountsSplit DEF Claude, UsageInv, TelemetryTypeOK
<1>1. ASSUME NEW cost \in Costs, Spends(cost), exact' = FALSE,
             collector' = [collector EXCEPT !.usage = Normalize(cost)]
      PROVE  UsageInv'
  <2>1. cost \in Counts /\ Plus(spent, cost) \in Counts /\ Normalize(cost) \in Split
    BY <1>0, CountsAdd, CountsSplit
  <2>2. /\ stream = "open" /\ stream' = "open" /\ spent' = Plus(spent, cost) /\ past' = past
        /\ agent' = agent /\ spends' = spends + 1
    BY <1>1 DEF Spends
  <2>3. collector' \in Collectors /\ collector'.baseline = collector.baseline
        /\ collector'.usage = Normalize(cost) /\ collector'.terminalSeen = collector.terminalSeen
    BY <1>0, <1>1, <2>1 DEF Collectors, TelemetryTypeOK
  <2>4. TelemetryTypeOK' /\ Beginnings'
    <3>1. TelemetryTypeOK'
      <4>1. exact' \in BOOLEAN
        BY <1>1
      <4>2. spends' \in Nat
        BY <1>0, <2>2 DEF TelemetryTypeOK
      <4> QED BY <1>0, <2>1, <2>2, <2>3, <4>1, <4>2 DEF TelemetryTypeOK
    <3>2. Beginnings'
      BY <1>0, <2>2, <2>3 DEF TelemetryTypeOK, UsageInv, Beginnings
    <3> QED BY <3>1, <3>2
  <2>5. Charges(Normalize(cost), Plus(spent, cost), spent = Zero)
    BY <1>0, <2>1, ChargesSince
  <2>6. Based(collector.baseline, Plus(spent, cost), exact /\ stream = "open")
    BY <1>0, <2>1, BasedLags
  <2>7. Charges(collector.usage, spent, exact)'
    BY <1>1, <2>2, <2>3, <2>5 DEF Charges
  <2>8. Based(collector.baseline, spent, exact /\ stream = "open")'
    BY <1>1, <2>2, <2>3, <2>6 DEF Based
  <2> QED BY <2>4, <2>7, <2>8 DEF UsageInv
<1>2. ASSUME Says, stream = "open", stream' = "turned",
             NEW e \in BOOLEAN, NEW told \in BOOLEAN, exact' = told,
             collector' = ClaudeResult(IF told THEN Normalize(spent) ELSE NoUsage, e)
      PROVE  UsageInv'
  <2>1. /\ spent' = spent /\ past' = past /\ agent' = agent /\ spends' = spends
    BY <1>2 DEF Says
  <2>2. collector' \in Collectors /\ collector'.baseline = collector.baseline
        /\ collector'.usage = IF told THEN Normalize(spent) ELSE collector.usage
    BY <1>0, <1>2 DEF Collectors, TelemetryTypeOK, ClaudeResult
  <2>3. TelemetryTypeOK' /\ Beginnings'
    BY <1>0, <1>2, <2>1, <2>2 DEF TelemetryTypeOK, Streams, UsageInv, Beginnings
  <2>4. Charges(Normalize(spent), spent, told)
    BY <1>0, ChargesAll
  <2> QED BY <1>0, <1>2, <2>1, <2>2, <2>3, <2>4 DEF UsageInv, Charges, Based
<1>3. ASSUME Says, UNCHANGED <<stream, exact>>,
             collector' = [collector EXCEPT !.isError = TRUE]
      PROVE  UsageInv'
  <2>1. /\ spent' = spent /\ past' = past /\ agent' = agent /\ spends' = spends
    BY <1>3 DEF Says
  <2>2. collector' \in Collectors /\ collector'.baseline = collector.baseline
        /\ collector'.usage = collector.usage /\ collector'.terminalSeen = collector.terminalSeen
    BY <1>0, <1>3 DEF Collectors, TelemetryTypeOK
  <2> QED BY <1>0, <1>3, <2>1, <2>2 DEF UsageInv, TelemetryTypeOK, Beginnings, Charges, Based
<1> QED BY <1>1, <1>2, <1>3 DEF Claude

LEMMA PiCharges == ASSUME UsageInv, Pi PROVE UsageInv'
<1>0. /\ TelemetryTypeOK /\ agent = "pi" /\ Costs \subseteq Counts
      /\ Charges(collector.usage, spent, exact)
      /\ Based(collector.baseline, spent, exact /\ stream = "open")
      /\ past \in Counts /\ spent \in Counts
      /\ exact /\ collector.usage = NoUsage => spent = Zero
  BY CountsAssumption DEF Pi, UsageInv, TelemetryTypeOK, Beginnings
<1>1. PICK cost \in Costs :
        /\ Spends(cost)
        /\ \/ \E said \in {"toolUse", "stop", "error"} :
                collector' = [collector EXCEPT !.usage = AddUsage(@, Normalize(cost)),
                                               !.stop = said]
           \/ collector' = [collector EXCEPT !.usage = AddUsage(@, Normalize(cost))]
           \/ UNCHANGED collector
        /\ exact' = (exact /\ collector'.usage # collector.usage)
  BY DEF Pi
<1>2. cost \in Counts /\ Plus(spent, cost) \in Counts
  BY <1>0, CountsAdd
<1>3. /\ stream = "open" /\ stream' = "open" /\ spent' = Plus(spent, cost) /\ past' = past
      /\ agent' = agent /\ spends' = spends + 1
  BY <1>1 DEF Spends
<1> DEFINE added == AddUsage(collector.usage, Normalize(cost))
<1>4. Charges(added, Plus(spent, cost), exact)
  BY <1>0, <1>2, ChargesAdd
<1>5. added \in Split \cup {NoUsage}
  BY <1>4 DEF Charges
<1>6. /\ collector' \in Collectors /\ collector'.baseline = collector.baseline
      /\ collector'.terminalSeen = collector.terminalSeen
      /\ collector'.usage \in {added, collector.usage}
  BY <1>0, <1>1, <1>5 DEF Collectors, TelemetryTypeOK
<1>7. added # NoUsage
  <2>1. Normalize(cost) \in Split /\ Normalize(cost) # NoUsage
    BY <1>2, CountsSplit
  <2>2. collector.usage # NoUsage => collector.usage \in Split
    BY <1>0 DEF Charges
  <2>3. collector.usage # NoUsage => Plus(collector.usage, Normalize(cost)) \in Split
    BY <2>1, <2>2, PlusBounds
  <2>4. \A u \in Split : u # NoUsage
    BY DEF Split, NoUsage
  <2> QED BY <2>1, <2>3, <2>4 DEF AddUsage
<1>8. exact' => collector'.usage = added /\ exact
  BY <1>1, <1>6
<1>9. TelemetryTypeOK' /\ Beginnings'
  <2>1. TelemetryTypeOK'
    BY <1>0, <1>1, <1>2, <1>3, <1>6 DEF TelemetryTypeOK
  <2>2. Beginnings'
    BY <1>0, <1>3, <1>6, <1>7, <1>8 DEF TelemetryTypeOK, UsageInv, Beginnings
  <2> QED BY <2>1, <2>2
<1>10. Charges(collector.usage, spent, exact)'
  <2>1. Charges(collector.usage, Plus(spent, cost), FALSE)
    BY <1>0, <1>2, ChargesLag
  <2> QED BY <1>3, <1>4, <1>6, <1>8, <2>1 DEF Charges
<1>11. Based(collector.baseline, spent, exact /\ stream = "open")'
  <2>1. Based(collector.baseline, Plus(spent, cost), exact /\ stream = "open")
    BY <1>0, <1>2, BasedLags
  <2> QED BY <1>3, <1>6, <1>8, <2>1 DEF Based
<1> QED BY <1>9, <1>10, <1>11 DEF UsageInv

LEMMA CloseCharges == ASSUME UsageInv, Close PROVE UsageInv'
<1>1. TelemetryTypeOK
  BY DEF UsageInv
<1>2. /\ collector' \in Collectors /\ collector'.baseline = collector.baseline
      /\ collector'.usage = collector.usage /\ collector'.terminalSeen = collector.terminalSeen
  <2> DEFINE failed == collector.failed \/ (~collector.completed /\ collector.diagnostic)
             stopped == collector.stop \in {"error", "aborted"}
  <2>1. failed \in BOOLEAN /\ stopped \in BOOLEAN
    BY <1>1 DEF TelemetryTypeOK, Collectors
  <2>2. \/ collector' = collector
        \/ collector' = [collector EXCEPT !.isError = failed]
        \/ collector' = [collector EXCEPT !.isError = stopped]
    BY <1>1, Zenon DEF Close, Result, TelemetryTypeOK
  <2> HIDE DEF failed, stopped
  <2> QED BY <1>1, <2>1, <2>2 DEF TelemetryTypeOK, Collectors
<1>3. stream' = "closed" /\ UNCHANGED <<agent, past, spent, spends, exact>>
  BY DEF Close
<1> QED BY <1>1, <1>2, <1>3 DEF UsageInv, TelemetryTypeOK, Streams, Beginnings, Charges, Based

\* What the parser has charged can be accounted for at every event of the stream.
LEMMA UsageInvariant == TelemetrySpec => []UsageInv
<1>1. TelemetryInit => UsageInv
  <2> SUFFICES ASSUME TelemetryInit PROVE UsageInv
    OBVIOUS
  <2>1. Zero \in Counts /\ past \in Counts
    BY CountsAssumption DEF TelemetryInit, Zero, Counts
  <2>2. NewCollector \in Collectors
    BY DEF NewCollector, Collectors
  <2> QED BY <2>1, <2>2 DEF TelemetryInit, UsageInv, TelemetryTypeOK, Beginnings, Charges, Based,
                            NewCollector, Streams
<1>2. UsageInv /\ [TelemetryNext]_tvars => UsageInv'
  <2>1. ASSUME UsageInv, UNCHANGED tvars PROVE UsageInv'
    BY <2>1 DEF tvars, UsageInv, TelemetryTypeOK, Beginnings, Charges, Based
  <2> QED BY <2>1, ClaudeCharges, PiCharges, CodexCharges, CloseCharges DEF TelemetryNext
<1> QED BY <1>1, <1>2, PTL DEF TelemetrySpec

\* A run is charged with no more than its own process spent, in any category, wherever
\* its stream is cut, whatever its session spent before and however many requests it made;
\* with all of it, if the events that arrived tell.
THEOREM RunsPayForThemselves == TelemetrySpec => []UsageIsOwn
<1>1. UsageInv => UsageIsOwn
  <2> SUFFICES ASSUME UsageInv, collector.usage # NoUsage
               PROVE  /\ \A k \in DOMAIN spent : collector.usage[k] <= Normalize(spent)[k]
                      /\ exact => collector.usage = Normalize(spent)
    BY DEF UsageIsOwn
  <2>1. \A k \in DOMAIN spent : k \in {"input", "cached", "output"}
    BY DEF UsageInv, TelemetryTypeOK, Counts
  <2>2. AtMost(collector.usage, Normalize(spent))
        /\ (exact => collector.usage = Normalize(spent))
    BY DEF UsageInv, Charges
  <2> QED BY <2>1, <2>2 DEF AtMost
<1> QED BY <1>1, UsageInvariant, PTL

-----------------------------------------------------------------------------
(* Configuration: what is edited can be created, what was created is once. *)

ScheduleColumns == {"scheduleMode", "cron", "timezone", "cronOverlap", "continuousDelayMinutes"}
Plains == {"name", "tags", "workdir", "agent", "model", "reasoningEffort", "prompt", "enabled"}

ColumnsFit(r) ==
  /\ Plains \cup ScheduleColumns \subseteq DOMAIN r
  /\ \A f \in Plains : r[f] # "blank"
  /\ \A f \in {"name", "prompt", "model", "tags", "reasoningEffort"} : r[f] # "bad"
  /\ \A f \in {"name", "prompt"} : r[f] # "null"
  /\ r.workdir \in {"posix", "windows"} /\ r.agent \in Agents /\ r.enabled \in {"yes", "no"}
  /\ r.scheduleMode \in {"cron", "continuous"} /\ ScheduleAccepted(ScheduleFromLoop(r))

PairFits(r) == r.agent = "pi" => r.reasoningEffort \in PiThinking \cup {"null"}

LEMMA FieldNames == Fields = Plains \cup {"schedule"} /\ Plains \cap ScheduleColumns = {}
  BY DEF Fields, Plains, ScheduleColumns

LEMMA NormalizedIs == ASSUME NEW v
                      PROVE  /\ Normalized(v) # "blank"
                             /\ v # "blank" => Normalized(v) = v
                             /\ v # "bad" => Normalized(v) # "bad"
  BY DEF Normalized

\* A schedule is written whole: its columns are those of one body.
LEMMA ScheduleIsWhole ==
  ASSUME NEW s, NEW retained, ScheduleAccepted(s)
  PROVE  LET cols == RowSchedule(s, retained)
         IN  /\ DOMAIN cols = ScheduleColumns
             /\ cols.scheduleMode \in {"cron", "continuous"}
             /\ ScheduleAccepted(ScheduleFromLoop(cols))
<1>1. CASE s.mode = "cron"
  BY <1>1 DEF ScheduleAccepted, RowSchedule, ScheduleColumns, ScheduleFromLoop
<1>2. CASE s.mode = "continuous"
  BY <1>2 DEF ScheduleAccepted, RowSchedule, ScheduleColumns, ScheduleFromLoop
<1> QED BY <1>1, <1>2 DEF ScheduleAccepted

LEMMA ScheduleOfColumns ==
  ASSUME NEW r, NEW s, \A c \in ScheduleColumns : r[c] = s[c]
  PROVE  ScheduleFromLoop(r) = ScheduleFromLoop(s) /\ r.scheduleMode = s.scheduleMode
  BY DEF ScheduleColumns, ScheduleFromLoop

\* Where each column of a written row comes from.
ColumnsOf(r, raw, retained, base) ==
  /\ \A f \in Plains :
       /\ f \in DOMAIN raw => f \in DOMAIN r /\ r[f] = Normalized(raw[f])
       /\ f \notin DOMAIN raw /\ f \in DOMAIN base => f \in DOMAIN r /\ r[f] = base[f]
  /\ \A c \in ScheduleColumns :
       /\ Has(raw, "schedule") =>
            c \in DOMAIN r /\ r[c] = RowSchedule(raw.schedule, retained)[c]
       /\ ~Has(raw, "schedule") /\ c \in DOMAIN base => c \in DOMAIN r /\ r[c] = base[c]

LEMMA WrittenColumns ==
  ASSUME NEW raw, NEW retained, NEW base, FieldsFit(raw)
  PROVE  ColumnsOf(Over(Update(raw, retained), base), raw, retained, base)
<1> DEFINE plain == [f \in DOMAIN raw \ {"schedule"} |-> Normalized(raw[f])]
           u == Update(raw, retained)
           r == Over(u, base)
<1>1. DOMAIN raw \subseteq Plains \cup {"schedule"}
  BY FieldNames DEF FieldsFit
<1>2. DOMAIN r = DOMAIN u \cup DOMAIN base /\ \A x \in DOMAIN r :
        r[x] = IF x \in DOMAIN u THEN u[x] ELSE base[x]
  BY DEF Over
<1>3. CASE Has(raw, "schedule")
  <2> DEFINE cols == RowSchedule(raw.schedule, retained)
  <2>1. DOMAIN cols = ScheduleColumns
    BY <1>3, ScheduleIsWhole DEF FieldsFit
  <2>2. u = Over(plain, cols)
    BY <1>3 DEF Update
  <2> HIDE DEF cols
  <2>3. DOMAIN u = (DOMAIN raw \ {"schedule"}) \cup ScheduleColumns
        /\ (\A f \in DOMAIN raw \ {"schedule"} : u[f] = Normalized(raw[f]))
        /\ (\A c \in ScheduleColumns \ DOMAIN raw : u[c] = cols[c])
    BY <2>1, <2>2 DEF Over
  <2>4. ScheduleColumns \cap DOMAIN raw = {} /\ Plains \cap ScheduleColumns = {}
        /\ "schedule" \notin Plains
    BY <1>1, FieldNames DEF ScheduleColumns, Plains
  <2> HIDE DEF u, r
  <2> QED BY <1>2, <1>3, <2>3, <2>4 DEF Has, cols, r, u, ColumnsOf
<1>4. CASE ~Has(raw, "schedule")
  <2>1. u = plain
    BY <1>4 DEF Update
  <2>2. DOMAIN u = DOMAIN raw /\ \A f \in DOMAIN raw : u[f] = Normalized(raw[f])
    BY <1>4, <2>1 DEF Has
  <2>3. ScheduleColumns \cap DOMAIN raw = {}
    BY <1>1, FieldNames DEF ScheduleColumns, Plains
  <2> HIDE DEF u, r
  <2> QED BY <1>2, <1>4, <2>2, <2>3 DEF Has, r, u, ColumnsOf
<1> QED BY <1>3, <1>4

\* A row over which a body is written that fits, fits: column by column.
LEMMA WriteKeepsColumns ==
  ASSUME NEW raw, NEW retained, NEW base, FieldsFit(raw),
         Has(raw, "reasoningEffort") => raw.reasoningEffort # "bad",
         \A f \in Plains \ DOMAIN raw :
           /\ f \in DOMAIN base /\ base[f] # "blank"
           /\ f \in {"name", "prompt", "model", "tags", "reasoningEffort"} => base[f] # "bad"
           /\ f \in {"name", "prompt"} => base[f] # "null"
           /\ f = "workdir" => base[f] \in {"posix", "windows"}
           /\ f = "agent" => base[f] \in Agents
           /\ f = "enabled" => base[f] \in {"yes", "no"},
         \/ Has(raw, "schedule")
         \/ /\ ScheduleColumns \subseteq DOMAIN base
            /\ base.scheduleMode \in {"cron", "continuous"}
            /\ ScheduleAccepted(ScheduleFromLoop(base))
  PROVE  ColumnsFit(Over(Update(raw, retained), base))
<1> DEFINE r == Over(Update(raw, retained), base)
<1>0. ColumnsOf(r, raw, retained, base)
  BY WrittenColumns
<1>1. \A f \in Plains : f \in DOMAIN r /\ r[f] = IF Has(raw, f) THEN Normalized(raw[f]) ELSE base[f]
  <2> HIDE DEF r
  <2> QED BY <1>0 DEF Has, ColumnsOf
<1>2. \A c \in ScheduleColumns :
        c \in DOMAIN r /\ r[c] = IF Has(raw, "schedule") THEN RowSchedule(raw.schedule, retained)[c]
                               ELSE base[c]
  <2> HIDE DEF r
  <2> QED BY <1>0 DEF ColumnsOf
<1> HIDE DEF r
<1>3. r.scheduleMode \in {"cron", "continuous"} /\ ScheduleAccepted(ScheduleFromLoop(r))
  <2>1. CASE Has(raw, "schedule")
    <3> DEFINE cols == RowSchedule(raw.schedule, retained)
    <3>1. cols.scheduleMode \in {"cron", "continuous"} /\ ScheduleAccepted(ScheduleFromLoop(cols))
      BY <2>1, ScheduleIsWhole DEF FieldsFit
    <3>2. \A c \in ScheduleColumns : r[c] = cols[c]
      BY <1>2, <2>1
    <3> HIDE DEF cols
    <3> QED BY <3>1, <3>2, ScheduleOfColumns
  <2>2. CASE ~Has(raw, "schedule")
    BY <1>2, <2>2, ScheduleOfColumns
  <2> QED BY <2>1, <2>2
<1>4. \A f \in Plains : r[f] # "blank"
  BY <1>1, NormalizedIs DEF Has
<1>5. \A f \in {"name", "prompt", "model", "tags", "reasoningEffort"} : r[f] # "bad"
  <2>1. \A f \in {"name", "prompt", "model", "tags", "reasoningEffort"} :
          f \in Plains /\ (Has(raw, f) => raw[f] # "bad")
    BY DEF Has, FieldsFit, RequiredText, TagsFit, Plains
  <2> QED BY <1>1, <2>1, NormalizedIs DEF Has
<1>6. r["workdir"] \in {"posix", "windows"}
  BY <1>1, NormalizedIs DEF Has, FieldsFit, Plains
<1>7. r["agent"] \in Agents
  BY <1>1, NormalizedIs DEF Has, FieldsFit, Plains, Agents
<1>8. r["enabled"] \in {"yes", "no"}
  BY <1>1, NormalizedIs DEF Has, FieldsFit, Plains
<1>9. \A f \in {"name", "prompt"} : r[f] # "null"
  <2>1. \A f \in {"name", "prompt"} : f \in Plains /\ (Has(raw, f) => RequiredText(raw[f]))
    BY DEF Has, FieldsFit, Plains
  <2> QED BY <1>1, <2>1, NormalizedIs DEF Has, RequiredText
<1> QED BY <1>1, <1>2, <1>3, <1>4, <1>5, <1>6, <1>7, <1>8, <1>9 DEF ColumnsFit, r

LEMMA CreatedFits == ASSUME NEW body, CreateAccepted(body)
                     PROVE  ColumnsFit(CreatedRow(body)) /\ PairFits(CreatedRow(body))
<1> DEFINE r == CreatedRow(body)
<1>1. FieldsFit(body) /\ {"name", "workdir", "prompt", "schedule", "agent"} \subseteq DOMAIN body
  BY DEF CreateAccepted
<1>2. \A f \in Plains \ DOMAIN body : f \in {"tags", "model", "reasoningEffort", "enabled"}
  BY <1>1 DEF Plains
<1>3. ColumnsFit(r)
  BY <1>1, <1>2, WriteKeepsColumns DEF CreatedRow, Defaults, CreateAccepted, EffortFits, Has
<1>4. \A f \in Plains : r[f] = IF Has(body, f) THEN Normalized(body[f]) ELSE Defaults[f]
  <2>1. ColumnsOf(r, body, SafeRetainedCron, Defaults)
    BY <1>1, WrittenColumns DEF CreatedRow
  <2>2. \A f \in Plains : f \in DOMAIN body \/ f \in DOMAIN Defaults
    BY <1>2 DEF Defaults
  <2> HIDE DEF r
  <2> QED BY <2>1, <2>2 DEF ColumnsOf, Has
<1>5. PairFits(r)
  <2>1. r["agent"] = body["agent"]
    BY <1>1, <1>4, NormalizedIs DEF Has, Plains, FieldsFit, Agents
  <2>2. r["reasoningEffort"] = IF Has(body, "reasoningEffort")
                               THEN Normalized(body["reasoningEffort"]) ELSE "null"
    BY <1>4 DEF Plains, Defaults
  <2> HIDE DEF r
  <2> QED BY <2>1, <2>2 DEF PairFits, CreateAccepted, EffortFits, Has
<1> QED BY <1>3, <1>5

\* An edit that was accepted for a row, written over a row that fits.
LEMMA EditedFits ==
  ASSUME NEW raw, NEW retained, NEW read, NEW now, EditAccepted(read, raw), ColumnsFit(now)
  PROVE  LET r == Over(Update(raw, retained), now)
         IN  /\ ColumnsFit(r)
             /\ DOMAIN raw \cap {"agent", "reasoningEffort"} = {} =>
                  r.agent = now.agent /\ r.reasoningEffort = now.reasoningEffort
             /\ DOMAIN raw \cap {"agent", "reasoningEffort"} # {}
                  /\ (Has(raw, "agent") \/ read.agent = now.agent)
                  /\ (Has(raw, "reasoningEffort") \/ read.reasoningEffort = now.reasoningEffort)
                  => PairFits(r)
<1> DEFINE r == Over(Update(raw, retained), now)
<1>1. FieldsFit(raw) /\ (Has(raw, "reasoningEffort") => raw.reasoningEffort # "bad")
  BY DEF EditAccepted, EffortFits
<1>2. ColumnsFit(r)
  BY <1>1, WriteKeepsColumns DEF ColumnsFit, Plains
<1>3. \A f \in Plains : r[f] = IF Has(raw, f) THEN Normalized(raw[f]) ELSE now[f]
  <2>1. ColumnsOf(r, raw, retained, now)
    BY <1>1, WrittenColumns
  <2> HIDE DEF r
  <2> QED BY <2>1 DEF ColumnsOf, ColumnsFit, Has
<1>4. r["agent"] = IF Has(raw, "agent") THEN raw["agent"] ELSE now["agent"]
  BY <1>1, <1>3, NormalizedIs DEF Plains, FieldsFit, Agents
<1>5. r["reasoningEffort"] = IF Has(raw, "reasoningEffort") THEN Normalized(raw["reasoningEffort"])
                             ELSE now["reasoningEffort"]
  BY <1>3 DEF Plains
<1>6. now["reasoningEffort"] # "blank"
  BY DEF ColumnsFit, Plains
<1> HIDE DEF r
<1>7. DOMAIN raw \cap {"agent", "reasoningEffort"} = {} =>
        r.agent = now.agent /\ r.reasoningEffort = now.reasoningEffort
  BY <1>4, <1>5 DEF Has
<1>8. ASSUME DOMAIN raw \cap {"agent", "reasoningEffort"} # {},
             Has(raw, "agent") \/ read.agent = now.agent,
             Has(raw, "reasoningEffort") \/ read.reasoningEffort = now.reasoningEffort
      PROVE  PairFits(r)
  <2>1. EffortFits(IF Has(raw, "reasoningEffort") THEN raw.reasoningEffort ELSE now.reasoningEffort,
                   r["agent"])
    BY <1>4, <1>8 DEF EditAccepted, Has
  <2>2. r["reasoningEffort"] = Normalized(IF Has(raw, "reasoningEffort") THEN raw.reasoningEffort
                                          ELSE now.reasoningEffort)
    BY <1>5, <1>6, NormalizedIs
  <2> QED BY <2>1, <2>2 DEF EffortFits, PairFits
<1> QED BY <1>2, <1>7, <1>8 DEF r

\* The envelope of a row that fits is a body that gives it back.
LEMMA EnvelopeGivesBack ==
  ASSUME NEW r, ColumnsFit(r)
  PROVE  LET envelope == CanonicalLoopEnvelope(r)
         IN  /\ ScheduleAccepted(envelope.schedule)
             /\ PairFits(r) => /\ CreateAccepted(envelope)
                               /\ CanonicalLoopEnvelope(CreatedRow(envelope)) = envelope
<1> DEFINE envelope == CanonicalLoopEnvelope(r)
           again == CreatedRow(envelope)
<1>1. /\ DOMAIN envelope = Fields /\ envelope["schedule"] = ScheduleFromLoop(r)
      /\ \A f \in Plains : f \in Fields /\ envelope[f] = r[f]
  BY DEF CanonicalLoopEnvelope, Fields, Plains
<1> HIDE DEF envelope
<1>2. ScheduleAccepted(envelope["schedule"])
  BY <1>1 DEF ColumnsFit
<1>3. FieldsFit(envelope)
  BY <1>1, <1>2 DEF FieldsFit, RequiredText, TagsFit, ColumnsFit, Has, Plains, Fields
<1>4. ASSUME PairFits(r)
      PROVE  CreateAccepted(envelope) /\ CanonicalLoopEnvelope(again) = envelope
  <2>1. EffortFits(envelope["reasoningEffort"], envelope["agent"])
    BY <1>1, <1>4, NormalizedIs DEF EffortFits, PairFits, ColumnsFit, Plains
  <2>2. CreateAccepted(envelope)
    BY <1>1, <1>3, <2>1 DEF CreateAccepted, Fields, Has
  <2>0. ColumnsOf(again, envelope, SafeRetainedCron, Defaults)
    BY <1>3, WrittenColumns DEF CreatedRow
  <2>3. \A f \in Plains : again[f] = envelope[f]
    <3>1. \A f \in Plains : again[f] = Normalized(envelope[f])
      <4> HIDE DEF again
      <4> QED BY <1>1, <2>0 DEF ColumnsOf
    <3>2. \A f \in Plains : envelope[f] # "blank"
      BY <1>1 DEF ColumnsFit
    <3> HIDE DEF again
    <3> QED BY <3>1, <3>2, NormalizedIs
  <2>4. ScheduleFromLoop(again) = envelope["schedule"]
    <3> DEFINE cols == RowSchedule(envelope["schedule"], SafeRetainedCron)
    <3>1. \A c \in ScheduleColumns : again[c] = cols[c]
      <4> HIDE DEF again
      <4> QED BY <1>1, <2>0 DEF ColumnsOf, Has, Fields
    <3>2. ScheduleFromLoop(again) = ScheduleFromLoop(cols)
      <4> HIDE DEF again, cols
      <4> QED BY <3>1, ScheduleOfColumns
    <3>3. ScheduleFromLoop(cols) = envelope["schedule"]
      <4> HIDE DEF again
      <4>1. CASE r.scheduleMode = "cron"
        BY <1>1, <4>1 DEF ScheduleFromLoop, RowSchedule
      <4>2. CASE r.scheduleMode # "cron"
        BY <1>1, <4>2 DEF ScheduleFromLoop, RowSchedule
      <4> QED BY <4>1, <4>2
    <3> QED BY <3>2, <3>3
  <2>5. CanonicalLoopEnvelope(again) = [f \in Fields |-> envelope[f]]
    <3> HIDE DEF again
    <3> QED BY <2>3, <2>4, FieldNames DEF CanonicalLoopEnvelope
  <2>6. envelope = [f \in Fields |-> envelope[f]]
    BY <1>1 DEF envelope, CanonicalLoopEnvelope
  <2> QED BY <2>2, <2>5, <2>6
<1> QED BY <1>2, <1>4 DEF envelope

Making == {"keyed", "insert", "record"}
RequestFits(r) ==
  /\ r.at \in Making \cup {"idle", "write"}
  /\ r.at \in Making => /\ r \in [at : Making, body : Creates, owed : BOOLEAN, id : Ids \cup {NoId}]
                        /\ CreateAccepted(r.body)
  /\ r.at = "record" => r.id \in Ids
  /\ r.at = "write" => r.id \in Ids /\ EditAccepted(r.read, r.patch)

\* A request that is owed its loop will find the key; who inserts was owed none.
NotOwed(r) == /\ r.at = "keyed" /\ r.owed => r.body \in answered
              /\ r.at \in {"insert", "record"} => ~r.owed

RequestsFit ==
  /\ request = [h \in Requests |-> request[h]]
  /\ \A h \in Requests : RequestFits(request[h]) /\ NotOwed(request[h])

RowsFit ==
  /\ row = [l \in Ids |-> row[l]] /\ raced \subseteq Ids
  /\ \A l \in Ids : Present(l) => ColumnsFit(row[l]) /\ (l \notin raced => PairFits(row[l]))

\* Of a body that was answered, the key is there, and the loop.
KeysStand ==
  /\ known \in [Creates -> Ids \cup {NoId}] /\ answered \subseteq Creates
  /\ \A body \in answered : known[body] \in Ids /\ Present(known[body])

ConfigInv == RequestsFit /\ RowsFit /\ KeysStand

LEMMA FitsIsPresent == ASSUME NEW r, ColumnsFit(r) PROVE r \notin {Unborn, Deleted}
  BY DEF ColumnsFit, Plains, Unborn, Deleted

LEMMA IdleFits == RequestFits(NoRequest) /\ NotOwed(NoRequest) /\ NotOwed(NoRequest)'
  BY DEF NoRequest, RequestFits, NotOwed, Making

\* Who is forgiven is as far as before.
LEMMA ForgivenFits ==
  ASSUME RequestsFit, NEW lost
  PROVE  /\ Forgiven(lost) = [h \in Requests |-> Forgiven(lost)[h]]
         /\ \A h \in Requests :
              /\ RequestFits(Forgiven(lost)[h])
              /\ NotOwed(Forgiven(lost)[h])
              /\ Forgiven(lost)[h].at = "keyed" /\ Forgiven(lost)[h].owed =>
                   Forgiven(lost)[h].body \in answered \ lost
              /\ Forgiven(lost)[h].at \in {"insert", "record"} => ~Forgiven(lost)[h].owed
<1>1. Forgiven(lost) = [h \in Requests |-> Forgiven(lost)[h]]
  BY DEF Forgiven
<1>2. ASSUME NEW h \in Requests
      PROVE  /\ RequestFits(Forgiven(lost)[h])
             /\ NotOwed(Forgiven(lost)[h])
             /\ Forgiven(lost)[h].at = "keyed" /\ Forgiven(lost)[h].owed =>
                  Forgiven(lost)[h].body \in answered \ lost
             /\ Forgiven(lost)[h].at \in {"insert", "record"} => ~Forgiven(lost)[h].owed
  <2> DEFINE r == request[h]
             f == Forgiven(lost)[h]
  <2>1. f = IF r.at = "keyed" /\ r.body \in lost THEN [r EXCEPT !.owed = FALSE] ELSE r
    BY DEF Forgiven
  <2>2. RequestFits(r) /\ NotOwed(r)
    BY DEF RequestsFit
  <2> HIDE DEF r, f
  <2>3. CASE r.at = "keyed" /\ r.body \in lost
    <3>1. /\ f.at = "keyed" /\ f.body = r.body /\ f.id = r.id /\ f.owed = FALSE
          /\ f \in [at : Making, body : Creates, owed : BOOLEAN, id : Ids \cup {NoId}]
      BY <2>1, <2>2, <2>3 DEF RequestFits, Making
    <3> QED BY <2>2, <2>3, <3>1 DEF RequestFits, NotOwed, Making, f
  <2>4. CASE ~(r.at = "keyed" /\ r.body \in lost)
    BY <2>1, <2>2, <2>4 DEF NotOwed, f
  <2> QED BY <2>3, <2>4
<1> QED BY <1>1, <1>2

\* A handler that moves on, while the rest of the requests stay.
LEMMA OneRequestMoves ==
  ASSUME RequestsFit, NEW h \in Requests, NEW r, request' = [request EXCEPT ![h] = r],
         RequestFits(r), r.at = "keyed" /\ r.owed => r.body \in answered',
         r.at \in {"insert", "record"} => ~r.owed, answered \subseteq answered'
  PROVE  RequestsFit'
<1>1. request' = [g \in Requests |-> request'[g]]
  BY DEF RequestsFit
<1>2. ASSUME NEW g \in Requests PROVE RequestFits(request'[g]) /\ NotOwed(request[g])'
  <2>1. CASE g = h
    <3>1. request'[g] = r
      BY <2>1 DEF RequestsFit
    <3> QED BY <3>1 DEF NotOwed
  <2>2. CASE g # h
    <3>1. request'[g] = request[g]
      BY <2>2 DEF RequestsFit
    <3> QED BY <3>1 DEF RequestsFit, NotOwed
  <2> QED BY <2>1, <2>2
<1> QED BY <1>1, <1>2 DEF RequestsFit

LEMMA IdleOwesNothing == /\ RequestFits(NoRequest) /\ NoRequest.at = "idle"
  BY DEF NoRequest, RequestFits, Making

LEMMA SameRows == ASSUME RowsFit, UNCHANGED <<row, raced>> PROVE RowsFit'
  BY DEF RowsFit, Present

LEMMA SameKeys == ASSUME KeysStand, UNCHANGED <<row, known, answered>> PROVE KeysStand'
  BY DEF KeysStand, Present

LEMMA StepSendCreate == ASSUME ConfigInv, NEW h \in Requests, SendCreate(h) PROVE ConfigInv'
<1>1. PICK body \in Creates : CreateAccepted(body) /\ request' = [request EXCEPT ![h] =
        [at |-> "keyed", body |-> body, owed |-> body \in answered, id |-> NoId]]
  BY DEF SendCreate
<1> DEFINE owed == body \in answered
           r == [at |-> "keyed", body |-> body, owed |-> owed, id |-> NoId]
<1>2. /\ r \in [at : Making, body : Creates, owed : BOOLEAN, id : Ids \cup {NoId}]
      /\ r.at = "keyed" /\ r.body = body /\ (r.owed => body \in answered)
  <2>1. owed \in BOOLEAN /\ (owed => body \in answered)
    OBVIOUS
  <2> HIDE DEF owed
  <2> QED BY <2>1 DEF Making
<1>3. RequestFits(r)
  BY <1>1, <1>2 DEF RequestFits, Making
<1>4. RequestsFit'
  <2> HIDE DEF r
  <2>1. request' = [request EXCEPT ![h] = r] /\ answered' = answered
    BY <1>1 DEF r, SendCreate
  <2> QED BY <1>2, <1>3, <2>1, OneRequestMoves DEF ConfigInv
<1> QED BY <1>4, SameRows, SameKeys DEF ConfigInv, SendCreate

LEMMA StepReadKey == ASSUME ConfigInv, NEW h \in Requests, ReadKey(h) PROVE ConfigInv'
<1> DEFINE body == request[h].body
<1>1. /\ request[h].at = "keyed" /\ RequestFits(request[h]) /\ NotOwed(request[h])
      /\ request[h] \in [at : Making, body : Creates, owed : BOOLEAN, id : Ids \cup {NoId}]
      /\ CreateAccepted(body)
  BY DEF ReadKey, ConfigInv, RequestsFit, RequestFits, Making
<1>2. UNCHANGED <<row, known, raced>>
  BY DEF ReadKey
<1>3. CASE Existing(body) = NoId
  <2> DEFINE r == [request[h] EXCEPT !.at = "insert"]
  <2>1. request' = [request EXCEPT ![h] = r] /\ answered' = answered
    BY <1>3 DEF ReadKey
  <2>2. ~request[h].owed
    <3>1. body \notin answered
      BY <1>3, ConfigAssumption DEF Existing, ConfigInv, KeysStand
    <3> QED BY <1>1, <3>1 DEF NotOwed
  <2>3. /\ r \in [at : Making, body : Creates, owed : BOOLEAN, id : Ids \cup {NoId}]
        /\ r.at = "insert" /\ r.body = body /\ ~r.owed
    BY <1>1, <2>2 DEF Making
  <2> HIDE DEF r
  <2>4. RequestFits(r)
    BY <1>1, <2>3 DEF RequestFits, Making
  <2>5. RequestsFit'
    BY <2>1, <2>3, <2>4, OneRequestMoves DEF ConfigInv
  <2> QED BY <1>2, <2>1, <2>5, SameRows, SameKeys DEF ConfigInv
<1>4. CASE Existing(body) # NoId
  <2>1. /\ request' = [request EXCEPT ![h] = NoRequest] /\ answered' = answered \cup {body}
    BY <1>4 DEF ReadKey, Ends
  <2>2. RequestsFit'
    BY <2>1, IdleOwesNothing, OneRequestMoves DEF ConfigInv
  <2>3. body \in Creates /\ known[body] \in Ids /\ Present(known[body])
    BY <1>1, <1>4 DEF Existing, ConfigInv, KeysStand
  <2>4. KeysStand'
    BY <1>2, <2>1, <2>3 DEF ConfigInv, KeysStand, Present
  <2> QED BY <1>2, <2>2, <2>4, SameRows DEF ConfigInv
<1> QED BY <1>3, <1>4

LEMMA StepInsertLoop == ASSUME ConfigInv, NEW h \in Requests, InsertLoop(h) PROVE ConfigInv'
<1>1. PICK l \in Ids : /\ row[l] = Unborn
                       /\ row' = [row EXCEPT ![l] = CreatedRow(request[h].body)]
                       /\ request' = [request EXCEPT ![h].at = "record", ![h].id = l]
  BY DEF InsertLoop
<1>2. /\ request[h].at = "insert" /\ ~request[h].owed
      /\ request[h] \in [at : Making, body : Creates, owed : BOOLEAN, id : Ids \cup {NoId}]
      /\ CreateAccepted(request[h].body)
  BY DEF InsertLoop, ConfigInv, RequestsFit, RequestFits, NotOwed, Making
<1>3. UNCHANGED <<known, answered, raced>>
  BY DEF InsertLoop
<1> DEFINE r == [request[h] EXCEPT !.at = "record", !.id = l]
<1>4. RequestsFit'
  <2>1. request' = [request EXCEPT ![h] = r]
    BY <1>1 DEF ConfigInv, RequestsFit
  <2>2. /\ r \in [at : Making, body : Creates, owed : BOOLEAN, id : Ids \cup {NoId}]
        /\ r.at = "record" /\ r.body = request[h].body /\ r.id = l /\ ~r.owed
    BY <1>2 DEF Making
  <2> HIDE DEF r
  <2>3. RequestFits(r)
    BY <1>2, <2>2 DEF RequestFits, Making
  <2> QED BY <1>3, <2>1, <2>2, <2>3, OneRequestMoves DEF ConfigInv
<1> DEFINE new == CreatedRow(request[h].body)
<1>5. ColumnsFit(new) /\ PairFits(new)
  BY <1>2, CreatedFits
<1> HIDE DEF new
<1>6. \A k \in Ids : row'[k] = IF k = l THEN new ELSE row[k]
  BY <1>1 DEF ConfigInv, RowsFit, new
<1>7. RowsFit'
  <2>1. row' = [k \in Ids |-> row'[k]]
    BY <1>1 DEF ConfigInv, RowsFit
  <2> QED BY <1>3, <1>5, <1>6, <2>1 DEF ConfigInv, RowsFit, Present
<1>8. KeysStand'
  <2>1. new \notin {Unborn, Deleted}
    BY <1>5, FitsIsPresent
  <2> QED BY <1>3, <1>6, <2>1 DEF ConfigInv, KeysStand, Present
<1> QED BY <1>4, <1>7, <1>8 DEF ConfigInv

LEMMA ForgivenMove ==
  ASSUME RequestsFit, NEW lost, answered \ lost \subseteq answered',
         request' = [g \in Requests |-> request'[g]],
         \A g \in Requests : request'[g] \in {NoRequest, Forgiven(lost)[g]}
  PROVE  RequestsFit'
<1>1. ASSUME NEW g \in Requests PROVE RequestFits(request'[g]) /\ NotOwed(request[g])'
  <2>1. CASE request'[g] = NoRequest
    BY <2>1, IdleOwesNothing DEF NotOwed
  <2>2. CASE request'[g] = Forgiven(lost)[g]
    BY <2>2, ForgivenFits DEF NotOwed
  <2> QED BY <2>1, <2>2
<1> QED BY <1>1 DEF RequestsFit

LEMMA StepRecordKey == ASSUME ConfigInv, NEW h \in Requests, RecordKey(h) PROVE ConfigInv'
<1> DEFINE body == request[h].body
           id == request[h].id
           lost == IF Present(id) THEN {} ELSE {body}
<1>1. /\ body \in Creates /\ id \in Ids
  BY DEF RecordKey, ConfigInv, RequestsFit, RequestFits, Making
<1>2. /\ known' = [known EXCEPT ![body] = id] /\ answered' = (answered \cup {body}) \ lost
      /\ request' = [Forgiven(lost) EXCEPT ![h] = NoRequest] /\ UNCHANGED <<row, raced>>
  BY DEF RecordKey
<1>3. RequestsFit'
  <2> HIDE DEF lost
  <2>1. Forgiven(lost) = [g \in Requests |-> Forgiven(lost)[g]]
    BY ForgivenFits DEF ConfigInv
  <2>2. answered \ lost \subseteq answered'
    BY <1>2
  <2>3. /\ request' = [g \in Requests |-> request'[g]]
        /\ \A g \in Requests : request'[g] \in {NoRequest, Forgiven(lost)[g]}
    BY <1>2, <2>1
  <2> QED BY <2>2, <2>3, ForgivenMove DEF ConfigInv
<1>4. KeysStand'
  <2>1. known' \in [Creates -> Ids \cup {NoId}] /\ answered' \subseteq Creates
    BY <1>1, <1>2 DEF ConfigInv, KeysStand
  <2>2. ASSUME NEW b \in answered' PROVE known'[b] \in Ids /\ Present(known[b])'
    <3>1. CASE b = body
      <4>1. known'[b] = id /\ Present(id)
        BY <1>1, <1>2, <2>2, <3>1 DEF ConfigInv, KeysStand
      <4> QED BY <1>1, <1>2, <4>1 DEF Present
    <3>2. CASE b # body
      <4>1. b \in answered
        BY <1>2, <2>2, <3>2
      <4>2. b \in Creates /\ known'[b] = known[b] /\ known[b] \in Ids /\ Present(known[b])
        BY <1>2, <3>2, <4>1 DEF ConfigInv, KeysStand
      <4> QED BY <1>2, <4>2 DEF Present
    <3> QED BY <3>1, <3>2
  <2> QED BY <2>1, <2>2 DEF KeysStand
<1> QED BY <1>2, <1>3, <1>4, SameRows DEF ConfigInv

LEMMA StepSendEdit == ASSUME ConfigInv, NEW h \in Requests, SendEdit(h) PROVE ConfigInv'
<1>1. PICK l \in Ids, p \in Patches :
        /\ EditAccepted(row[l], p)
        /\ request' = [request EXCEPT
                          ![h] = [at |-> "write", id |-> l, patch |-> p, read |-> row[l]]]
  BY DEF SendEdit
<1>2. UNCHANGED <<row, known, answered, raced>>
  BY DEF SendEdit
<1> DEFINE r == [at |-> "write", id |-> l, patch |-> p, read |-> row[l]]
<1>3. RequestFits(r) /\ r.at = "write"
  BY <1>1 DEF RequestFits, Making
<1>4. RequestsFit'
  <2>1. request' = [request EXCEPT ![h] = r]
    BY <1>1
  <2> HIDE DEF r
  <2> QED BY <1>2, <1>3, <2>1, OneRequestMoves DEF ConfigInv
<1> QED BY <1>2, <1>4, SameRows, SameKeys DEF ConfigInv

LEMMA StepWriteEdit == ASSUME ConfigInv, NEW h \in Requests, WriteEdit(h) PROVE ConfigInv'
<1> DEFINE r == request[h]
           l == r.id
           new == Over(Update(r.patch, r.read.cron), row[l])
<1>1. /\ l \in Ids /\ EditAccepted(r.read, r.patch)
      /\ request' = [request EXCEPT ![h] = NoRequest] /\ UNCHANGED <<known, answered>>
  BY DEF WriteEdit, ConfigInv, RequestsFit, RequestFits, Ends
<1>2. RequestsFit'
  BY <1>1, IdleOwesNothing, OneRequestMoves DEF ConfigInv
<1>3. CASE Present(l)
  <2>1. /\ row' = [row EXCEPT ![l] = new]
        /\ raced' = IF DOMAIN r.patch \cap {"agent", "reasoningEffort"} = {} THEN raced
                    ELSE IF PairIsStale(r, row[l]) THEN raced \cup {l} ELSE raced \ {l}
    BY <1>3 DEF WriteEdit
  <2>2. ColumnsFit(row[l]) /\ (l \notin raced => PairFits(row[l]))
    BY <1>1, <1>3 DEF ConfigInv, RowsFit
  <2>3. /\ ColumnsFit(new)
        /\ DOMAIN r.patch \cap {"agent", "reasoningEffort"} = {} =>
             new.agent = row[l].agent /\ new.reasoningEffort = row[l].reasoningEffort
        /\ DOMAIN r.patch \cap {"agent", "reasoningEffort"} # {}
             /\ (Has(r.patch, "agent") \/ r.read.agent = row[l].agent)
             /\ (Has(r.patch, "reasoningEffort") \/ r.read.reasoningEffort = row[l].reasoningEffort)
             => PairFits(new)
    BY <1>1, <2>2, EditedFits
  <2> HIDE DEF new
  <2>4. l \notin raced' => PairFits(new)
    <3>1. CASE DOMAIN r.patch \cap {"agent", "reasoningEffort"} = {}
      BY <2>1, <2>2, <2>3, <3>1 DEF PairFits
    <3>2. CASE DOMAIN r.patch \cap {"agent", "reasoningEffort"} # {}
      BY <2>1, <2>3, <3>2 DEF PairIsStale, Has
    <3> QED BY <3>1, <3>2
  <2>5. \A k \in Ids : row'[k] = IF k = l THEN new ELSE row[k]
    BY <2>1 DEF ConfigInv, RowsFit
  <2>6. row' = [k \in Ids |-> row'[k]] /\ raced' \subseteq Ids
    BY <1>1, <2>1 DEF ConfigInv, RowsFit
  <2>7. \A k \in Ids : k # l => (k \in raced' <=> k \in raced)
    BY <2>1
  <2> HIDE DEF l
  <2>8. RowsFit'
    BY <2>3, <2>4, <2>5, <2>6, <2>7 DEF ConfigInv, RowsFit, Present
  <2>9. KeysStand'
    <3>1. new \notin {Unborn, Deleted}
      BY <2>3, FitsIsPresent
    <3> QED BY <1>1, <2>5, <3>1 DEF ConfigInv, KeysStand, Present
  <2> QED BY <1>2, <2>8, <2>9 DEF ConfigInv
<1>4. CASE ~Present(l)
  BY <1>1, <1>2, <1>4, SameRows, SameKeys DEF WriteEdit, ConfigInv
<1> QED BY <1>3, <1>4

LEMMA StepForgetKey == ASSUME ConfigInv, NEW body \in Creates, ForgetKey(body) PROVE ConfigInv'
<1>1. /\ known' = [known EXCEPT ![body] = NoId] /\ answered' = answered \ {body}
      /\ request' = Forgiven({body}) /\ UNCHANGED <<row, raced>>
  BY DEF ForgetKey
<1>2. RequestsFit'
  <2>1. Forgiven({body}) = [g \in Requests |-> Forgiven({body})[g]]
    BY ForgivenFits DEF ConfigInv
  <2>2. request' = [g \in Requests |-> request'[g]]
    BY <1>1, <2>1
  <2> QED BY <1>1, <2>2, ForgivenMove DEF ConfigInv
<1>3. KeysStand'
  BY <1>1 DEF ConfigInv, KeysStand, Present
<1> QED BY <1>1, <1>2, <1>3, SameRows DEF ConfigInv

LEMMA StepDeleteLoop == ASSUME ConfigInv, NEW l \in Ids, DeleteLoop(l) PROVE ConfigInv'
<1> DEFINE lost == {body \in Creates : known[body] = l}
<1>1. /\ row' = [row EXCEPT ![l] = Deleted] /\ answered' = answered \ lost
      /\ raced' = raced \ {l} /\ request' = Forgiven(lost) /\ UNCHANGED known
  BY DEF DeleteLoop
<1>2. RequestsFit'
  <2> HIDE DEF lost
  <2>1. Forgiven(lost) = [g \in Requests |-> Forgiven(lost)[g]]
    BY ForgivenFits DEF ConfigInv
  <2>2. request' = [g \in Requests |-> request'[g]]
    BY <1>1, <2>1
  <2> QED BY <1>1, <2>2, ForgivenMove DEF ConfigInv
<1>3. \A k \in Ids : row'[k] = IF k = l THEN Deleted ELSE row[k]
  BY <1>1 DEF ConfigInv, RowsFit
<1>4. RowsFit'
  <2>1. row' = [k \in Ids |-> row'[k]] /\ raced' \subseteq Ids
    BY <1>1 DEF ConfigInv, RowsFit
  <2> QED BY <1>1, <1>3, <2>1 DEF ConfigInv, RowsFit, Present
<1>5. KeysStand'
  <2>1. ASSUME NEW b \in answered'
        PROVE  b \in answered /\ known[b] # l /\ known[b] \in Ids /\ Present(known[b])
    BY <1>1, <2>1 DEF ConfigInv, KeysStand
  <2>2. \A b \in answered' : known'[b] \in Ids /\ Present(known[b])'
    BY <1>1, <1>3, <2>1 DEF Present
  <2> QED BY <1>1, <2>2 DEF ConfigInv, KeysStand
<1> QED BY <1>2, <1>4, <1>5 DEF ConfigInv

LEMMA StepRestartServer == ASSUME ConfigInv, RestartServer PROVE ConfigInv'
<1>1. /\ known' = [body \in Creates |-> NoId] /\ answered' = {}
      /\ request' = [h \in Requests |-> NoRequest] /\ UNCHANGED <<row, raced>>
  BY DEF RestartServer
<1>2. RequestsFit'
  BY <1>1, IdleOwesNothing DEF RequestsFit, NotOwed
<1>3. KeysStand'
  BY <1>1 DEF KeysStand
<1> QED BY <1>1, <1>2, <1>3, SameRows DEF ConfigInv

LEMMA ConfigStep == ASSUME ConfigInv, [ConfigNext]_cvars PROVE ConfigInv'
<1>1. CASE UNCHANGED cvars
  BY <1>1, SameRows, SameKeys DEF cvars, ConfigInv, RequestsFit, NotOwed
<1>2. CASE ConfigNext
  BY <1>2, StepSendCreate, StepReadKey, StepInsertLoop, StepRecordKey, StepSendEdit,
     StepWriteEdit, StepForgetKey, StepDeleteLoop, StepRestartServer DEF ConfigNext
<1> QED BY <1>1, <1>2

LEMMA ConfigBegins == ConfigInit => ConfigInv
<1> SUFFICES ASSUME ConfigInit PROVE ConfigInv
  OBVIOUS
<1>1. RequestsFit
  BY IdleOwesNothing DEF ConfigInit, RequestsFit, NotOwed
<1>2. RowsFit /\ KeysStand
  BY DEF ConfigInit, RowsFit, KeysStand, Present
<1> QED BY <1>1, <1>2 DEF ConfigInv

\* Requests, rows and keys fit each other whatever is created, edited, forgotten and deleted.
LEMMA ConfigInvariant == ConfigSpec => []ConfigInv
  BY ConfigBegins, ConfigStep, PTL DEF ConfigSpec

\* However many partial edits are made, and in whatever order, a loop's envelope is a body
\* that create accepts and that gives the same loop; a pair of agent and effort that does
\* not fit takes two edits that overlap.
THEOREM EnvelopesGiveBack == ConfigSpec => []EnvelopeIsCreatable
<1>1. ConfigInv => EnvelopeIsCreatable
  BY EnvelopeGivesBack DEF ConfigInv, RowsFit, EnvelopeIsCreatable
<1> QED BY <1>1, ConfigInvariant, PTL

\* A create that is sent again after its answer makes no second loop while its key and its
\* loop are there, whatever other handlers do between its lookup and its insert.
THEOREM AnsweredCreatesStand == ConfigSpec => []RetriesCreateOnce
<1>1. ConfigInv => RetriesCreateOnce
  BY DEF ConfigInv, RequestsFit, NotOwed, RetriesCreateOnce
<1> QED BY <1>1, ConfigInvariant, PTL

-----------------------------------------------------------------------------
(* The poll: what the server lets in, the daemon takes.                    *)

\* All that the daemon looks at in a delivery, except which paths are absolute for it.
DeliveryFits(d) ==
  /\ d.runIndex >= 1 /\ Text(d.task) /\ DecodeMemory(d.memory)
  /\ Text(d.loop.name) /\ d.loop.workdir \in {"posix", "windows"}
  /\ NullableText(d.loop.model) /\ NullableText(d.loop.reasoningEffort)
  /\ d.loop.agent \in {"claude-code", "codex", "pi"}

WireInv ==
  /\ "platform" \in DOMAIN daemon /\ daemon.platform \in {"posix", "windows"}
  /\ memory \in {"short", "full"}
  /\ exchange.at \in {"none", "asked", "rejected", "answered", "refused"}
  /\ exchange.at = "answered" /\ exchange.delivery # NoDelivery =>
       DeliveryFits(exchange.delivery) /\ ~exchange.needsUpdate
  /\ AnswersAreTaken

\* A row that fits, with a memory that does, is a delivery that fits.
LEMMA BuildFits == ASSUME NEW r, ColumnsFit(r), memory \in {"short", "full"}
                   PROVE  DeliveryFits(BuildDelivery(r))
<1> DEFINE d == BuildDelivery(r)
<1>1. /\ d.runIndex = 1 /\ d.task = r["prompt"] /\ d.memory = memory
      /\ d.loop.name = r["name"] /\ d.loop.workdir = r["workdir"] /\ d.loop.model = r["model"]
      /\ d.loop.reasoningEffort = r["reasoningEffort"] /\ d.loop.agent = r["agent"]
  BY DEF BuildDelivery
<1> HIDE DEF d
<1>2. DeliveryFits(d)
  BY <1>1 DEF DeliveryFits, ColumnsFit, Plains, Agents, Text, NullableText, DecodeMemory
<1> QED BY <1>2 DEF d

\* Only a path of Windows is refused, by a daemon that runs elsewhere.
LEMMA RefusedForItsPath ==
  ASSUME WireInv, exchange.at = "answered", ~Decodes(exchange)
  PROVE  /\ exchange.delivery # NoDelivery
         /\ exchange.delivery.loop.workdir = "windows" /\ daemon.platform = "posix"
<1>1. exchange.delivery # NoDelivery
  BY DEF Decodes, DecodeDelivery
<1>2. DeliveryFits(exchange.delivery) /\ ~exchange.needsUpdate
  BY <1>1 DEF WireInv
<1>3. Text(exchange.delivery.loop.workdir)
  BY <1>2 DEF DeliveryFits, Text
<1>4. ~IsAbsolute(exchange.delivery.loop.workdir)
  BY <1>2, <1>3 DEF Decodes, DecodeDelivery, DecodeLoop, DeliveryFits
<1> QED BY <1>1, <1>2, <1>4 DEF IsAbsolute, DeliveryFits, WireInv

LEMMA WireStep == ASSUME ConfigInv, WireInv, WireNext, Configured PROVE WireInv'
<1>1. CASE SendBody \/ RejectBody \/ PollAgain
  BY <1>1 DEF WireInv, AnswersAreTaken, SendBody, RejectBody, PollAgain, Rejected
<1>2. CASE PollV4
  <2>1. UNCHANGED <<daemon, memory>>
    BY <1>2 DEF PollV4
  <2>2. CASE exchange' = Rejected
    BY <2>1, <2>2 DEF WireInv, AnswersAreTaken, Rejected
  <2>3. ASSUME NEW claimed, claimed = Claims(exchange.body),
               exchange' = Answer(IF claimed THEN BuildDelivery(row[TheLoop]) ELSE NoDelivery,
                                  exchange.body)
        PROVE  WireInv'
    <3>1. TheLoop \in Ids /\ Present(TheLoop)
      BY DEF Configured, TheLoop
    <3>2. DeliveryFits(BuildDelivery(row[TheLoop]))
      BY <3>1, BuildFits DEF ConfigInv, RowsFit, WireInv
    <3>3. claimed => ~DaemonNeedsUpdate(exchange.body.version)
      BY <2>3 DEF Claims
    <3> DEFINE d == IF claimed THEN BuildDelivery(row[TheLoop]) ELSE NoDelivery
    <3>4. d # NoDelivery => DeliveryFits(d) /\ claimed
      BY <3>2
    <3>5. exchange'.at = "answered" /\ exchange'.delivery = d
          /\ exchange'.needsUpdate = DaemonNeedsUpdate(exchange.body.version)
      BY <2>3 DEF Answer
    <3> HIDE DEF d
    <3> QED BY <2>1, <3>3, <3>4, <3>5 DEF WireInv, AnswersAreTaken
  <2> QED BY <1>2, <2>2, <2>3 DEF PollV4
<1>3. CASE TakeAnswer
  BY <1>3 DEF WireInv, AnswersAreTaken, TakeAnswer
<1>4. CASE RefuseAnswer
  <2>1. /\ exchange.delivery # NoDelivery
        /\ exchange.delivery.loop.workdir = "windows" /\ daemon.platform = "posix"
    BY <1>4, RefusedForItsPath DEF RefuseAnswer
  <2>2. /\ exchange' = [at |-> "refused", answer |-> exchange] /\ UNCHANGED <<daemon, memory>>
    BY <1>4 DEF RefuseAnswer
  <2> QED BY <2>1, <2>2 DEF WireInv, AnswersAreTaken
<1>5. CASE StopRun
  BY <1>5 DEF WireInv, AnswersAreTaken, StopRun
<1>6. CASE EditMemory
  BY <1>6 DEF WireInv, AnswersAreTaken, EditMemory, Memories, MemoryIssue
<1>7. CASE NextRun
  BY <1>7 DEF WireInv, AnswersAreTaken, NextRun
<1>8. CASE RestartDaemon
  BY <1>8 DEF WireInv, AnswersAreTaken, RestartDaemon, Daemons
<1> QED BY <1>1, <1>2, <1>3, <1>4, <1>5, <1>6, <1>7, <1>8 DEF WireNext

\* Whatever loops were created and edited into, whatever memory was let in, whoever polls:
\* an answer that claimed a run is taken, but for a Windows path given to another system.
THEOREM ClaimsAreTaken == WireSpec => []AnswersAreTaken
<1>1. ConfigInit /\ WireInit => ConfigInv /\ WireInv
  <2>1. WireInit => WireInv
    BY DEF WireInit, WireInv, AnswersAreTaken, Daemons
  <2> QED BY <2>1, ConfigBegins
<1>2. ConfigInv /\ WireInv
      /\ [\/ ConfigNext /\ UNCHANGED xvars
          \/ Configured /\ WireNext /\ UNCHANGED cvars]_<<cvars, xvars>>
      => (ConfigInv /\ WireInv)'
  <2> SUFFICES ASSUME ConfigInv, WireInv,
                      [\/ ConfigNext /\ UNCHANGED xvars
                       \/ Configured /\ WireNext /\ UNCHANGED cvars]_<<cvars, xvars>>
               PROVE  ConfigInv' /\ WireInv'
    OBVIOUS
  <2>1. ConfigInv'
    BY ConfigStep DEF cvars
  <2>2. WireInv'
    <3>1. CASE UNCHANGED xvars
      BY <3>1 DEF xvars, WireInv, AnswersAreTaken
    <3>2. CASE Configured /\ WireNext
      BY <3>2, WireStep
    <3> QED BY <3>1, <3>2
  <2> QED BY <2>1, <2>2
<1>3. WireInv => AnswersAreTaken
  BY DEF WireInv
<1> QED BY <1>1, <1>2, <1>3, PTL DEF WireSpec

-----------------------------------------------------------------------------
(* The report: what the server settles is what happened.                   *)

LEMMA LeastOf == ASSUME NEW T \in SUBSET Nat, T # {}
                 PROVE  \E x \in T : \A y \in T : x <= y
<1>1. OpToRel(<, Nat) = {ss \in Nat \X Nat : ss[1] < ss[2]}
  BY DEF OpToRel
<1>2. PICK x \in T : \A y \in T : ~(<<y, x>> \in OpToRel(<, Nat))
  BY NatLessThanWellFounded, WFMin
<1>3. ASSUME NEW y \in T PROVE x <= y
  <2>1. x \in Nat /\ y \in Nat /\ <<y, x>> \notin {ss \in Nat \X Nat : ss[1] < ss[2]}
    BY <1>1, <1>2
  <2> QED BY <2>1
<1> QED BY <1>3

LEMMA GreatestOf == ASSUME NEW n \in Nat, NEW T \in SUBSET (1..n), T # {}
                    PROVE  \E x \in T : \A y \in T : y <= x
<1> DEFINE bounds == {m \in Nat : \A y \in T : y <= m}
<1>1. n \in bounds
  OBVIOUS
<1>2. PICK x \in bounds : \A m \in bounds : x <= m
  BY <1>1, LeastOf
<1>3. SUFFICES ASSUME x \notin T PROVE FALSE
  BY <1>2
<1>4. \A y \in T : y \in Nat /\ y >= 1 /\ y < x
  BY <1>2, <1>3
<1>5. x - 1 \in bounds
  <2>1. \E y \in T : TRUE
    OBVIOUS
  <2>2. x \in Nat /\ x - 1 \in Nat
    BY <1>2, <1>4, <2>1
  <2>3. \A y \in T : y <= x - 1
    BY <1>4, <2>2
  <2> QED BY <2>2, <2>3
<1> QED BY <1>2, <1>5

LEMMA FilledIs == ASSUME NEW text, NEW n \in Nat
                  PROVE  /\ Filled(text, n) \in 0..n
                         /\ Filled(text, n) > 0 => text[Filled(text, n)] # "blank"
                         /\ \A j \in (Filled(text, n) + 1)..n : text[j] = "blank"
<1> DEFINE filled == {i \in 1..n : text[i] # "blank"}
<1>1. CASE filled = {}
  <2>1. Filled(text, n) = 0
    BY <1>1 DEF Filled
  <2> QED BY <1>1, <2>1
<1>2. CASE filled # {}
  <2>1. \E i \in filled : \A j \in filled : j <= i
    BY <1>2, GreatestOf
  <2>2. /\ Filled(text, n) \in filled
        /\ \A j \in filled : j <= Filled(text, n)
    BY <1>2, <2>1 DEF Filled
  <2> HIDE DEF filled
  <2>3. \A j \in 1..n : text[j] # "blank" => j \in filled
    BY DEF filled
  <2>4. \A j \in filled : j \in 1..n /\ text[j] # "blank"
    BY DEF filled
  <2>5. Filled(text, n) \in 1..n
    BY <2>2, <2>4
  <2>6. ASSUME NEW j \in (Filled(text, n) + 1)..n PROVE text[j] = "blank"
    <3>1. j \in 1..n /\ j > Filled(text, n)
      BY <2>5
    <3> QED BY <2>2, <2>3, <2>5, <3>1
  <2> QED BY <2>2, <2>4, <2>5, <2>6
<1> QED BY <1>1, <1>2

\* Findings and blank lines only, from i to the end of the first n.
Finding == {"finding", "none needed"}
Trailing(text, n) ==
  {i \in 1..n : text[i] \in Finding /\ \A j \in i..n : text[j] \in Finding \cup {"blank"}}
FirstOf(T) == CHOOSE x \in T : \A y \in T : x <= y
Cut(text, n) == IF Trailing(text, n) = {} THEN n ELSE FirstOf(Trailing(text, n)) - 1

\* The recursion of Above, on any function.
Peeled(text, g) ==
  [n \in 0..Len(text) |->
     LET i == Filled(text, n)
     IN  IF i > 0 /\ text[i] \in {"finding", "none needed"} THEN g[i - 1] ELSE n]

LEMMA FirstIs == ASSUME NEW T \in SUBSET Nat, T # {}
                 PROVE  FirstOf(T) \in T /\ \A y \in T : FirstOf(T) <= y
  BY LeastOf DEF FirstOf

\* One step of the recursion takes the last finding off.
LEMMA CutPeels ==
  ASSUME NEW text, NEW n \in Nat
  PROVE  LET i == Filled(text, n)
         IN  Cut(text, n) = IF i > 0 /\ text[i] \in Finding THEN Cut(text, i - 1) ELSE n
<1> DEFINE i == Filled(text, n)
           T == Trailing(text, n)
           U == Trailing(text, i - 1)
<1>1. i \in 0..n /\ (i > 0 => text[i] # "blank") /\ \A j \in (i + 1)..n : text[j] = "blank"
  BY FilledIs
<1> SUFFICES Cut(text, n) = IF i > 0 /\ text[i] \in Finding THEN Cut(text, i - 1) ELSE n
  OBVIOUS
<1> HIDE DEF i
<1>2. \A x \in 1..n : text[x] \in Finding => x <= i
  <2>1. SUFFICES ASSUME NEW x \in 1..n, text[x] \in Finding, x > i
                 PROVE  FALSE
    BY <1>1
  <2>2. x \in (i + 1)..n
    BY <1>1, <2>1
  <2>3. text[x] = "blank"
    BY <1>1, <2>2
  <2> QED BY <2>1, <2>3 DEF Finding
<1>3. CASE i > 0 /\ text[i] \in Finding
  <2>1. T = U \cup {i}
    <3>1. ASSUME NEW x \in T PROVE x \in U \cup {i}
      <4>1. x \in 1..n /\ text[x] \in Finding /\ \A j \in x..n : text[j] \in Finding \cup {"blank"}
        BY <3>1 DEF Trailing
      <4>2. x <= i
        BY <1>2, <4>1
      <4>3. x # i => x \in 1..(i - 1) /\ \A j \in x..(i - 1) : j \in x..n
        BY <1>1, <4>1, <4>2
      <4> QED BY <4>1, <4>3 DEF Trailing
    <3>2. i \in T
      <4>1. i \in 1..n
        BY <1>1, <1>3
      <4>2. \A j \in i..n : j = i \/ j \in (i + 1)..n
        BY <1>1
      <4> QED BY <1>1, <1>3, <4>1, <4>2 DEF Trailing
    <3>3. ASSUME NEW x \in U PROVE x \in T
      <4>1. x \in 1..(i - 1) /\ text[x] \in Finding
            /\ \A j \in x..(i - 1) : text[j] \in Finding \cup {"blank"}
        BY <3>3 DEF Trailing
      <4>2. x \in 1..n /\ \A j \in x..n : j \in x..(i - 1) \/ j = i \/ j \in (i + 1)..n
        BY <1>1, <4>1
      <4> QED BY <1>1, <1>3, <4>1, <4>2 DEF Trailing
    <3> QED BY <3>1, <3>2, <3>3
  <2>2. T \in SUBSET Nat /\ U \in SUBSET Nat /\ i \in Nat /\ \A x \in U : x < i
    BY <1>1, <1>3 DEF Trailing
  <2>3. CASE U = {}
    <3>1. FirstOf(T) = i
      BY <2>1, <2>2, <2>3, FirstIs
    <3> QED BY <1>3, <2>1, <2>3, <3>1 DEF Cut
  <2>4. CASE U # {}
    <3> HIDE DEF T, U
    <3>1. FirstOf(U) \in U /\ \A y \in U : FirstOf(U) <= y
      BY <2>2, <2>4, FirstIs
    <3>2. FirstOf(T) \in T /\ \A y \in T : FirstOf(T) <= y
      BY <2>1, <2>2, FirstIs
    <3>3. FirstOf(T) = FirstOf(U)
      <4> DEFINE t == FirstOf(T)
                 u == FirstOf(U)
      <4>1. u \in T /\ u < i /\ u \in Nat
        BY <2>1, <2>2, <3>1
      <4>2. t <= u /\ t \in Nat
        BY <2>2, <3>2, <4>1
      <4>3. t \in U
        BY <2>1, <2>2, <3>2, <4>1, <4>2
      <4>4. u <= t
        BY <3>1, <4>3
      <4> HIDE DEF t, u
      <4>5. t = u
        BY <4>1, <4>2, <4>4
      <4> QED BY <4>5 DEF t, u
    <3> QED BY <1>3, <2>1, <2>4, <3>3 DEF Cut, T, U
  <2> QED BY <2>3, <2>4
<1>4. CASE ~(i > 0 /\ text[i] \in Finding)
  <2>1. SUFFICES T = {}
    BY <1>4 DEF Cut
  <2>2. SUFFICES ASSUME NEW x \in T PROVE FALSE
    OBVIOUS
  <2>3. x \in 1..n /\ text[x] \in Finding /\ \A j \in x..n : text[j] \in Finding \cup {"blank"}
    BY DEF Trailing
  <2>4. x <= i
    BY <1>2, <2>3
  <2>5. i > 0 /\ i \in x..n
    BY <1>1, <2>3, <2>4
  <2> QED BY <1>1, <1>4, <2>3, <2>5
<1> QED BY <1>3, <1>4

\* The recursive function is one that its equation describes.
LEMMA AboveRecurs == ASSUME NEW text, Len(text) \in Nat
                     PROVE  Above(text) = Peeled(text, Above(text))
<1> DEFINE P(f) == f = [n \in 0..Len(text) |->
                         LET i == Filled(text, n)
                         IN  IF i > 0 /\ text[i] \in {"finding", "none needed"}
                             THEN f[i - 1] ELSE n]
           g == [n \in 0..Len(text) |-> Cut(text, n)]
<1>1. g = Peeled(text, g)
  <2>1. ASSUME NEW n \in 0..Len(text) PROVE g[n] = Peeled(text, g)[n]
    <3> DEFINE i == Filled(text, n)
    <3>1. i \in 0..n
      BY FilledIs
    <3>2. Cut(text, n) = IF i > 0 /\ text[i] \in Finding THEN Cut(text, i - 1) ELSE n
      BY CutPeels
    <3>3. i > 0 => i - 1 \in 0..Len(text)
      BY <3>1
    <3>4. g[n] = IF i > 0 /\ text[i] \in Finding THEN g[i - 1] ELSE n
      BY <3>2, <3>3
    <3> HIDE DEF g
    <3> QED BY <3>4 DEF Peeled, Finding
  <2> QED BY <2>1 DEF Peeled
<1>2. P(g)
  BY <1>1 DEF Peeled
<1>3. Above(text) = CHOOSE f : P(f)
  BY DEF Above
<1>4. P(CHOOSE f : P(f))
  <2> HIDE DEF g
  <2> QED BY <1>2
<1> QED BY <1>3, <1>4 DEF Peeled

\* What parseFinalStatus leaves above the findings: below it findings only, none at its end.
Kept(text, a, n) ==
  /\ a \in 0..n
  /\ \A j \in (a + 1)..n : text[j] \in Finding \cup {"blank"}
  /\ Filled(text, a) > 0 => text[Filled(text, a)] \notin Finding

LEMMA AboveIs == ASSUME NEW text, Len(text) \in Nat
                 PROVE  \A n \in 0..Len(text) : Kept(text, Above(text)[n], n)
<1> DEFINE T == {n \in 0..Len(text) : ~Kept(text, Above(text)[n], n)}
<1>1. SUFFICES ASSUME T # {} PROVE FALSE
  OBVIOUS
<1>2. T \in SUBSET Nat
  OBVIOUS
<1>3. PICK n \in T : \A m \in T : n <= m
  <2> HIDE DEF T
  <2> QED BY <1>1, <1>2, LeastOf
<1>4. n \in 0..Len(text) /\ ~Kept(text, Above(text)[n], n)
  OBVIOUS
<1>5. \A m \in 0..Len(text) : m < n => Kept(text, Above(text)[m], m)
  BY <1>3, <1>4
<1> HIDE DEF T
<1> DEFINE i == Filled(text, n)
<1>6. i \in 0..n /\ (i > 0 => text[i] # "blank") /\ \A j \in (i + 1)..n : text[j] = "blank"
  BY <1>4, FilledIs
<1>7. Above(text)[n] = IF i > 0 /\ text[i] \in Finding THEN Above(text)[i - 1] ELSE n
  <2>1. Peeled(text, Above(text))[n] =
          IF i > 0 /\ text[i] \in Finding THEN Above(text)[i - 1] ELSE n
    BY <1>4 DEF Peeled, Finding
  <2> QED BY <2>1, AboveRecurs
<1>8. CASE i > 0 /\ text[i] \in Finding
  <2> DEFINE a == Above(text)[i - 1]
  <2>1. i - 1 \in 0..Len(text) /\ i - 1 < n
    BY <1>4, <1>6, <1>8
  <2>2. Kept(text, a, i - 1)
    BY <1>5, <2>1
  <2> HIDE DEF i, a
  <2>3. a \in 0..n /\ \A j \in (a + 1)..n : j \in (a + 1)..(i - 1) \/ j = i \/ j \in (i + 1)..n
    BY <1>4, <1>6, <1>8, <2>2 DEF Kept
  <2>4. Kept(text, a, n)
    BY <1>6, <1>8, <2>2, <2>3 DEF Kept
  <2> QED BY <1>4, <1>7, <1>8, <2>4 DEF a
<1>9. CASE ~(i > 0 /\ text[i] \in Finding)
  <2>1. Kept(text, n, n)
    BY <1>4, <1>6, <1>9 DEF Kept
  <2> QED BY <1>4, <1>7, <1>9, <2>1
<1> QED BY <1>8, <1>9

\* What the last line says of a text, and the findings and the summary that go with it.
LEMMA FinalStatusIs ==
  ASSUME NEW text \in Seq(Lines)
  PROVE  LET parsed == ParseFinalStatus(text)
             last == Filled(text, Len(text))
             said == last > 0 /\ text[last] \in {"ok", "block"}
         IN  /\ parsed.status = IF said THEN text[last] ELSE "none"
             /\ said =>
                  /\ parsed.findings =
                       {i \in 1..last : text[i] = "finding" /\ \A j \in i..(last - 1) :
                          text[j] # "text" /\ text[j] # "ok" /\ text[j] # "block"}
                  /\ parsed.summary > 0 =>
                       text[parsed.summary] \notin {"finding", "none needed", "blank"}
<1> DEFINE parsed == ParseFinalStatus(text)
           last == Filled(text, Len(text))
           said == last > 0 /\ text[last] \in {"ok", "block"}
           a == Above(text)[last - 1]
<1>1. /\ Len(text) \in Nat /\ \A i \in 1..Len(text) : text[i] \in Lines
  OBVIOUS
<1>2. last \in 0..Len(text)
  BY <1>1, FilledIs
<1>3. CASE ~said
  <2>1. parsed = NotParsed
    BY <1>2, <1>3 DEF ParseFinalStatus
  <2> QED BY <1>3, <2>1 DEF NotParsed
<1>4. CASE said
  <2>1. parsed = [status |-> text[last], findings |-> {i \in (a + 1)..last : text[i] = "finding"},
                  summary |-> Filled(text, a)]
    BY <1>2, <1>4 DEF ParseFinalStatus
  <2>2. last - 1 \in 0..Len(text)
    BY <1>2, <1>4
  <2>3. Kept(text, a, last - 1)
    BY <1>1, <2>2, AboveIs
  <2>4. last \in 1..Len(text) /\ text[last] \notin {"finding", "blank"}
    BY <1>2, <1>4
  <2> HIDE DEF a, last
  <2>5. /\ Filled(text, a) \in 0..a
        /\ Filled(text, a) > 0 => text[Filled(text, a)] \notin {"finding", "none needed", "blank"}
        /\ \A j \in (Filled(text, a) + 1)..a : text[j] = "blank"
    <3>1. a \in Nat
      BY <2>3, <2>4 DEF Kept
    <3>2. /\ Filled(text, a) \in 0..a
          /\ Filled(text, a) > 0 => text[Filled(text, a)] # "blank"
          /\ \A j \in (Filled(text, a) + 1)..a : text[j] = "blank"
      BY <3>1, FilledIs
    <3> QED BY <2>3, <3>2 DEF Kept, Finding
  <2>6. ASSUME NEW i \in (a + 1)..last, text[i] = "finding"
        PROVE  /\ i \in 1..last
               /\ \A j \in i..(last - 1) : text[j] # "text" /\ text[j] # "ok" /\ text[j] # "block"
    <3>1. a \in Nat /\ i \in 1..last /\ \A j \in i..(last - 1) : j \in (a + 1)..(last - 1)
      BY <2>3, <2>4 DEF Kept
    <3> QED BY <2>3, <3>1 DEF Kept, Finding
  <2>7. ASSUME NEW i \in 1..last, text[i] = "finding",
               \A j \in i..(last - 1) : text[j] # "text" /\ text[j] # "ok" /\ text[j] # "block"
        PROVE  i \in (a + 1)..last
    <3> DEFINE m == Filled(text, a)
    <3>1. a \in Nat /\ a <= last - 1
      BY <2>3, <2>4 DEF Kept
    <3>2. SUFFICES ASSUME i <= a PROVE FALSE
      BY <2>4, <3>1
    <3> HIDE DEF m
    <3>3. m \in 0..a /\ ~(m < i)
      <4>1. m \in 0..a
        BY <2>5 DEF m
      <4>2. ASSUME m < i PROVE FALSE
        <5>1. i \in (m + 1)..a
          BY <2>4, <3>1, <3>2, <4>1, <4>2
        <5>2. text[i] = "blank"
          BY <2>5, <5>1 DEF m
        <5> QED BY <2>7, <5>2
      <4> QED BY <4>1, <4>2
    <3>4. m > 0 /\ m \in i..(last - 1) /\ m \in 1..Len(text)
      BY <2>4, <3>1, <3>2, <3>3
    <3>5. text[m] \in Lines /\ text[m] \notin {"finding", "none needed", "blank"}
      BY <1>1, <2>5, <3>4 DEF m
    <3> QED BY <2>7, <3>4, <3>5 DEF Lines
  <2>8. {i \in (a + 1)..last : text[i] = "finding"} =
          {i \in 1..last : text[i] = "finding" /\ \A j \in i..(last - 1) :
             text[j] # "text" /\ text[j] # "ok" /\ text[j] # "block"}
    BY <2>6, <2>7
  <2> HIDE DEF parsed
  <2>9. parsed.status = text[last] /\ parsed.summary = Filled(text, a)
        /\ parsed.findings = {i \in (a + 1)..last : text[i] = "finding"}
    BY <2>1
  <2> QED BY <1>4, <2>5, <2>8, <2>9 DEF parsed, last
<1> QED BY <1>3, <1>4

-----------------------------------------------------------------------------
(* A report, its verdict and its acknowledgement.                          *)

Codes == {"REPORT_CONFLICT", "REPORT_INVALID"}
Acks(report) ==
  {Ack(report), RetiredAck(report)}
  \cup {IncidentAck(report, c, d) : c \in Codes, d \in {"run-error", "telemetry-rejected"}}

\* What a verdict on a report says of it.
DecidedOn(v, report) ==
  /\ v.kind \in {"retired", "settled"} \cup Codes /\ v.ack \in Acks(report)
  /\ v.kind = "REPORT_INVALID" => ~ValidReport(report)
  /\ v.kind = "settled" =>
       /\ v.phase = ReportOutcome(report).phase /\ v.attention = ReportOutcome(report).attention
       /\ v.summary = ReportOutcome(report).summary /\ v.memory = TerminalMemory(report)

ReportInv ==
  /\ attempt \in Attempt
  /\ outboxRow \in {NoRow, BuildReport(attempt)}
  /\ verdict = NoVerdict \/ DecidedOn(verdict, BuildReport(attempt))
  /\ \/ reply \in {NoReply, BodyTooLarge} \cup Unsettled
     \/ verdict # NoVerdict /\ reply = verdict.ack
  /\ outboxRow = NoRow /\ reply # NoReply => verdict # NoVerdict

LEMMA OutcomeKind == ASSUME NEW report PROVE ReportOutcome(report).kind = "settled"
  BY DEF ReportOutcome, Outcome

LEMMA DecideIs == ASSUME NEW report PROVE DecidedOn(Decide(report), report)
<1> DEFINE v == Decide(report)
           incident(code) == [kind |-> code, ack |-> IncidentAck(report, code, Disposition)]
           settled == [ack |-> Ack(report), memory |-> TerminalMemory(report),
                       telemetry |-> CoerceTelemetry(report)]
           names == {"kind", "phase", "attention", "summary", "ack", "memory", "telemetry"}
<1>1. Disposition \in {"run-error", "telemetry-rejected"}
  BY DEF Disposition
<1>2. ASSUME NEW code \in Codes, code = "REPORT_INVALID" => ~ValidReport(report), v = incident(code)
      PROVE  DecidedOn(v, report)
  <2>1. v.kind = code /\ v.ack = IncidentAck(report, code, Disposition)
    BY <1>2
  <2>2. v.ack \in Acks(report)
    BY <1>1, <2>1 DEF Acks
  <2> HIDE DEF v
  <2> QED BY <1>2, <2>1, <2>2 DEF DecidedOn, Codes
<1>3. ASSUME v = [kind |-> "retired", ack |-> RetiredAck(report)] PROVE DecidedOn(v, report)
  <2>1. v.kind = "retired" /\ v.ack = RetiredAck(report)
    BY <1>3
  <2> HIDE DEF v
  <2> QED BY <2>1 DEF DecidedOn, Acks
<1>4. ASSUME v = [k \in names |-> IF k \in DOMAIN settled THEN settled[k] ELSE ReportOutcome(report)[k]]
      PROVE  DecidedOn(v, report)
  <2>1. v.kind = ReportOutcome(report).kind /\ v.ack = Ack(report)
        /\ v.phase = ReportOutcome(report).phase /\ v.attention = ReportOutcome(report).attention
        /\ v.summary = ReportOutcome(report).summary /\ v.memory = TerminalMemory(report)
    BY <1>4
  <2> HIDE DEF v
  <2> QED BY <2>1, OutcomeKind DEF DecidedOn, Acks, Codes
<1>5. \/ foreign /\ v = incident("REPORT_CONFLICT")
      \/ v = [kind |-> "retired", ack |-> RetiredAck(report)]
      \/ ~ValidReport(report) /\ v = incident("REPORT_INVALID")
      \/ v = [k \in names |-> IF k \in DOMAIN settled THEN settled[k] ELSE ReportOutcome(report)[k]]
  BY DEF Decide
<1> HIDE DEF v, incident, settled, names
<1>6. "REPORT_CONFLICT" \in Codes /\ "REPORT_INVALID" \in Codes
  BY DEF Codes
<1> QED BY <1>2, <1>3, <1>4, <1>5, <1>6 DEF v

\* What the server may have decided, the daemon recognises, and nothing else.
LEMMA AcksAreHeard ==
  ASSUME NEW report, NEW ack \in Acks(report)
  PROVE  Definitive(ack, report) /\ ack.status \in {200, 410} /\ ack # NoReply
<1>1. CASE ack = Ack(report)
  <2>1. IsNormalAck(ack, report) /\ ack.status = 200
    BY <1>1 DEF Ack, IsNormalAck
  <2> QED BY <2>1 DEF Definitive, NoReply
<1>2. CASE ack = RetiredAck(report)
  <2>1. IsRetiredAck(ack, report) /\ ack.status = 410
    BY <1>2 DEF RetiredAck, IsRetiredAck
  <2> QED BY <2>1 DEF Definitive, NoReply
<1>3. ASSUME NEW c \in Codes, NEW d \in {"run-error", "telemetry-rejected"},
             ack = IncidentAck(report, c, d)
      PROVE  Definitive(ack, report) /\ ack.status \in {200, 410} /\ ack # NoReply
  <2>1. IsHandledAck(ack, report) /\ ack.status = 200
    BY <1>3 DEF IncidentAck, IsHandledAck, HandledFields, Codes
  <2> QED BY <2>1 DEF Definitive, NoReply
<1> QED BY <1>1, <1>2, <1>3 DEF Acks

LEMMA OthersAreNot ==
  ASSUME NEW report, NEW r \in {BodyTooLarge} \cup Unsettled
  PROVE  ~Definitive(r, report) /\ r.status \notin {200, 410}
<1> DEFINE unauthorized == [status |-> 401, body |-> [error |-> "invalid or expired token"]]
           notFinalized == [status |-> 409,
                            body |-> [error |-> "not finalized",
                                      code |-> "REPORT_NOT_FINALIZED", reportId |-> "id"]]
           failed == [status |-> 500, body |-> [error |-> "not ours"]]
<1>1. Unsettled = {unauthorized, notFinalized, failed}
  BY DEF Unsettled
<1>2. /\ unauthorized.status = 401 /\ notFinalized.status = 409 /\ failed.status = 500
      /\ BodyTooLarge.status = 413
  BY DEF BodyTooLarge
<1> HIDE DEF unauthorized, notFinalized, failed
<1>3. r.status # 200 /\ r.status # 410
  BY <1>1, <1>2
<1> QED BY <1>3 DEF Definitive, IsNormalAck, IsHandledAck, IsRetiredAck

LEMMA ReportExists == ASSUME NEW a PROVE BuildReport(a) # NoRow
<1>1. BuildReport(a).reportId = "id" /\ NoRow.reportId = "none"
  BY DEF BuildReport, NoRow
<1> QED BY <1>1

LEMMA VerdictExists == ASSUME NEW v, NEW report, DecidedOn(v, report) PROVE v # NoVerdict
  BY DEF DecidedOn, NoVerdict, Codes

LEMMA ReportStep == ASSUME ReportInv, [ReportNext]_repVars PROVE ReportInv'
<1>1. CASE UNCHANGED repVars
  BY <1>1 DEF ReportInv, repVars
<1>2. CASE PutRow
  BY <1>2 DEF ReportInv, PutRow
<1>3. CASE RefuseBody \/ AnswerUnsettled
  <2>1. outboxRow # NoRow /\ reply' \in {NoReply, BodyTooLarge} \cup Unsettled
        /\ UNCHANGED <<attempt, outboxRow, verdict>>
    BY <1>3 DEF RefuseBody, AnswerUnsettled, Posted
  <2> QED BY <2>1 DEF ReportInv
<1>4. CASE HandleReport
  <2>1. /\ outboxRow # NoRow /\ verdict' = Decide(outboxRow) /\ reply' = verdict'.ack
        /\ UNCHANGED <<attempt, outboxRow>>
    BY <1>4 DEF HandleReport, Posted
  <2>2. outboxRow = BuildReport(attempt)
    BY <2>1 DEF ReportInv
  <2>3. DecidedOn(verdict', outboxRow)
    BY <2>1, DecideIs
  <2>4. verdict' # NoVerdict
    BY <2>3, VerdictExists
  <2> QED BY <2>1, <2>2, <2>3, <2>4 DEF ReportInv
<1>5. CASE Replay
  <2>1. /\ outboxRow # NoRow /\ verdict # NoVerdict /\ reply' = verdict.ack
        /\ UNCHANGED <<attempt, outboxRow, verdict>>
    BY <1>5 DEF Replay, Posted
  <2> QED BY <2>1 DEF ReportInv
<1>6. CASE LeaseAges
  BY <1>6 DEF ReportInv, LeaseAges
<1>7. CASE TakeReply
  <2>1. /\ outboxRow # NoRow /\ reply # NoReply /\ UNCHANGED <<attempt, verdict>>
        /\ IF Definitive(reply, outboxRow) THEN outboxRow' = NoRow /\ reply' = reply
           ELSE reply' = NoReply /\ outboxRow' = outboxRow
    BY <1>7 DEF TakeReply
  <2>2. Definitive(reply, outboxRow) => verdict # NoVerdict
    BY <2>1, OthersAreNot DEF ReportInv
  <2>3. CASE Definitive(reply, outboxRow)
    BY <2>1, <2>2, <2>3 DEF ReportInv
  <2>4. CASE ~Definitive(reply, outboxRow)
    BY <2>1, <2>4 DEF ReportInv
  <2> QED BY <2>3, <2>4
<1>8. CASE LoseReply
  BY <1>8 DEF ReportInv, LoseReply
<1> QED BY <1>1, <1>2, <1>3, <1>4, <1>5, <1>6, <1>7, <1>8 DEF ReportNext

LEMMA InvHears == ReportInv => VerdictsAreHeard
<1> SUFFICES ASSUME ReportInv, outboxRow # NoRow, reply # NoReply
             PROVE  Definitive(reply, outboxRow) <=> verdict # NoVerdict /\ reply = verdict.ack
  BY DEF VerdictsAreHeard, ReportInv
<1>1. outboxRow = BuildReport(attempt)
  BY DEF ReportInv
<1>2. verdict # NoVerdict => verdict.ack \in Acks(outboxRow)
  BY <1>1 DEF ReportInv, DecidedOn
<1>3. CASE reply \in {BodyTooLarge} \cup Unsettled
  <2>1. ~Definitive(reply, outboxRow) /\ reply.status \notin {200, 410}
    BY <1>3, OthersAreNot
  <2>2. verdict # NoVerdict => verdict.ack.status \in {200, 410}
    BY <1>2, AcksAreHeard
  <2> QED BY <2>1, <2>2
<1>4. CASE verdict # NoVerdict /\ reply = verdict.ack
  BY <1>2, <1>4, AcksAreHeard
<1> QED BY <1>3, <1>4 DEF ReportInv

LEMMA InvForms == ReportInv => FormIsAccepted
<1> SUFFICES ASSUME ReportInv, verdict # NoVerdict, verdict.kind = "REPORT_INVALID",
                    attempt.code # "large", attempt.usage # "odd", attempt.duration # "odd"
             PROVE  FALSE
  BY DEF FormIsAccepted
<1> DEFINE report == BuildReport(attempt)
<1>1. ~ValidReport(report) /\ attempt \in Attempt
  BY DEF ReportInv, DecidedOn
<1>2. report.result \in {"success", "failure", "canceled", "timeout"}
  BY DEF BuildReport, ResultNamed
<1>3. report.durationMs = attempt.duration /\ report.exitCode \in {attempt.code, "null"}
      /\ report.usage \in {attempt.usage, "none"}
  BY DEF BuildReport
<1>4. report.memory = Collected(attempt).memory /\ report.notices = Collected(attempt).notices
  BY DEF BuildReport
<1>5. Collected(attempt).memory \in Memories \cup {"none"} /\ Collected(attempt).notices \in {0, 1}
  BY <1>1 DEF Collected, Attempt
<1> HIDE DEF report
<1> QED BY <1>1, <1>2, <1>3, <1>4, <1>5 DEF ValidReport, ReportNoticesMax

\* What the daemon names the end of an attempt.
LEMMA ResultIs ==
  ASSUME NEW a \in Attempt
  PROVE  /\ ResultNamed(a) = "canceled" <=> a.ending = "canceled"
         /\ ResultNamed(a) = "success" <=> Succeeded(a)
         /\ a.ending = "timeout" => ResultNamed(a) = "timeout"
         /\ Succeeded(a) => a.ending = "exit"
<1>1. a.ending \in {"refused", "broken", "exit", "timeout", "canceled"}
      /\ a.stderr \in {"some", "timed out"}
  BY DEF Attempt
<1>2. Succeeded(a) => a.ending = "exit"
  BY DEF Succeeded
<1>3. ErrorOf(a) = "canceled" <=> a.ending = "canceled"
  BY <1>1 DEF ErrorOf
<1>4. a.ending = "timeout" => ErrorOf(a) = "timed out"
  BY DEF ErrorOf
<1> QED BY <1>1, <1>2, <1>3, <1>4 DEF ResultNamed

\* What reportOutcome makes of the report of an attempt.
LEMMA OutcomeIs ==
  ASSUME NEW a \in Attempt
  PROVE  LET out == ReportOutcome(BuildReport(a))
             parsed == ParseFinalStatus(a.text)
         IN  /\ out.phase = "done" <=> Succeeded(a) /\ parsed.status # "none"
             /\ out.phase = "canceled" <=> a.ending = "canceled"
             /\ out.phase = "done" =>
                  /\ out.attention = IF parsed.status = "ok" THEN parsed.findings ELSE {}
                  /\ out.summary = parsed.summary
<1> DEFINE report == BuildReport(a)
           out == ReportOutcome(report)
           parsed == ParseFinalStatus(report.finalText)
           said == [Outcome("done") EXCEPT
                      !.attention = IF parsed.status = "ok" THEN parsed.findings ELSE {},
                      !.summary = parsed.summary]
<1>1. report.result = ResultNamed(a) /\ (Succeeded(a) => report.finalText = a.text)
  BY ResultIs DEF BuildReport
<1>2. \A phase : Outcome(phase).phase = phase
  BY DEF Outcome
<1>3. /\ said.phase = "done" /\ said.summary = parsed.summary
      /\ said.attention = IF parsed.status = "ok" THEN parsed.findings ELSE {}
  BY DEF Outcome
<1>4. out = CASE report.result = "canceled" -> Outcome("canceled")
              [] report.result # "canceled" /\ report.result # "success" -> Outcome("error")
              [] OTHER -> IF parsed.status = "none" THEN Outcome("error") ELSE said
  BY DEF ReportOutcome
<1> HIDE DEF report, out, said
<1>5. CASE report.result = "canceled"
  <2>1. out.phase = "canceled"
    BY <1>2, <1>4, <1>5
  <2> QED BY <1>1, <1>5, <2>1, ResultIs DEF out, report
<1>6. CASE report.result # "canceled" /\ report.result # "success"
  <2>1. out.phase = "error"
    BY <1>2, <1>4, <1>6
  <2> QED BY <1>1, <1>6, <2>1, ResultIs DEF out, report
<1>7. CASE report.result = "success"
  <2>1. out = IF parsed.status = "none" THEN Outcome("error") ELSE said
    BY <1>4, <1>7
  <2>2. Succeeded(a) /\ a.ending = "exit" /\ parsed = ParseFinalStatus(a.text)
    BY <1>1, <1>7, ResultIs
  <2> HIDE DEF parsed
  <2>3. CASE parsed.status = "none"
    <3>1. out.phase = "error"
      BY <1>2, <2>1, <2>3
    <3> QED BY <2>2, <2>3, <3>1 DEF out, report
  <2>4. CASE parsed.status # "none"
    <3>1. out = said
      BY <2>1, <2>4
    <3> QED BY <1>3, <2>2, <2>4, <3>1 DEF out, report
  <2> QED BY <2>3, <2>4
<1> QED BY <1>5, <1>6, <1>7

\* What is stored of the memory of an attempt is what its agent left, and only then.
LEMMA MemoryKept ==
  ASSUME NEW a \in Attempt, TerminalMemory(BuildReport(a)) # "none"
  PROVE  /\ a.ending \notin {"canceled", "timeout"}
         /\ TerminalMemory(BuildReport(a)) = a.file /\ ~MemoryIssue(a.file)
<1> DEFINE report == BuildReport(a)
<1>1. report.result = ResultNamed(a) /\ report.memory = Collected(a).memory
  BY DEF BuildReport
<1>2. Collected(a).memory \in {"none", a.file}
  BY DEF Collected
<1> HIDE DEF report
<1>3. /\ report.memory # "none" /\ report.result \notin {"canceled", "timeout"}
      /\ ~MemoryIssue(report.memory) /\ TerminalMemory(report) = report.memory
  BY DEF TerminalMemory, report
<1> QED BY <1>1, <1>2, <1>3, ResultIs DEF report

LEMMA InvTrue == ReportInv => VerdictIsTrue
<1> DEFINE text == attempt.text
           last == Filled(text, Len(text))
           said == last > 0 /\ text[last] \in {"ok", "block"}
           out == ReportOutcome(BuildReport(attempt))
           parsed == ParseFinalStatus(text)
<1> SUFFICES ASSUME ReportInv, verdict # NoVerdict, verdict.kind = "settled"
             PROVE  /\ verdict.phase = "done" <=> Succeeded(attempt) /\ said
                    /\ verdict.phase = "canceled" <=> attempt.ending = "canceled"
                    /\ verdict.phase = "done" /\ text[last] = "ok" =>
                         /\ {i \in 1..last : text[i] = "finding" /\ \A j \in i..(last - 1) :
                               text[j] # "text" /\ text[j] # "ok" /\ text[j] # "block"}
                             = verdict.attention
                         /\ verdict.summary > 0 =>
                              text[verdict.summary] \notin {"finding", "none needed", "blank"}
                    /\ verdict.memory # "none" =>
                         /\ attempt.ending \notin {"canceled", "timeout"}
                         /\ verdict.memory = attempt.file /\ ~MemoryIssue(attempt.file)
  BY Zenon DEF VerdictIsTrue
<1>1. attempt \in Attempt /\ text \in Seq(Lines)
  BY DEF ReportInv, Attempt
<1>2. /\ verdict.phase = out.phase /\ verdict.attention = out.attention
      /\ verdict.summary = out.summary /\ verdict.memory = TerminalMemory(BuildReport(attempt))
  BY DEF ReportInv, DecidedOn
<1>3. /\ out.phase = "done" <=> Succeeded(attempt) /\ parsed.status # "none"
      /\ out.phase = "canceled" <=> attempt.ending = "canceled"
      /\ out.phase = "done" =>
           /\ out.attention = IF parsed.status = "ok" THEN parsed.findings ELSE {}
           /\ out.summary = parsed.summary
  BY <1>1, OutcomeIs
<1>4. /\ parsed.status = IF said THEN text[last] ELSE "none"
      /\ said =>
           /\ parsed.findings =
                {i \in 1..last : text[i] = "finding" /\ \A j \in i..(last - 1) :
                   text[j] # "text" /\ text[j] # "ok" /\ text[j] # "block"}
           /\ parsed.summary > 0 =>
                text[parsed.summary] \notin {"finding", "none needed", "blank"}
  BY <1>1, FinalStatusIs
<1>5. verdict.memory # "none" =>
        /\ attempt.ending \notin {"canceled", "timeout"}
        /\ verdict.memory = attempt.file /\ ~MemoryIssue(attempt.file)
  BY <1>1, <1>2, MemoryKept
<1> HIDE DEF text, last, out, parsed
<1>6. parsed.status # "none" <=> said
  BY <1>4
<1> QED BY <1>2, <1>3, <1>4, <1>5, <1>6

\* The daemon and the server keep to one report, its verdict and its answer.
LEMMA ReportInvariant == ReportSpec => []ReportInv
<1>1. ReportInit => ReportInv
  BY AttemptsAssumption DEF ReportInit, ReportInv
<1> QED BY <1>1, ReportStep, PTL DEF ReportSpec

\* However many answers are lost or refused on the way, the daemon lets go of a report at the
\* server's decision on it and at nothing else; a report is refused for its form only for a
\* number the server does not take; and what is settled is what happened.
THEOREM VerdictsReachTheDaemon ==
  ReportSpec => [](VerdictsAreHeard /\ FormIsAccepted /\ VerdictIsTrue)
<1>1. ReportInv => VerdictsAreHeard /\ FormIsAccepted /\ VerdictIsTrue
  BY InvHears, InvForms, InvTrue
<1> QED BY <1>1, ReportInvariant, PTL

\* Both ends of both exchanges, polls and reports, read what the other one wrote.
THEOREM EndsUnderstandEachOther == WireSpec /\ ReportSpec => []EndsAgree
<1>1. AnswersAreTaken /\ VerdictsAreHeard /\ FormIsAccepted /\ VerdictIsTrue => EndsAgree
  BY DEF EndsAgree
<1> QED BY <1>1, ClaimsAreTaken, VerdictsReachTheDaemon, PTL
=============================================================================
