----------------------------- MODULE Telemetry -----------------------------
(***************************************************************************)
(* What the daemon reads from an agent's event stream: token usage and     *)
(* whether the attempt failed (packages/daemon/src/telemetry.ts).          *)
(*                                                                         *)
(* The three agents count differently.  Claude Code reports each message   *)
(* and then a total; pi reports each message; Codex reports a total that   *)
(* may include what its session spent before this process, in which cached *)
(* input is part of the input.  The stream may end anywhere: the process   *)
(* is killed, and a line that was cut is no event.                         *)
(*                                                                         *)
(* The events are the providers'.  A Codex session with a past is assumed  *)
(* to carry last_token_usage in its snapshots, as the parser does.         *)
(***************************************************************************)
EXTENDS Integers

CONSTANTS
  Costs,      \* tokens of one model request: [input, cached, output]
  Pasts,      \* tokens a Codex session had spent before
  MaxSpends   \* model requests of one attempt (bound)

\* What providers count: cached input is part of the input.
Counts == {c \in [input : Nat, cached : Nat, output : Nat] : c.cached <= c.input}
ASSUME CountsAssumption == Costs \subseteq Counts /\ Pasts \subseteq Counts

VARIABLES
  agent,
  past,
  spent,      \* tokens of this process
  spends,
  exact,      \* history: what was emitted suffices to know spent
  collector,  \* the variables of makeCollector
  stream      \* "open", "turned" after the last event of the turn, "closed"

tvars == <<agent, past, spent, spends, exact, collector, stream>>

Zero == [input |-> 0, cached |-> 0, output |-> 0]
NoUsage == [input |-> -1, cached |-> -1, output |-> -1]
Plus(a, b) == [k \in DOMAIN a |-> a[k] + b[k]]
AddUsage(a, b) == IF a = NoUsage THEN b ELSE Plus(a, b)

NewCollector == [usage |-> NoUsage, baseline |-> NoUsage, terminalSeen |-> FALSE,
                 completed |-> FALSE, failed |-> FALSE, diagnostic |-> FALSE,
                 stop |-> "none", isError |-> FALSE]

-----------------------------------------------------------------------------
(* Usage.                                                                  *)

Least(a, b) == IF a < b THEN a ELSE b
Clamped(n) == IF n < 0 THEN 0 ELSE n

SubtractRaw(total, base) == [k \in DOMAIN total |-> Clamped(total[k] - base[k])]

\* Codex input includes cached input; a usage counts them apart.
Normalize(raw) ==
  LET cached == Least(raw.input, raw.cached)
  IN  [input |-> Clamped(raw.input - cached), cached |-> cached, output |-> raw.output]

-----------------------------------------------------------------------------
(* The collector.                                                          *)

\* A snapshot has a total, the last request's usage, or both.
FromZero(total, last) == IF collector.baseline # NoUsage THEN collector.baseline ELSE Zero
Baseline(total, last) ==
  IF collector.baseline # NoUsage THEN collector.baseline
  ELSE IF last # NoUsage THEN SubtractRaw(total, last) ELSE Zero

CodexSnapshot(total, last) ==
  IF collector.terminalSeen THEN collector
  ELSE IF total # NoUsage
  THEN [collector EXCEPT !.baseline = Baseline(total, last),
                         !.usage = Normalize(SubtractRaw(total, Baseline(total, last)))]
  ELSE [collector EXCEPT !.usage = Normalize(last)]

CodexTurnCompleted(usage) ==
  IF usage = NoUsage THEN [collector EXCEPT !.completed = TRUE]
  ELSE [collector EXCEPT !.completed = TRUE, !.terminalSeen = TRUE, !.usage = Normalize(usage)]

ClaudeResult(usage, isError) ==
  [collector EXCEPT !.usage = IF usage = NoUsage THEN @ ELSE usage, !.isError = isError]

\* result()
Result ==
  CASE agent = "codex" ->
         [collector EXCEPT !.isError = collector.failed
                                       \/ (~collector.completed /\ collector.diagnostic)]
    [] agent = "pi" -> [collector EXCEPT !.isError = collector.stop \in {"error", "aborted"}]
    [] OTHER -> collector

-----------------------------------------------------------------------------
(* The stream.                                                             *)

Spends(cost) ==
  /\ stream = "open" /\ spends < MaxSpends /\ spends' = spends + 1
  /\ spent' = Plus(spent, cost)
  /\ UNCHANGED <<agent, past, stream>>
Says == stream # "closed" /\ UNCHANGED <<agent, past, spent, spends>>

\* What is spent apart from Codex is already split.
Claude ==
  /\ agent = "claude-code"
  /\ \/ \E cost \in Costs :
          /\ Spends(cost) /\ exact' = FALSE
          /\ collector' = [collector EXCEPT !.usage = Normalize(cost)]
     \/ /\ Says /\ stream = "open" /\ stream' = "turned"
        /\ \E e \in BOOLEAN, told \in BOOLEAN :
             /\ collector' = ClaudeResult(IF told THEN Normalize(spent) ELSE NoUsage, e)
             /\ exact' = told
     \/ /\ Says /\ UNCHANGED <<stream, exact>>
        /\ collector' = [collector EXCEPT !.isError = TRUE]

\* A compaction that was aborted tells nothing of what it cost.
Pi ==
  /\ agent = "pi"
  /\ \E cost \in Costs :
       /\ Spends(cost)
       /\ \/ \E stop \in {"toolUse", "stop", "error"} :
               collector' = [collector EXCEPT !.usage = AddUsage(@, Normalize(cost)), !.stop = stop]
          \/ collector' = [collector EXCEPT !.usage = AddUsage(@, Normalize(cost))]
          \/ UNCHANGED collector
       /\ exact' = (exact /\ collector'.usage # collector.usage)

Codex ==
  /\ agent = "codex"
  /\ \/ \E cost \in Costs, whole \in BOOLEAN, parts \in BOOLEAN :
          /\ Spends(cost)
          /\ whole \/ parts
          /\ past = Zero \/ parts
          /\ collector' = CodexSnapshot(IF whole THEN Plus(past, Plus(spent, cost)) ELSE NoUsage,
                                        IF parts THEN cost ELSE NoUsage)
          /\ exact' = (spends = 0 \/ (exact /\ whole /\ collector.baseline # NoUsage))
     \/ /\ Says /\ stream = "open" /\ stream' = "turned"
        /\ \/ \E told \in BOOLEAN :
                /\ collector' = CodexTurnCompleted(IF told THEN spent ELSE NoUsage)
                /\ exact' = (exact \/ told)
           \/ collector' = [collector EXCEPT !.failed = TRUE] /\ UNCHANGED exact
     \/ /\ Says /\ UNCHANGED <<stream, exact>>
        /\ collector' = [collector EXCEPT !.diagnostic = TRUE]

\* The end of the stream, whether the agent was done or not.
Close ==
  /\ stream # "closed" /\ stream' = "closed"
  /\ collector' = Result
  /\ UNCHANGED <<agent, past, spent, spends, exact>>

TelemetryInit ==
  /\ agent \in {"claude-code", "codex", "pi"}
  /\ past \in IF agent = "codex" THEN Pasts ELSE {Zero}
  /\ spent = Zero /\ spends = 0 /\ exact = TRUE
  /\ collector = NewCollector /\ stream = "open"

TelemetryNext == Claude \/ Pi \/ Codex \/ Close

TelemetrySpec == TelemetryInit /\ [][TelemetryNext]_tvars

-----------------------------------------------------------------------------
(* Properties.                                                             *)

\* A run is charged with its own tokens and no others, wherever the stream is cut: never
\* more than its process spent, in no category, whatever the session spent before; and
\* all of them if the events that arrived tell.
UsageIsOwn ==
  collector.usage # NoUsage =>
    /\ \A k \in DOMAIN spent : collector.usage[k] <= Normalize(spent)[k]
    /\ exact => collector.usage = Normalize(spent)
=============================================================================
