------------------------------ MODULE MCEdges ------------------------------
(* Small instances of parts that share nothing, checked in one run: in each *)
(* behaviour one of them moves and the others stay as they began.           *)
(*   launchers  commands that start, stop and restart one server            *)
(*   creates    requests that create loops, repeated and concurrent         *)
(*   edits      concurrent edits of a loop                                  *)
(*   wire       daemons of several builds that poll, while an edit is made  *)
(*   report     the report of one run, however it ended                     *)
(*   telemetry  the event stream of one attempt                             *)
EXTENDS ServerControl, ReportWire, Telemetry, TLC

VARIABLE part

Cron(overlap, timezone) ==
  [mode |-> "cron", cron |-> "hourly", timezone |-> timezone, overlap |-> overlap]
Continuous(delay) == [mode |-> "continuous", delayMinutes |-> delay]
Plain == [name |-> "n", workdir |-> "posix", prompt |-> "p", agent |-> "codex",
          schedule |-> Cron("skip", "UTC")]

MCCreates == {
  Plain,
  [agent |-> "pi", reasoningEffort |-> "high", schedule |-> Continuous(1)] @@ Plain,
  [workdir |-> "windows", model |-> "blank"] @@ Plain,
  [agent |-> "pi", reasoningEffort |-> "custom"] @@ Plain,
  [workdir |-> "relative"] @@ Plain,
  [schedule |-> Cron("skip", "bad")] @@ Plain}
MCPatches == {
  [agent |-> "pi"], [agent |-> "codex"],
  [reasoningEffort |-> "custom"], [reasoningEffort |-> "blank"],
  [agent |-> "pi", reasoningEffort |-> "custom"],
  [schedule |-> Cron("queue-one", "UTC")], [schedule |-> Cron("sometimes", "UTC")],
  [schedule |-> Continuous(2)], [schedule |-> Continuous(0)],
  [enabled |-> "no"], [enabled |-> "maybe"], [id |-> "other"]}

Release6(pre) == [core |-> <<6, 0, 0>>, pre |-> pre, strict |-> TRUE, long |-> FALSE]
MCVersions == {
  Release6(FALSE), Release6(TRUE),
  [core |-> <<5, 9, 9>>, pre |-> FALSE, strict |-> TRUE, long |-> FALSE],
  [core |-> <<7, 1, 0>>, pre |-> FALSE, strict |-> FALSE, long |-> FALSE],
  [core |-> <<6, 1, 0>>, pre |-> TRUE, strict |-> TRUE, long |-> TRUE]}

Tokens(i, c, o) == [input |-> i, cached |-> c, output |-> o]
MCCosts == {Tokens(2, 1, 1), Tokens(3, 0, 1), Tokens(1, 1, 0)}
MCPasts == {Zero, Tokens(5, 4, 2), Tokens(3, 0, 1)}

Well == [ending |-> "exit", code |-> "zero", isError |-> FALSE, stderr |-> "some",
         usage |-> "counts", text |-> <<"text", "ok">>, file |-> "short", duration |-> "counts",
         long |-> FALSE]
Texts == UNION {[1..n -> Lines] : n \in 0..3} \cup {<<"text", "finding", "blank", "finding", "ok">>}
MCAttempts ==
  {[text |-> text] @@ Well : text \in Texts}
  \cup [ending : {"exit", "timeout", "canceled"}, code : {"zero", "small"}, isError : BOOLEAN,
        stderr : {"some", "timed out"}, usage : {"none"}, text : {<<"ok">>},
        file : {"short", "same", "over", "special"}, duration : {"counts"},
        long : {FALSE}]
  \cup {[long |-> TRUE] @@ Well, [usage |-> "odd"] @@ Well, [duration |-> "odd"] @@ Well,
        [ending |-> "broken"] @@ Well, [ending |-> "refused"] @@ Well, [code |-> "large"] @@ Well,
        [code |-> "null", isError |-> TRUE, file |-> "binary"] @@ Well}

AnyId == CHOOSE l \in Ids : TRUE
AnyRequest == CHOOSE h \in Requests : TRUE

\* One loop is there from the start.
OneLoop ==
  /\ \E body \in Creates :
       /\ CreateAccepted(body)
       /\ row = [l \in Ids |-> IF l = AnyId THEN CreatedRow(body) ELSE Deleted]
  /\ known = [body \in Creates |-> NoId] /\ answered = {} /\ raced = {}
  /\ request = [h \in Requests |-> NoRequest]

PartNext ==
  \/ part = "launchers" /\ LauncherNext /\ UNCHANGED <<cvars, xvars, repVars, tvars>>
  \/ part \in {"creates", "edits"} /\ ConfigNext /\ UNCHANGED <<lvars, xvars, repVars, tvars>>
  \/ part = "wire" /\ WireNext /\ UNCHANGED <<lvars, cvars, repVars, tvars>>
  \/ /\ part = "wire" /\ (SendEdit(AnyRequest) \/ WriteEdit(AnyRequest))
     /\ UNCHANGED <<lvars, xvars, repVars, tvars>>
  \/ part = "report" /\ ReportNext /\ UNCHANGED <<lvars, cvars, xvars, tvars>>
  \/ part = "telemetry" /\ TelemetryNext /\ UNCHANGED <<lvars, cvars, xvars, repVars>>

MCInit ==
  /\ part \in {"launchers", "creates", "edits", "wire", "report", "telemetry"}
  /\ LauncherInit
  /\ IF part \in {"edits", "wire"} THEN OneLoop ELSE ConfigInit
  /\ WireInit
  /\ part # "wire" =>
       /\ daemon.protocol = DaemonProtocolVersion /\ daemon.version = NoVersion
       /\ daemon.platform = "posix" /\ recorded = DaemonProtocolVersion
  /\ ReportInit
  /\ part # "report" => attempt = Well /\ ~foreign
  /\ TelemetryInit
  /\ part # "telemetry" => agent = "pi"

MCNext == PartNext /\ UNCHANGED part

-----------------------------------------------------------------------------
(* Bounds.                                                                 *)

\* Launchers that have not begun are alike.
InOrder == \A c, d \in Launchers : c < d /\ cmd[c].at = "idle" => cmd[d].at = "idle"
\* Nothing is claimed of what follows.
NotStolen == ~stolen
Doing(verbs) == Cardinality({c \in Launchers : cmd[c].verb \in verbs})
Few ==
  /\ Doing({"foreground", "restart"}) <= 1 /\ Doing({"stop"}) <= 1
  /\ crashes > 0 => /\ Doing({"restart"}) = 0
                    /\ Doing({"foreground"}) = 0 \/ Doing({"stop"}) = 0

\* Creates and edits do not meet in one behaviour.
Apart ==
  /\ part = "creates" => \A h \in Requests : request[h].at # "write"
  /\ part = "edits" => \A h \in Requests : request[h].at \in {"idle", "write"}

\* What was edited is polled for by a current daemon, with a memory as it was.
Edited == \A body \in Creates : row[AnyId] # CreatedRow(body)
Current == part = "wire" /\ Edited =>
             /\ daemon.protocol = DaemonProtocolVersion /\ daemon.version = Release6(FALSE)
             /\ memory = "short"
=============================================================================
