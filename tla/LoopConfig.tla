----------------------------- MODULE LoopConfig -----------------------------
(***************************************************************************)
(* What a loop is configured to do, and the requests that create and edit  *)
(* it (packages/server/src/gateway/loopConfig.ts, createLoop and editLoop  *)
(* of gateway/index.ts, patchLoop of server/loopApi.ts).                   *)
(*                                                                         *)
(* A request validates, awaits, and writes.  A create looks its key up     *)
(* first, an in-memory hint that an earlier request made the loop; the key *)
(* is a hash of the body, so here it IS the body.  An edit validates       *)
(* against the row it read, and its write does not look at it again.       *)
(*                                                                         *)
(* A body is a function on the fields that are present.  A text is usable  *)
(* or "bad" (NUL, too long, another type, not a tag list).  A cron         *)
(* expression is one of Crons or is refused; whether it still has two      *)
(* occurrences does not change while the model runs.                       *)
(***************************************************************************)
EXTENDS Naturals, FiniteSets

CONSTANTS
  Requests,   \* handlers that run at once
  Ids,        \* the loops ever inserted
  NoId,
  Creates,    \* bodies sent to create a loop
  Patches     \* bodies sent to edit one

ASSUME ConfigAssumption == NoId \notin Ids

VARIABLES
  row,       \* table loops
  known,     \* newIdempotency: the loop a body made
  answered,  \* history: bodies answered since their loop or its key was lost
  raced,     \* history: loops whose agent and effort were checked against a stale row
  request

cvars == <<row, known, answered, raced, request>>

Fields == {"name", "tags", "schedule", "workdir", "agent", "model", "reasoningEffort",
           "prompt", "enabled"}
Agents == {"claude-code", "codex", "pi"}
PiThinking == {"high"}
Crons == {"hourly", "daily"}
SafeRetainedCron == "yearly"
Timezones == {"UTC"}

-----------------------------------------------------------------------------
(* Validation.                                                             *)

Has(raw, f) == f \in DOMAIN raw
Normalized(v) == IF v = "blank" THEN "null" ELSE v

ScheduleAccepted(s) ==
  \/ /\ s.mode = "cron" /\ DOMAIN s = {"mode", "cron", "timezone", "overlap"}
     /\ s.cron \in Crons \cup {SafeRetainedCron} /\ s.timezone \in Timezones
     /\ s.overlap \in {"skip", "queue-one"}
  \/ /\ s.mode = "continuous" /\ DOMAIN s = {"mode", "delayMinutes"}
     /\ s.delayMinutes >= 1

EffortFits(effort, agent) ==
  /\ effort # "bad"
  /\ agent = "pi" => Normalized(effort) \in PiThinking \cup {"null"}

RequiredText(v) == v \notin {"bad", "blank", "null"}
TagsFit(raw) == Has(raw, "tags") => raw.tags # "bad"

\* What is checked of a field alone, wherever it appears.
FieldsFit(raw) ==
  /\ DOMAIN raw \subseteq Fields
  /\ \A f \in DOMAIN raw \cap {"name", "prompt"} : RequiredText(raw[f])
  /\ Has(raw, "model") => raw.model # "bad"
  /\ TagsFit(raw)
  /\ Has(raw, "workdir") => raw.workdir \in {"posix", "windows"}
  /\ Has(raw, "schedule") => ScheduleAccepted(raw.schedule)
  /\ Has(raw, "agent") => raw.agent \in Agents
  /\ Has(raw, "enabled") => raw.enabled \in {"yes", "no"}

CreateAccepted(raw) ==
  /\ {"name", "workdir", "prompt", "schedule", "agent"} \subseteq DOMAIN raw
  /\ FieldsFit(raw)
  /\ Has(raw, "reasoningEffort") => EffortFits(raw.reasoningEffort, raw.agent)

EditAcceptedByField(loop, raw) ==
  /\ FieldsFit(raw)
  /\ Has(raw, "reasoningEffort") =>
       EffortFits(raw.reasoningEffort, IF Has(raw, "agent") THEN raw.agent ELSE loop.agent)

EditAccepted(loop, raw) ==
  /\ FieldsFit(raw)
  /\ Has(raw, "reasoningEffort") \/ Has(raw, "agent") =>
       EffortFits(IF Has(raw, "reasoningEffort") THEN raw.reasoningEffort ELSE loop.reasoningEffort,
                  IF Has(raw, "agent") THEN raw.agent ELSE loop.agent)

-----------------------------------------------------------------------------
(* Rows.                                                                   *)

\* The columns of a schedule; a continuous loop keeps a cron that is not used.
RowSchedule(s, retained) ==
  IF s.mode = "cron"
  THEN [scheduleMode |-> "cron", cron |-> s.cron, timezone |-> s.timezone,
        cronOverlap |-> s.overlap, continuousDelayMinutes |-> 1]
  ELSE [scheduleMode |-> "continuous", cron |-> retained, timezone |-> "null",
        cronOverlap |-> "queue-one", continuousDelayMinutes |-> s.delayMinutes]

\* What f gives, or g where f gives nothing.  (The provers do not know @@ of TLC.)
Over(f, g) == [x \in DOMAIN f \cup DOMAIN g |-> IF x \in DOMAIN f THEN f[x] ELSE g[x]]

\* The columns a body writes.
Update(raw, retained) ==
  LET plain == [f \in DOMAIN raw \ {"schedule"} |-> Normalized(raw[f])]
  IN  IF Has(raw, "schedule") THEN Over(plain, RowSchedule(raw.schedule, retained)) ELSE plain

Defaults == [tags |-> "none", model |-> "null", reasoningEffort |-> "null", enabled |-> "yes"]
CreatedRow(raw) == Over(Update(raw, SafeRetainedCron), Defaults)

\* scheduleFromLoop
ScheduleFromLoop(loop) ==
  IF loop.scheduleMode = "cron"
  THEN [mode |-> "cron", cron |-> loop.cron, timezone |-> loop.timezone, overlap |-> loop.cronOverlap]
  ELSE [mode |-> "continuous", delayMinutes |-> loop.continuousDelayMinutes]

CanonicalLoopEnvelope(loop) ==
  [f \in Fields |-> IF f = "schedule" THEN ScheduleFromLoop(loop) ELSE loop[f]]

Unborn == [name |-> "unborn"]
Deleted == [name |-> "deleted"]
Present(l) == row[l] \notin {Unborn, Deleted}

-----------------------------------------------------------------------------
(* Requests.                                                               *)

NoRequest == [at |-> "idle"]
Forgiven(bodies) ==
  [h \in Requests |-> IF request[h].at = "keyed" /\ request[h].body \in bodies
                      THEN [request[h] EXCEPT !.owed = FALSE] ELSE request[h]]
Ends(h) == request' = [request EXCEPT ![h] = NoRequest]

\* A refused or dry request ends here, and leaves nothing.
SendCreate(h) ==
  /\ request[h].at = "idle"
  /\ \E body \in Creates : /\ CreateAccepted(body)
                           /\ request' = [request EXCEPT ![h] =
                                [at |-> "keyed", body |-> body, owed |-> body \in answered, id |-> NoId]]
  /\ UNCHANGED <<row, known, answered, raced>>

Existing(body) == IF known[body] # NoId /\ Present(known[body]) THEN known[body] ELSE NoId

\* Nothing awaits between the loop found and the answer.
ReadOnce(h) ==
  LET body == request[h].body
  IN  /\ request[h].at = "keyed"
      /\ known' = [known EXCEPT ![body] = NoId]
      /\ IF Existing(body) = NoId
         THEN request' = [request EXCEPT ![h].at = "insert"] /\ UNCHANGED answered
         ELSE answered' = answered \cup {body} /\ Ends(h)
      /\ UNCHANGED <<row, raced>>

ReadKey(h) ==
  LET body == request[h].body
  IN  /\ request[h].at = "keyed"
      /\ IF Existing(body) = NoId
         THEN request' = [request EXCEPT ![h].at = "insert"] /\ UNCHANGED answered
         ELSE answered' = answered \cup {body} /\ Ends(h)
      /\ UNCHANGED <<row, known, raced>>

InsertLoop(h) ==
  /\ request[h].at = "insert"
  /\ \E l \in Ids : /\ row[l] = Unborn
                    /\ row' = [row EXCEPT ![l] = CreatedRow(request[h].body)]
                    /\ request' = [request EXCEPT ![h].at = "record", ![h].id = l]
  /\ UNCHANGED <<known, answered, raced>>

\* Nothing awaits between the key and the answer.
RecordKey(h) ==
  LET body == request[h].body
      lost == IF Present(request[h].id) THEN {} ELSE {body}
  IN  /\ request[h].at = "record"
      /\ known' = [known EXCEPT ![body] = request[h].id]
      /\ answered' = (answered \cup {body}) \ lost
      /\ request' = [Forgiven(lost) EXCEPT ![h] = NoRequest]
      /\ UNCHANGED <<row, raced>>

\* An empty patch, a refused one and a dry one change nothing.
SendEdit(h) ==
  /\ request[h].at = "idle"
  /\ \E l \in Ids, p \in Patches :
       /\ Present(l) /\ EditAccepted(row[l], p) /\ DOMAIN p # {}
       /\ request' = [request EXCEPT ![h] = [at |-> "write", id |-> l, patch |-> p, read |-> row[l]]]
  /\ UNCHANGED <<row, known, answered, raced>>

\* The pair was checked with the half of it that was read.
PairIsStale(r, now) ==
  \/ Has(r.patch, "agent") /\ ~Has(r.patch, "reasoningEffort")
       /\ r.read.reasoningEffort # now.reasoningEffort
  \/ Has(r.patch, "reasoningEffort") /\ ~Has(r.patch, "agent") /\ r.read.agent # now.agent

WriteEdit(h) ==
  LET r == request[h]
      l == r.id
  IN  /\ r.at = "write"
      /\ IF Present(l)
         THEN /\ row' = [row EXCEPT ![l] = Over(Update(r.patch, r.read.cron), @)]
              /\ raced' = IF DOMAIN r.patch \cap {"agent", "reasoningEffort"} = {} THEN raced
                          ELSE IF PairIsStale(r, row[l]) THEN raced \cup {l} ELSE raced \ {l}
         ELSE UNCHANGED <<row, raced>>
      /\ Ends(h)
      /\ UNCHANGED <<known, answered>>

-----------------------------------------------------------------------------
(* What happens around them.                                               *)

\* 15 minutes after it was recorded.
ForgetKey(body) ==
  /\ known[body] # NoId
  /\ known' = [known EXCEPT ![body] = NoId]
  /\ answered' = answered \ {body}
  /\ request' = Forgiven({body})
  /\ UNCHANGED <<row, raced>>

DeleteLoop(l) ==
  LET lost == {body \in Creates : known[body] = l}
  IN  /\ Present(l)
      /\ row' = [row EXCEPT ![l] = Deleted]
      /\ answered' = answered \ lost /\ raced' = raced \ {l}
      /\ request' = Forgiven(lost)
      /\ UNCHANGED known

\* The handlers of the old process are gone with its map.
RestartServer ==
  /\ known' = [body \in Creates |-> NoId]
  /\ answered' = {}
  /\ request' = [h \in Requests |-> NoRequest]
  /\ UNCHANGED <<row, raced>>

-----------------------------------------------------------------------------
ConfigInit ==
  /\ row = [l \in Ids |-> Unborn]
  /\ known = [body \in Creates |-> NoId]
  /\ answered = {} /\ raced = {}
  /\ request = [h \in Requests |-> NoRequest]

ConfigNext ==
  \/ \E h \in Requests : \/ SendCreate(h) \/ ReadKey(h) \/ InsertLoop(h) \/ RecordKey(h)
                         \/ SendEdit(h) \/ WriteEdit(h)
  \/ \E body \in Creates : ForgetKey(body)
  \/ \E l \in Ids : DeleteLoop(l)
  \/ RestartServer

ConfigSpec == ConfigInit /\ [][ConfigNext]_cvars

-----------------------------------------------------------------------------
(* Properties.                                                             *)

\* Whatever is edited, in whatever order, a loop's envelope (show --json) is a body that
\* create accepts and that gives the same configuration: no sequence of partial edits
\* leaves an agent with an effort it does not know, or half of a schedule.  Only two edits
\* that overlap, one of the agent and one of the effort, may leave such a pair; the
\* columns of a schedule are written together, and fit each other even then.
EnvelopeIsCreatable ==
  \A l \in Ids : Present(l) =>
    LET envelope == CanonicalLoopEnvelope(row[l])
    IN  /\ ScheduleAccepted(envelope.schedule)
        /\ l \notin raced => /\ CreateAccepted(envelope)
                             /\ CanonicalLoopEnvelope(CreatedRow(envelope)) = envelope

\* A create that is repeated after it was answered makes no second loop, as long as
\* its key and its loop are there.  (Two that overlap may make one each.)
RetriesCreateOnce ==
  \A h \in Requests : request[h].at \in {"insert", "record"} => ~request[h].owed
=============================================================================
