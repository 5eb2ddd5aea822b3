----------------------------- MODULE ReportWire -----------------------------
(***************************************************************************)
(* One terminal report on the wire: what the daemon makes of an attempt    *)
(* (executeDelivery of daemon/runner.ts, collectMemory), what the server   *)
(* reads in it (gateway/http.ts, validateTerminalReport and reportOutcome  *)
(* of gateway/index.ts, parseFinalStatus of prompt.ts), and what the       *)
(* daemon makes of the answer (sendTerminalReport of report-outbox.ts).    *)
(*                                                                         *)
(* The row leaves the outbox at a definitive answer only, and a run is     *)
(* settled by the first report the server decides on: a report that is     *)
(* refused for its form, or read as something else, costs a run its result *)
(* and an answer that is not recognised keeps the loop occupied.           *)
(*                                                                         *)
(* One report, and no other request at the same time; what interleaves     *)
(* with report() is in ReportHandler.  A hash is the text it is made of.   *)
(***************************************************************************)
EXTENDS PollWire

CONSTANTS
  Attempts    \* how runs end on the machine

VARIABLES
  attempt,
  outboxRow,  \* the row of pending_reports: NoRow before and after
  lease,      \* "active", "terminal-grace", "reconciliation-only", "retired", "gone"
  foreign,    \* its reportId was committed for another run
  verdict,    \* what the server has decided, durably
  reply       \* the answer under way

repVars == <<attempt, outboxRow, lease, foreign, verdict, reply>>

\* kinds of line; "none needed" is a finding that says there is none
Lines == {"blank", "text", "finding", "none needed", "ok", "block"}
\* ending: "refused" before its provider was to be spawned, "broken" by an error event: it
\* was not spawned, or runProcess rejected later, whatever the daemon was about to do with it
Attempt == [ending : {"refused", "broken", "exit", "timeout", "canceled"},
            code : {"zero", "small", "large", "null"}, isError : BOOLEAN,
            stderr : {"some", "timed out"}, usage : {"none", "counts", "odd"},
            text : Seq(Lines), file : Memories \cup {"same", "special"},
            duration : {"counts", "odd"}, long : BOOLEAN]
ASSUME AttemptsAssumption == Attempts \subseteq Attempt

NoRow == [reportId |-> "none"]
NoVerdict == [kind |-> "none"]
NoReply == [status |-> 0]

-----------------------------------------------------------------------------
(* The daemon: an attempt becomes a report.                                *)

\* What the agent exited with decides only if the daemon did not end it.
Succeeded(a) == a.ending = "exit" /\ ~a.isError /\ a.code = "zero"
ErrorOf(a) ==
  CASE a.ending = "timeout" -> "timed out"
    [] a.ending = "canceled" -> "canceled"
    [] a.ending = "exit" -> IF Succeeded(a) THEN "none" ELSE a.stderr
    [] OTHER -> "some"

\* The text of an error decides as well.
ResultNamed(a) ==
  CASE ErrorOf(a) = "canceled" -> "canceled"
    [] Succeeded(a) -> "success"
    [] OTHER -> IF ErrorOf(a) = "timed out" THEN "timeout" ELSE "failure"

Untrusted(a) == ErrorOf(a) \in {"canceled", "timed out"}

\* The memory of a report and its notices.
Collected(a) ==
  IF a.ending = "refused" \/ a.file = "same" THEN [memory |-> "none", notices |-> 0]
  ELSE IF Untrusted(a) \/ a.file = "special" \/ MemoryIssue(a.file)
  THEN [memory |-> "none", notices |-> 1]
  ELSE [memory |-> a.file, notices |-> 0]

BuildReport(a) ==
  LET ran == a.ending \notin {"refused", "broken"}
  IN  [reportId |-> "id", result |-> ResultNamed(a),
       exitCode |-> IF ran THEN a.code ELSE "null",
       usage |-> IF ran THEN a.usage ELSE "none",
       finalText |-> IF ran THEN a.text ELSE <<>>,
       memory |-> Collected(a).memory, notices |-> Collected(a).notices,
       durationMs |-> a.duration, long |-> a.long]

PutRow ==
  /\ outboxRow = NoRow /\ verdict = NoVerdict /\ reply = NoReply
  /\ outboxRow' = BuildReport(attempt)
  /\ UNCHANGED <<attempt, lease, foreign, verdict, reply>>

-----------------------------------------------------------------------------
(* The server: a report becomes a verdict.                                 *)

\* readJsonBody: more than MACHINE_BODY_CAP bytes are not read to their end.
TooLarge(report) == report.long

\* Counts are whole and at most 10^12; exit codes and durations are of 31 bits.
CoerceTelemetry(report) ==
  [usage |-> IF report.usage = "odd" THEN "none" ELSE report.usage,
   exitCode |-> IF report.exitCode = "large" THEN "null" ELSE report.exitCode,
   durationMs |-> IF report.durationMs = "odd" THEN "null" ELSE report.durationMs]

ReportNoticesMax == 4
ValidReport(report) ==
  /\ report.result \in {"success", "failure", "canceled", "timeout"}
  /\ report.durationMs # "odd" /\ report.exitCode # "large"
  /\ report.usage # "odd"
  /\ report.memory \in Memories \cup {"none"}
  /\ report.notices <= ReportNoticesMax

\* The last line before n that is not blank, or 0.
Filled(text, n) ==
  LET filled == {i \in 1..n : text[i] # "blank"}
  IN  IF filled = {} THEN 0 ELSE CHOOSE i \in filled : \A j \in filled : j <= i

\* The lines that are left when findings are taken off the end of the first n.
Above(text) ==
  LET above[n \in 0..Len(text)] ==
        LET i == Filled(text, n)
        IN  IF i > 0 /\ text[i] \in {"finding", "none needed"} THEN above[i - 1] ELSE n
  IN  above

\* parseFinalStatus: the last line is the status, findings right above it are merged,
\* and what is above them is the summary.
NotParsed == [status |-> "none", findings |-> {}, summary |-> 0]
ParseFinalStatus(text) ==
  LET last == Filled(text, Len(text))
      above == Above(text)[last - 1]
  IN  IF last = 0 THEN NotParsed
      ELSE IF text[last] \notin {"ok", "block"} THEN NotParsed
      ELSE [status |-> text[last],
            findings |-> {i \in (above + 1)..last : text[i] = "finding"},
            summary |-> Filled(text, above)]

Outcome(phase) == [kind |-> "settled", phase |-> phase, attention |-> {}, summary |-> 0]
ReportOutcome(report) ==
  LET parsed == ParseFinalStatus(report.finalText)
  IN  CASE report.result = "canceled" -> Outcome("canceled")
        [] report.result # "canceled" /\ report.result # "success" -> Outcome("error")
        [] OTHER -> IF parsed.status = "none" THEN Outcome("error")
                    ELSE [Outcome("done") EXCEPT
                            !.attention = IF parsed.status = "ok" THEN parsed.findings ELSE {},
                            !.summary = parsed.summary]

TerminalMemory(report) ==
  IF report.memory = "none" \/ report.result \in {"canceled", "timeout"} \/ MemoryIssue(report.memory)
  THEN "none" ELSE report.memory

-----------------------------------------------------------------------------
(* Answers.                                                                *)

Ack(report) == [status |-> 200, body |-> [ok |-> TRUE, reportId |-> report.reportId]]
RetiredAck(report) ==
  [status |-> 410, body |-> [error |-> "execution authority retired", code |-> "RETIRED",
                             reportId |-> report.reportId]]
IncidentAck(report, code, disposition) ==
  [status |-> 200,
   body |-> [ok |-> TRUE, accepted |-> FALSE, terminal |-> TRUE, reportId |-> report.reportId,
             code |-> code, issues |-> <<"issue">>, disposition |-> disposition,
             payloadDigest |-> report]]

\* Of a token, of a lease that awaits its queue, of a failed transaction or of a proxy.
Unsettled == {[status |-> 401, body |-> [error |-> "invalid or expired token"]],
              [status |-> 409, body |-> [error |-> "not finalized", code |-> "REPORT_NOT_FINALIZED",
                                         reportId |-> "id"]],
              [status |-> 500, body |-> [error |-> "not ours"]]}
BodyTooLarge == [status |-> 413, body |-> [error |-> "body too large"]]

\* Of a lease that is not active, the run has ended already.
Disposition == IF lease = "active" THEN "run-error" ELSE "telemetry-rejected"

\* The verdict of report() on a report it has not seen.
Decide(report) ==
  LET incident(code) == [kind |-> code, ack |-> IncidentAck(report, code, Disposition)]
      settled == [ack |-> Ack(report), memory |-> TerminalMemory(report),
                  telemetry |-> CoerceTelemetry(report)]
  IN  CASE foreign -> incident("REPORT_CONFLICT")
        [] ~foreign /\ lease = "retired" -> [kind |-> "retired", ack |-> RetiredAck(report)]
        [] ~foreign /\ lease # "retired" /\ ~ValidReport(report) -> incident("REPORT_INVALID")
        [] OTHER -> [k \in {"kind", "phase", "attention", "summary", "ack", "memory", "telemetry"} |->
                       IF k \in DOMAIN settled THEN settled[k] ELSE ReportOutcome(report)[k]]

-----------------------------------------------------------------------------
(* A report is posted until its row is gone.                               *)

Posted == outboxRow # NoRow /\ reply = NoReply

RefuseBody ==
  /\ Posted /\ TooLarge(outboxRow)
  /\ reply' = BodyTooLarge
  /\ UNCHANGED <<attempt, outboxRow, lease, foreign, verdict>>

HandleReport ==
  /\ Posted /\ ~TooLarge(outboxRow) /\ verdict = NoVerdict /\ lease # "gone"
  /\ verdict' = Decide(outboxRow) /\ lease' = "gone"
  /\ reply' = verdict'.ack
  /\ UNCHANGED <<attempt, outboxRow, foreign>>

Replay ==
  /\ Posted /\ ~TooLarge(outboxRow) /\ verdict # NoVerdict
  /\ reply' = verdict.ack
  /\ UNCHANGED <<attempt, outboxRow, lease, foreign, verdict>>

\* Somebody else was faster, the lease is gone, or a transaction or a proxy failed.
AnswerUnsettled ==
  /\ Posted /\ reply' \in Unsettled
  /\ UNCHANGED <<attempt, outboxRow, lease, foreign, verdict>>

\* The sweep gives the run up, the poll disowns it, time retires and prunes the lease.
LeaseAges ==
  /\ lease' = CASE lease = "active" -> "terminal-grace"
                [] lease = "terminal-grace" -> "reconciliation-only"
                [] lease = "reconciliation-only" -> "retired"
                [] OTHER -> "gone"
  /\ verdict = NoVerdict /\ lease # "gone"
  /\ UNCHANGED <<attempt, outboxRow, foreign, verdict, reply>>

-----------------------------------------------------------------------------
(* The daemon: an answer ends the row or does not.                         *)

IsNormalAck(r, sent) ==
  r.status = 200 /\ DOMAIN r.body = {"ok", "reportId"} /\ r.body.ok /\ r.body.reportId = sent.reportId

HandledFields == {"accepted", "code", "disposition", "issues", "ok", "payloadDigest", "reportId",
                  "terminal"}
IsHandledAckOfRun(r, sent) ==
  /\ r.status = 200 /\ DOMAIN r.body = HandledFields
  /\ r.body.ok /\ ~r.body.accepted /\ r.body.terminal
  /\ r.body.reportId = sent.reportId /\ r.body.payloadDigest = sent
  /\ r.body.code \in {"REPORT_CONFLICT", "REPORT_INVALID"} /\ r.body.disposition = "run-error"
IsHandledAck(r, sent) ==
  /\ r.status = 200 /\ DOMAIN r.body = HandledFields
  /\ r.body.ok /\ ~r.body.accepted /\ r.body.terminal
  /\ r.body.reportId = sent.reportId /\ r.body.payloadDigest = sent
  /\ r.body.code \in {"REPORT_CONFLICT", "REPORT_INVALID"}
  /\ r.body.disposition \in {"run-error", "telemetry-rejected"}

IsRetiredAck(r, sent) ==
  /\ r.status = 410 /\ DOMAIN r.body = {"code", "error", "reportId"}
  /\ r.body.code = "RETIRED" /\ r.body.error = "execution authority retired"
  /\ r.body.reportId = sent.reportId

Definitive(r, sent) == IsNormalAck(r, sent) \/ IsHandledAck(r, sent) \/ IsRetiredAck(r, sent)

\* Or the answer was lost, and it is sent again.
TakeReply ==
  /\ outboxRow # NoRow /\ reply # NoReply
  /\ IF Definitive(reply, outboxRow)
     THEN outboxRow' = NoRow /\ UNCHANGED reply
     ELSE reply' = NoReply /\ UNCHANGED outboxRow
  /\ UNCHANGED <<attempt, lease, foreign, verdict>>

LoseReply ==
  /\ outboxRow # NoRow /\ reply # NoReply
  /\ reply' = NoReply
  /\ UNCHANGED <<attempt, outboxRow, lease, foreign, verdict>>

-----------------------------------------------------------------------------
ReportInit ==
  /\ attempt \in Attempts
  /\ outboxRow = NoRow /\ verdict = NoVerdict /\ reply = NoReply
  /\ lease = "active" /\ foreign \in BOOLEAN

ReportNext ==
  \/ PutRow \/ RefuseBody \/ HandleReport \/ Replay \/ AnswerUnsettled
  \/ LeaseAges \/ TakeReply \/ LoseReply

ReportSpec == ReportInit /\ [][ReportNext]_repVars

-----------------------------------------------------------------------------
(* Properties.                                                             *)

\* The daemon forgets a report exactly when it hears what the server has decided on it,
\* however often it had to ask and whatever it heard meanwhile.
VerdictsAreHeard ==
  /\ outboxRow = NoRow /\ reply # NoReply => verdict # NoVerdict
  /\ outboxRow # NoRow /\ reply # NoReply =>
       (Definitive(reply, outboxRow) <=> verdict # NoVerdict /\ reply = verdict.ack)

\* A report is refused for its form only for numbers the server does not take: more than
\* 10^12 or fractions of tokens, an exit code beyond 31 bits (Windows has them), or a
\* duration below zero (the clock was set back) or of more than 24 days.
FormIsAccepted ==
  verdict # NoVerdict /\ verdict.kind = "REPORT_INVALID" =>
    attempt.code = "large" \/ attempt.usage = "odd" \/ attempt.duration = "odd"

\* What the server settles is what happened: a run is done if its agent ended by itself,
\* well, and said so in its last line; canceled if it was; every finding right above that
\* line is in the attention of an ok run and out of its summary; and no memory is
\* taken from an agent that was ended, unless an error event broke its run before.
VerdictIsTrue ==
  verdict # NoVerdict /\ verdict.kind = "settled" =>
    LET text == attempt.text
        last == Filled(text, Len(text))
        said == last > 0 /\ text[last] \in {"ok", "block"}
    IN  /\ verdict.phase = "done" <=> Succeeded(attempt) /\ said
        /\ verdict.phase = "canceled" <=> attempt.ending = "canceled"
        /\ verdict.phase = "done" /\ text[last] = "ok" =>
             /\ {i \in 1..last : text[i] = "finding" /\ \A j \in i..(last - 1) : text[j] # "text"
                                   /\ text[j] # "ok" /\ text[j] # "block"} = verdict.attention
             /\ verdict.summary > 0 => text[verdict.summary] \notin {"finding", "none needed", "blank"}
        /\ verdict.memory # "none" =>
             /\ attempt.ending \notin {"canceled", "timeout"}
             /\ verdict.memory = attempt.file /\ ~MemoryIssue(attempt.file)

\* Daemon and server understand each other: a poll's answer is taken (AnswersAreTaken of
\* PollWire), a report is decided on as what it says, and the decision is heard.
EndsAgree == AnswersAreTaken /\ VerdictsAreHeard /\ FormIsAccepted /\ VerdictIsTrue
=============================================================================
