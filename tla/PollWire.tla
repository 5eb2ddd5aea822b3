------------------------------ MODULE PollWire ------------------------------
(***************************************************************************)
(* One poll on the wire: what a daemon of some version asks, what the      *)
(* server answers and what the daemon makes of the answer                  *)
(* (packages/daemon/src/daemon.ts, poll-protocol.ts; the server's          *)
(* routes/api.machine.poll.ts, gateway/index.ts, http.ts, delivery.ts).    *)
(*                                                                         *)
(* A claim is durable before the answer leaves: an answer the daemon does  *)
(* not take strands a run until the sweep gives it up.  A delivery is made *)
(* of a row that create or edit let in (LoopConfig) and of a memory that   *)
(* the server let in, each by its own check; the daemon decodes it with    *)
(* checks of its own, and refuses the whole answer if one field fails.     *)
(*                                                                         *)
(* One daemon, one loop and its current run.  Who else may claim, and when *)
(* a run is queued, is the subject of RunStore and Wakeups.                *)
(***************************************************************************)
EXTENDS LoopConfig, Integers, Sequences

CONSTANTS
  Versions,   \* package versions of daemons: [core, pre, strict, long]
  NoVersion,  \* package.json could not be read
  Protocols   \* protocol numbers of daemons

VARIABLES
  daemon,     \* the daemon process: its build, and the run it executes
  recorded,   \* machines.daemonProtocol
  run,        \* the current run of the loop
  memory,     \* loops.memory
  exchange    \* the poll that is under way

xvars == <<daemon, recorded, run, memory, exchange>>

DaemonProtocolVersion == 7
MinDaemonVersion == [core |-> <<6, 0, 0>>, pre |-> FALSE, strict |-> TRUE, long |-> FALSE]

-----------------------------------------------------------------------------
(* Versions and memories.                                                  *)

\* isOutdated: a pre-release is older than its release.
IsOutdated(v, latest) ==
  \/ \E i \in 1..3 : v.core[i] < latest.core[i] /\ \A j \in 1..(i - 1) : v.core[j] = latest.core[j]
  \/ v.core = latest.core /\ v.pre /\ ~latest.pre

IsValidSemver(v) == v.strict
DaemonNeedsUpdate(v) ==
  \/ v = NoVersion
  \/ ~IsValidSemver(v)
  \/ IsOutdated(v, MinDaemonVersion)

\* The cap counts code points on both sides.
Memories == {"short", "full", "over", "binary"}
MemoryIssue(text) == text \in {"over", "binary"}

-----------------------------------------------------------------------------
(* What the daemon asks.                                                   *)

Body == [protocolVersion |-> daemon.protocol, version |-> daemon.version,
         currentRuns |-> daemon.executes]

\* A daemon that is starting again polls with whatever it was upgraded to.
SendBody ==
  /\ exchange.at = "none"
  /\ exchange' = [at |-> "asked", body |-> Body]
  /\ UNCHANGED <<daemon, recorded, run, memory>>

-----------------------------------------------------------------------------
(* What the server answers.                                                *)

\* machineJsonRoute, parsePollBody and pollV4's second look at the same fields: of what
\* a daemon sends only its version can be refused, for its length.
ValidOptionalPollString(v) == v # NoVersion => ~v.long
ParsePollBody(body) == ValidOptionalPollString(body.version)

Rejected == [at |-> "rejected"]
RejectBody ==
  /\ exchange.at = "asked" /\ ~ParsePollBody(exchange.body)
  /\ exchange' = Rejected
  /\ UNCHANGED <<daemon, recorded, run, memory>>

NoDelivery == [loop |-> "none"]
BuildDelivery(loop) ==
  [loop |-> [name |-> loop.name, workdir |-> loop.workdir, model |-> loop.model,
             reasoningEffort |-> loop.reasoningEffort, agent |-> loop.agent],
   runIndex |-> 1, task |-> loop.prompt, memory |-> memory]

TheLoop == CHOOSE l \in Ids : Present(l)

\* A queued run is claimed, unless the daemon is too old or executes one of this loop.
ClaimsWhoeverAsks(body) == run.phase = "queued" /\ ~body.currentRuns
Claims(body) ==
  /\ ~DaemonNeedsUpdate(body.version)
  /\ run.phase = "queued" /\ ~body.currentRuns

Answer(delivery, body) ==
  [at |-> "answered", delivery |-> delivery,
   cancels |-> body.currentRuns /\ run.phase = "running" /\ run.cancel,
   needsUpdate |-> DaemonNeedsUpdate(body.version)]

\* pollV4: protocol, version gate, claim, protocol written, cancellations read.
PollV4 ==
  LET body == exchange.body
      claimed == Claims(body)
  IN  /\ exchange.at = "asked" /\ ParsePollBody(body)
      /\ recorded' = body.protocolVersion
      /\ IF body.protocolVersion # DaemonProtocolVersion
         THEN exchange' = Rejected /\ UNCHANGED run
         ELSE /\ run' = IF claimed THEN [run EXCEPT !.phase = "running"] ELSE run
              /\ exchange' = Answer(IF claimed THEN BuildDelivery(row[TheLoop]) ELSE NoDelivery, body)
      /\ UNCHANGED <<daemon, memory>>

-----------------------------------------------------------------------------
(* What the daemon makes of it.                                            *)

Text(v) == v \notin {"null", "blank", "bad"}
NullableText(v) == v = "null" \/ Text(v)

\* path.isAbsolute: Windows takes both forms, POSIX its own.
IsAbsolute(workdir) == daemon.platform = "windows" \/ workdir = "posix"

DecodeLoop(loop) ==
  /\ Text(loop.name) /\ Text(loop.workdir) /\ IsAbsolute(loop.workdir)
  /\ NullableText(loop.model) /\ NullableText(loop.reasoningEffort)
  /\ loop.agent \in {"claude-code", "codex", "pi"}

DecodeMemory(text) == text \in {"short", "full"}

\* The check of the allowed roots is left out: nothing in the repository ever sets
\* machines.roots, so that every answer carries an empty list.
DecodeDelivery(delivery) ==
  delivery # NoDelivery =>
    /\ delivery.runIndex >= 1 /\ Text(delivery.task)
    /\ DecodeLoop(delivery.loop) /\ DecodeMemory(delivery.memory)

\* parsePollResponse
Decodes(answer) ==
  /\ DecodeDelivery(answer.delivery)
  /\ answer.needsUpdate => answer.delivery = NoDelivery

\* Nothing of an answer is applied unless all of it decodes.
TakeAnswer ==
  /\ exchange.at = "answered" /\ Decodes(exchange)
  /\ daemon' = [daemon EXCEPT !.stopping = @ \/ (exchange.cancels /\ daemon.executes),
                              !.executes = @ \/ exchange.delivery # NoDelivery]
  /\ exchange' = [at |-> "none"]
  /\ UNCHANGED <<recorded, run, memory>>

RefuseAnswer ==
  /\ exchange.at = "answered" /\ ~Decodes(exchange)
  /\ exchange' = [at |-> "refused", answer |-> exchange]
  /\ UNCHANGED <<daemon, recorded, run, memory>>

\* It polls again; a request or an answer may have been lost on the way.
PollAgain ==
  /\ exchange.at # "none"
  /\ exchange' = [at |-> "none"]
  /\ UNCHANGED <<daemon, recorded, run, memory>>

-----------------------------------------------------------------------------
(* What happens around it.                                                 *)

\* stopRun: a daemon of another protocol is not asked to stop a run.
StopRun ==
  /\ run.phase = "running" /\ recorded = DaemonProtocolVersion
  /\ run' = [run EXCEPT !.cancel = TRUE]
  /\ UNCHANGED <<daemon, recorded, memory, exchange>>

EditMemory ==
  /\ \E text \in Memories : ~MemoryIssue(text) /\ memory' = text
  /\ UNCHANGED <<daemon, recorded, run, exchange>>

\* The run is over, by its report or by the sweep, and the next one is queued.
NextRun ==
  /\ run.phase = "running"
  /\ run' = [phase |-> "queued", cancel |-> FALSE]
  /\ daemon' = [daemon EXCEPT !.executes = FALSE, !.stopping = FALSE]
  /\ UNCHANGED <<recorded, memory, exchange>>

Daemons == [protocol : Protocols, version : Versions \cup {NoVersion},
            platform : {"posix", "windows"}, executes : {FALSE}, stopping : {FALSE}]

RestartDaemon ==
  /\ \E d \in Daemons : d.platform = daemon.platform /\ daemon' = d
  /\ exchange' = [at |-> "none"]
  /\ UNCHANGED <<recorded, run, memory>>

-----------------------------------------------------------------------------
WireInit ==
  /\ daemon \in Daemons
  /\ recorded \in Protocols /\ memory = "short"
  /\ run = [phase |-> "queued", cancel |-> FALSE]
  /\ exchange = [at |-> "none"]

WireNext ==
  \/ SendBody \/ RejectBody \/ PollV4 \/ TakeAnswer \/ RefuseAnswer \/ PollAgain
  \/ StopRun \/ EditMemory \/ NextRun \/ RestartDaemon

\* There is a loop to poll for, and it is configured meanwhile.
Configured == \E l \in Ids : Present(l)
WireSpec ==
  /\ ConfigInit /\ WireInit
  /\ [][\/ ConfigNext /\ UNCHANGED xvars
        \/ Configured /\ WireNext /\ UNCHANGED cvars]_<<cvars, xvars>>

-----------------------------------------------------------------------------
(* Properties.                                                             *)

\* Whatever configuration, memory, version and stop request the server let in, the daemon
\* takes the answer made of them: the run that was claimed for it starts and the stop that
\* was asked for is carried out.  The one exception is a loop whose work directory is
\* absolute on Windows only, given to a daemon that runs elsewhere.
AnswersAreTaken ==
  exchange.at = "refused" =>
    /\ exchange.answer.delivery # NoDelivery
    /\ exchange.answer.delivery.loop.workdir = "windows" /\ daemon.platform = "posix"
=============================================================================
