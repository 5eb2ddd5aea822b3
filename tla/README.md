# Pievo in TLA+

Pievo runs *loops*: prompts that a coding agent executes again and again on the
owner's machine. A server keeps the loops, decides when a run is due and records
how it ended; a daemon on the machine polls the server, executes what it is
handed as an agent process, and reports. This directory specifies that protocol
in TLA+, model-checks it with TLC and proves every safety property of it with TLAPS.

## 1. Inventory

Paths are relative to `src/packages/server/src` (S) and `src/packages/daemon/src` (D).

| Component | State | Operations | What is hard |
|---|---|---|---|
| **Run store** (S/db/store.ts, S/db/schema.ts) | tables `loops`, `runs`, `run_leases`, `run_report_receipts`, `terminal_report_incidents` | one transaction per operation: create, edit, pause, start, stop, delete, enqueue, claim, heartbeat, finalize, reject, reclaim, reconcile, expire, retire | a run and its lease live in two tables and are moved by a dozen transactions; a swept run may still be executing; late and duplicate reports |
| **Run leases** (S/gateway/tokens.ts) | lease rows: active → terminal-grace → reconciliation-only → retired → gone | resolve, terminalize, retire, prune | authority that expires between a read and the transaction that uses it |
| **Gateway: reports** (S/gateway/index.ts 134-276, 776-1121; S/gateway/prompt.ts) | none of its own | `report()` and the dozen ways it may end | reads, awaits, then a transaction: duplicates, sweeps and deletions commit in between; what is refused for its form costs a run its result |
| **Gateway: polls** (S/gateway/index.ts 305-347, 424-584) | `pollWaiters`, `dispatcher` | refresh heartbeats, release absent reconciliations, advance schedules, claim, wait | a poll carries a snapshot of what the daemon held when it was *sent*; a waiter is superseded, a wake may come before anyone sleeps |
| **Sweep** (S/gateway/index.ts 356-422) | none | reclaim silent runs, expire queued runs of offline machines, retry deletions, prune leases | acts on rows it read before it awaited |
| **Scheduler timers** (S/scheduler/index.ts, S/server/boot.ts) | one process-local timer per loop | start, arm, remove, fire | a timer is only a hint; the durable cadence decides |
| **Loop configuration** (S/gateway/loopConfig.ts, `createLoop` and `editLoop` of S/gateway/index.ts, S/server/loopApi.ts) | the configuration columns of `loops`, `newIdempotency` | create, edit, canonical envelope | a create is repeated while the first one is under way; an edit is validated against a row that has changed when it is written |
| **Owner API** (S/server/loopApi.ts, machineFns.ts) | none | one verb, one store transaction | races every other actor |
| **The wire** (S/routes, S/gateway/http.ts, delivery.ts; D/poll-protocol.ts, daemon.ts, report-outbox.ts) | `machines.daemonProtocol` | poll body, version gate, delivery, report body, answer | each side checks what the other sends with checks of its own, and a claim is durable before its answer is decoded |
| **Daemon runtime** (D/daemon.ts, report-outbox.ts) | `active`, `executions`, the durable outbox, the drain | poll, accept, cancel, put report, drain with workers and back-off, acknowledge, shutdown | lost polls and reports, kill and restart between any two steps; a report that keeps failing beside others |
| **Agent processes** (D/spawn.ts, runner.ts) | one process group per run, its timers | spawn, timeout, abort, kill, settle | timeout, cancel, shutdown and exit race; helpers keep pipes open; a killed daemon leaves the group behind |
| **Agent telemetry** (D/telemetry.ts) | the collector of one attempt | one event of Claude Code, Codex or pi; the end of the stream | three ways to count tokens, and a stream that is cut anywhere |
| **Daemon control** (D/daemon-lifecycle.ts, daemon-control.ts, pidfile.ts) | pid file, active connection, the daemon processes | start, stop, restart, connect | two daemons for one machine; a stale record whose pid is used again; a server that still shows a daemon that is gone |
| **Server launcher** (`packages/server/scripts`) | launch lock, pid record, launch nonce | start, stop, restart of the server | two launchers recover one stale lock; a stop in the middle of a launch |
| **Loop memory** (S/gateway/memory.ts, D/memory.ts, D/loop-files.ts) | `loops.memory`, a run's `memoryBaseHash` | deliver, merge on report, overwrite by the owner | optimistic merge against edits and late reports |

Not modelled (section 8): authentication and enrollment, the agent's CLI verbs,
history rendering, the dashboard, the owner's command line, the callback command,
the skill installer, the bootstrap of the database.

How they interact. The owner's CLI and the dashboard call the owner API; the
daemon calls the gateway over HTTP (poll, report, and the agent's CLI verbs);
the gateway, the sweep timer and the scheduler timers all end in transactions of
the run store, each of which locks its loop row first. The store therefore
serialises a loop, and everything that is hard lies in *what the callers
believed* when they opened the transaction. `PROJECT.json` lists these hazards at
their lines.

What makes each part correct:

* store: one run of a loop holds authority at a time; run and lease rows agree;
  only what may start is queued; history numbers are never reused; a lease is
  given up only against durable evidence; evidence never changes; only settled
  results trip the breaker; a continuous loop keeps itself going; a requested
  deletion completes.
* report handling: whatever commits between its reads, a report gets one verdict,
  an acknowledgement is backed by durable evidence, and a replay is told the same.
* polls and daemon: the daemon never executes two runs of a loop, a poll with an
  old snapshot never frees a loop that is executing, every finished run is
  eventually reported, the outbox drains, one report that fails for ever included.
* hints: a due cadence is eventually materialised; a stale timer changes nothing; no
  poll sleeps beside a run it could take; a run its owner asked for is not expired.
* configuration: what is stored would be accepted again, overlapping edits of agent
  and effort apart; a repeated create makes no second loop.
* the wire: neither end refuses what the other lets through; the verdict on a
  report is the one its run deserves, and the daemon hears it.
* memory: a report replaces only the memory it was based on.
* agent processes: the first cause of the end wins, and the end is reported.
* telemetry: the tokens reported are the attempt's own.
* daemon control: one daemon per machine, and stop means stopped.
* server launcher: one server per data directory, and stop means stopped.

## 2. Plan

Done, in this order:

1. `RunStore`, its abstract specification `RunLedger`, and `RunStoreProofs`.
2. `ReportHandler`: `report()` as concurrent multi-step handlers over the store.
3. `Daemon`: daemon, outbox, polls in flight and sweep, composed with the store.
   It implements `RunStore!Spec`; that and its safety are proved in `DaemonProofs`.
4. `LoopMemory`: the texts that travel through `Daemon`.
5. `DaemonControl`: the commands that start, stop and switch the daemon.
6. `Wakeups`: the scheduler's timers, the long poll and the sweep's expiry together.
7. `RunProcess`: `runProcess` with its timers and signals.
8. `ReportDrain`: the queue, workers and back-off behind `Daemon!Report`.
9. `ServerControl`: the launch lock, pid record and nonce of `pievo-server`.
10. `LoopConfig`: configuration, idempotency of creates, overlapping edits.
11. `PollWire`, `ReportWire`, `Telemetry`: what the two sides and the agents say to
    each other, and what each makes of it.
12. Proofs: the remaining invariants of `RunStore` and its refinement of `RunLedger`,
    safety of the handlers, of `Wakeups` and of `ServerControl`.
13. Proofs: what keeps a loop going and what trips its breaker, the outbox, custody of swept
    runs, the texts of `LoopMemory` and its refinement of `Daemon`, one daemon for one
    command at a time, and the parts at the edges. Every invariant and every action property
    that a passing run checks is a theorem now.

Left, the most important first:

* Enrollment of a machine against its deletion (section 7, last remark), with the
  machine verbs of the owner.
* `RunProcess` as the agent of `Daemon`: a refinement in place of the argument in
  section 3; `ReportDrain` as the `Report` of `Daemon` likewise.
* Steps of the liveness arguments that need no fairness: what is enabled once the faults are
  spent, and what then only shrinks.

## 3. Modules

How they build on each other. `RunStore` is the database. `ReportHandler` and
`Daemon` extend it with the steps of its callers; `LoopMemory` extends `Daemon`.
`RunStore` is shown to implement `RunLedger`, and `ReportHandler` and `Daemon` to
implement `RunStore`. `PollWire` extends `LoopConfig` (a delivery is made of a row that
a create or an edit let in; `WireSpec` interleaves the two) and `ReportWire` extends `PollWire` (a report carries the
memory that was delivered). The others stand alone, each closer to its code than the
step it is in the composed system:

| Detail | What the composed system has instead |
|---|---|
| `ReportHandler`: `report()` await by await | the transactions of `RunStore`; `Daemon!Report` |
| `ReportWire`: what a report says and what is answered | a reportId, `valid` |
| `ReportDrain`: queue, workers, back-off | `Daemon!Report`, row by row |
| `RunProcess`: timers, signals, pipes | `Daemon!Spawn`, `Exit` |
| `PollWire`: bodies, versions, decoding | `Daemon!Send` to `Receive` |
| `Wakeups`: timers, waiters, expiry | `Daemon!PollAgain`, `RunStore!AdvanceSchedule` at any moment |
| `DaemonControl`, `ServerControl` | there is one daemon, there is one server |

The `MC*` modules hold symmetry sets, inputs and bounds; `MCHints` and `MCEdges` put
small instances of parts that share nothing into one run. A variable `part` says which
of them moves in a behaviour; nothing is claimed about their product.

### RunStore: the tables and every transaction

State. `machine` is the machine row. `loop[l]` is a row of `loops` with the columns
a transaction branches on (`enabled`, `mode`, `overlap`, `deleteRequestedAt` as
`deleting`, `lastRunIndex`, and `nextCadenceAt` as `cadence`). `run[r]` is the r-th
row ever inserted into `runs`, `lease[r]` its lease, `receipt` and `incident` the two
tables of evidence by reportId.

Actions. One action is one transaction of `store.ts`, with its whole body: e.g.
`FinalizeRunningRun` closes the run, lets the loop follow (`SettleRun`, the
function `terminalLifecycleTx`, including a block, the breaker, the cancellation
of the queued successor and its history number), deletes the lease and inserts
the receipt. *Who* calls a transaction and with what observations is left open:
`ClaimReadyRun` and `ReleaseAbsentReconciliations` take any snapshot `reported` of
runs once handed out. So the invariants hold for every order of callers.

Abstractions.

* Time is two facts: a cadence is in the future or due; a lease's expiry has
  elapsed or not. `CadenceFallsDue` and `LeaseElapses` may happen at any moment.
* `createdAt` is the insertion number, so the FIFO of the claim is by number.
* Loop ids are random in the code; here an id is used once.
* Texts, usage, cron expressions, `pauseCause` and the model names are left out. A
  continuous cadence retimed by an interval edit is left to `CadenceFallsDue`.
* `initializeCronCadence` and `repairTerminalRunLeases` are boot repairs. Their
  preconditions (an enabled cron loop without cadence; a terminal run with an
  active lease) are unreachable by the theorems `CadenceIsKept` and
  `AuthorityFollowsPhase`, so they are no-ops here.

### RunLedger: what the store promises

Each run passes the stages queued, executing, suspect, disowned and an outcome in
one direction; a settled outcome is frozen; no run of a loop starts while another
is executing or suspect. `RunStore!Ledger` maps a run row and its lease to a stage.

### ReportHandler: report(), await by await

State. `hd[h]` is a request in progress: the step it is about to take (`at`), what
it has read and still remembers, and the answer it will give. `body[r]` is the row
of the daemon's outbox for run r, `acked[r]` the definitive answer the daemon has
heard.

Actions. One step per database access of `report()` and of the functions it calls:
`Resolve` is `resolveLease`; `ReadReceipt`, `ReadIncident` and `ReadIncidents` are
the three reads of `committedReportEvidence`, which is entered for six reasons
(`why`); `Finalize`, `Reconcile`, `Reject`, `Retire`, `Conflict` and `Ignore` are the
transactions it can end in, each with the branch it takes when it lost;
`Reread`/`Reresolve` are `resolveLostTerminalRace`; `Unlease` is the second of the
two transactions of `ignoreCanceledReport`. A step keeps in `hd[h]` only what a
later step reads, which is what makes two handlers checkable. `Interfere` is
everybody else.

The initial state is one the system reaches: all runs but the last were swept and
disowned, the last one executes, and the daemon holds a report of each. A canceled
run always has its receipt (part of `History`, section 6), so `Ignore` and `Unlease`
find nothing left to write.

### Daemon: the machine's side, and polls in flight

State. `daemon` is the process; `held` its `active` map (`restored` entries come from
the outbox at a start and do not know their loop); `aborted` the reason in the run's
`AbortController`; `agent` the agent process, or its result before it is persisted;
`outbox` the durable rows. `poll["current"]` is the request the daemon waits for and
`poll["abandoned"]` one it gave up, which the server goes on serving. `silent` are
the runs whose heartbeat is older than `RUN_TIMEOUT_MS`, `swept` those of them the
sweep has read and not yet handled.

Actions. A poll is `Send`, `Heartbeat`, `Release` (which ends in the read of the due
loops), `Advance` (once per loop read), `Claim`, `Respond` and `Receive`, with `PollAgain`
for the second round of a long poll; all use the snapshot of the request. An execution is `Spawn` or `SkipSpawn`,
`Exit`, `Persist`, `Report`, `Acknowledge`. `Terminate`/`Stopped` are SIGTERM and
`waitForPersistence`; `Kill`, `Start`, `LosePoll` and `ServerRestarts` are the faults.
`SweepReads` and `SweepReclaims` are the two halves of `sweep()`.

Abstractions. A report is one step, because the handlers change nothing that
`RunStore` does not allow (`HandlersKeepToStore`). Its reportId is the run's number:
the daemon makes a fresh UUID per run. Drain order, back-off and the bytes of
reports are left out here; `ReportDrain`, `ReportWire` and `RunProcess` have them. So is
the error event of an agent that was started (`RunProcess!ErrorEvent`): it makes a failure
of a run that was canceled or timed out, and its agent may outlive the report. Of such
agents `OneAgentPerLoop` and `ReleasedRunsAreOver` say nothing.

### LoopMemory: a text that two parties write

`memory` is the column, `base[r]` what was delivered with r, `file[r]` what the agent
has made of the private copy, `sent[r]` the text in its report. Each step of `Daemon`
that touches a text is extended with it: `DeliverMemory` (claim), `PrepareMemory`
(before the spawn), `ExitWithMemory` (`collectMemory`), `ReportMemory`
(`applyMemoryUpdateTx` inside the terminal transaction). `WriteFile` is the agent and
`OwnerWrites` the unconditional write of `memory set`. A text records who wrote it
and whether it is whole, so hashes and texts are told apart alike; an owner who
writes an older text again (A, B, A) is not told apart by the code's hash, and is
left out here. So is the error event, after which the memory of an agent that was canceled
or timed out is collected as if it had ended by itself.

### DaemonControl: which process is the daemon

State. `proc[n]` is the n-th process of the machine: its pid, the server it read as
the active connection, how far it has come, and whether a poll of it has reached the
server. A process stands for its own start time, so `pidfile = n` is the pair of pid
and start time that `writePidFile` writes. `active` is the active connection, `parked`
the servers on which a long poll of a process that is gone still waits, and `cli[c]` a
command in progress with what it remembers: the record it read, the child it spawned,
whether it has seen a baseline heartbeat and a later one.

Actions. `Boot`, `ClearStale`, `WritePidFile`, `Handlers`, `Poll` and `Close` are the
daemon's own steps in `runDaemon`; `Die` and `Stranger` the operating system. A command
takes one step per look at or change to anything shared: `ReadRecord` to `ClearPid` are
`runDaemonStop`, `Look` to `NotReady` are `runDaemonStart`, and `restart` and `connect`
go from one to the other (`AfterStop`, `Save`). `LatePoll` is the stamp at the end of
`pollV4Wait`.

Abstractions. A pid is not handed out again between two system calls of one command
(the code checks identity and then signals by pid). `ps` and writing the pid file do not
fail, and a live child writes its pid file within the first 1.5 s of the readiness wait
(`Claimed`). The first connection of a machine (nothing active) is left out. The run has one
command at a time: there is no lock, and with two `OneDaemon` does not hold (section 7). A
foreground start by hand (`Foreground`) counts as a command until its process has claimed the
pid file. `seen` tells a stamp of a daemon that polls from the stamp of a poll that lingers;
no step of a command depends on the difference, only `ReadinessIsOwn` does.

### Wakeups: the hints

State. One loop of one machine: `row` (enabled, mode, overlap, cadence), `slot` the queued
run and who asked for it, `busy` the run that keeps others out: `held` by the daemon or
`lost` on its way there, and after the sweep gave it up `late` (the daemon has it still) or
`swept`; `over` is a late run whose fence is gone. `firing` is a timer's
callback await by await, `waking` a run-now call that has yet to wake the machine,
`req[q]` a poll the server has in hand and whether it names a run, `waiter` the one
registered in `pollWaiters`, `listening` the one the daemon waits for, `expiry` the queued
run the sweep read, `before` the requests sent before the last claim or reclaim.

Actions. A transaction that queues a run and the wake its caller sends when the await
returns are two steps (`FireAdvances`/`FireWakes`, `RunNow`/`RunNowWakes`,
`PollAdvances`/`PollHints`). `SendPoll` arms the waiter and wakes the one it supersedes;
`PollOnline`, `PollAdvances`, `PollHints`, `PollClaims` are the first poll; `Woken`
and `WaitEnds` the end of the wait. A daemon that holds a run names it and does not wait:
its poll lifts no fence (`Unfenced` is for the others) and claims nothing of this loop.
`SweepReclaims` gives up any run, also of a daemon that only slept; the fence then goes with
a poll that does not name the run, with the late report (`ReportRun`) or with `GraceEnds`.
`DaemonRestarts` forgets what has no report yet. `SweepReadsQueued` and `ExpireQueued` are the two
halves of the expiry. A timer fires at any moment (`Fire`): armed from a row its caller
read earlier, armed twice, or clipped by `setTimeout`'s limit.

Abstractions. How long a run was silent is not tracked: the sweep may take any. The daemon is
not an outdated one, to which a poll neither claims nor advances. A late report that meets
no fence any more only gets its receipt.

### ReportDrain: sendPending

`rows` are the outbox in order, `due` those whose back-off is over, `queue` the snapshot
the one drain works off, `sending[w]` what each worker sends, `stage` the daemon.
`PollTick` starts a drain if none runs, `PutReport` a forced one; `SendEnds` is the
worker's answer, definitive or not, after which it takes the next; a shutdown gives the
queue up (`StopDaemon`) and a kill leaves only the rows.

### RunProcess: runProcess and what a report names

`leader` and `helpers` are the process group, `abort` the reason of the `AbortController`,
`aborted`, `timedOut` and `killTimer` the locals of `runProcess`. `AbortRun` and `Timeout` send
SIGTERM and arm one SIGKILL (`KillGroup`); the agent may obey, trap or ignore; the process
settles on `close`, or one second after the exit whoever still holds its pipes. `ResultOf`
is the naming in `executeDelivery`. `SpawnFails` and `ErrorEvent` are the `error` event of
the child, before it runs and at any time after: `runProcess` rejects, drops its timers and
its abort listener, and the run is reported as a failure (`broken`), whatever was about to
end it. Without such an event an agent that was told to end is gone before its run is
reported, which is why `Daemon` lets it end in one step; its helpers may live on.

### ServerControl: the launchers of the server

State. `lock` and `record` are the two files, `server[c]` the server launcher c spawned,
`cmd[c]` a command in progress with the record it saw and its rounds. A launcher that
died keeps its name in the lock. `stolen` is history: a recovery has removed a lock whose
owner still lived.

Actions. `Begin`, `Look`, `Open`, `WriteLock`, `ReadLock`, `Probe`, `Unlink` and `Release`
are `acquireStartLock` with its callers: a launcher that finds a lock reads who holds it,
asks the operating system about that process in a step of its own, by when it may have
ended, dead or done (`MayHaveGone`), and removes whatever lock is at the path by then; `Recheck` to `CleanFailedLaunch` the launch; `Launching`
to `ClearRecord` the stop with and without the lock; `TakeAuthority` to `ServerExits` the
server, which opens the database only while the record names it.

Abstractions. Comparing the record and changing or removing it is one step (adjacent
system calls in `clearPidRecord`, `updatePidRecordState` and the release of the lock).
A living launcher writes its lock within the 5 s of grace. A process that cannot be
identified ("unsafe": a failing `ps`) fails every command before it changes anything and
is left out. The lock does not exclude (section 7): a lock may be removed from under a
launcher that holds it. `OneServer` and `StopLeavesNothing` are claimed as long as that has
not happened (`~stolen`); once it has, TLC finds two servers.

### LoopConfig: what a loop may be

State. `row[l]` is the configuration of a loop, `known` the map `newIdempotency` from a
request's hash to its loop, `request[h]` a create or edit in progress.

Actions. A create is `SendCreate` (validation), `ReadKey`, `InsertLoop`, `RecordKey`, with the
awaits between them; an edit is `SendEdit` (validation against the row it read) and
`WriteEdit`, which does not look at the row again. `ForgetKey`, `DeleteLoop` and
`RestartServer` lose the key or the loop.

Abstractions. A body is a function on the fields present; a text is usable, blank or
bad. Cron arithmetic (croner) is external: an expression is accepted or not, once and
for all, although the check in `loopConfig.ts:131` asks for two occurrences from *now*. The
hash of a body is the body. `answered` and `raced` are history; what a forgotten key or a
deleted loop takes back of it is in `Forgiven`, body by body. `Over` is the spread of
objects, and `RequiredText` refuses a text of blanks or a null as well.

### PollWire, ReportWire: what the two sides make of each other

`PollWire`: `daemon` has a protocol, a package version and a platform, and its body, the
version gate, `buildDelivery`, the answers to outdated and refused daemons and the decoding
of `poll-protocol.ts` are operators on records of field classes. A memory is classed by
what either side's check tells apart (short, full, over, binary). The check of the allowed
roots (`poll-protocol.ts:133-139`) is left out: nothing sets `machines.roots`, so the list is
empty in every delivery.

`ReportWire`: an attempt (how the agent ended, exit code, text as kinds of lines, file,
usage) becomes a report (`BuildReport`, `Collected`), the server reads it (`ValidReport`,
`ParseFinalStatus`, `ReportOutcome`, `TerminalMemory`), decides in one step (`Decide`; the
awaits are in `ReportHandler`), and the daemon recognises the answer or keeps the row
(`Definitive`). `LeaseAges`, `LoseReply` and `Replay` make it ask again.

### Telemetry: usage from an event stream

`collector` holds the variables of `makeCollector`; `Claude`, `Pi` and `Codex` are the
events of each provider with what it does to the collector, `Close` the end of the stream
wherever it comes, `Result` what `executeDelivery` gets. The tokens the process really
spent, and what its session had spent before, are the model's own (`spent`, `past`).

### The proof modules

`RunStoreProofs`, `StoreQueueProofs`, `ReportHandlerProofs`, `DaemonProofs`,
`DaemonControlProofs`, `WakeupsProofs`, `ServerControlProofs` and `EdgeProofs`: section 6.

## 4. Runs

| Run | Instance | Question |
|---|---|---|
| `store_one_loop` | 1 loop, both modes and policies, 2 runs (3 while it is continuous, is not deleted and no lease has expired), 1 reportId, streak 2 | do runs, leases, queue and history numbers agree in every order of transactions; what stalls a loop, what trips the breaker? |
| `store_two_loops` | 2 continuous loops that stay on until they are deleted, 2 runs, 2 reportIds | cross-loop reportId conflicts and force deletion: is evidence complete, consistent and final, and is the ledger implemented? |
| `report_conflict` | 2 handlers, 2 runs that may share the only reportId | are acknowledgements backed, does the history say what was acknowledged, is `RunStore` implemented? |
| `report_answered` | 2 handlers, 1 run, 1 server restart, fair | is every report answered for good? |
| `daemon_progress` | 1 cron loop, 2 runs, 1 fault; schedule, deletion, fair | does the outbox drain, does what is queued end, does a deletion complete? |
| `daemon_orphans` | 1 fault; schedule, cancel; agents outlive a killed daemon | an overlap policy that orphans escape (finding) |
| `daemon_and_memory` | two instances of 1 cron loop and 2 runs. `faults`: 2 faults, schedule, cancel, forced deletion. `memory`: the texts, 1 fault, schedule, 1 edit of the owner | one agent per loop, no delivery dropped, no result lost, no swept run disowned while it executes; does a report replace only what its run had read? |
| `memory_shutdown` | as `memory` | a half-written memory (finding) |
| `control_commands` | 3 processes, 2 pids, 2 servers, 1 command at a time, fair | is there one daemon, visible and on the active connection; whose poll does a start take for readiness; does stop mean stopped; do commands return? |
| `hints_and_drain` | `polls`: 2 connections. `expiry`: beside one request, no timer. `reports`: 3 reports of which 1 can be answered, 2 workers, 1 stop or kill. `process`: 1 agent with helpers. Fair | does a poll sleep beside work; is a due cadence served without timers, also behind a run that was given up; is the answerable report stuck behind the others; does the first cause win? |
| `edges` | `launchers`: 3, 2 lock rounds, 1 crash, until a lock is stolen. `creates`, `edits`: 2 requests, 2 loops. `wire`: 5 versions, 2 protocols, 2 platforms. `report`: texts of up to 3 lines and one of 5, every ending. `telemetry`: 3 requests of the model | one server; a stop that is final; configurations that stay valid; one loop per create; both ends of the wire agree; usage that is the run's own |
| `launcher_lock` | 3 launchers, no crash | two holders of one launch lock (finding) |

Why the bounds are enough. A loop has at most one queued and one running run, and
a swept run keeps others from starting, so three rows reach every combination of a
swept, a live and a queued run; a cron loop differs from a continuous one in where its
cadence comes from, which two rows show. What is checked with two rows is proved for any
number, for `RunStore` and for `Daemon`. Two reportIds are needed for one run reporting
under an id that another run's report owns, and a third would behave as one of the two
(they are symmetric). A streak of two needs two settled failures and a third row that may
interrupt it. Two handlers are a report and its duplicate, or the reports of two runs;
everything else that commits is in `Interfere`. Two faults let a poll be given up and
the daemon die, or the daemon die twice, before the sweep; the second look of a long poll
is taken only before the first fault. In the `memory` instance the only kill is the
timeout (with the owner's cancel it is too large), and requests that are given up and
reports after the grace period, which move no text, are left to the other instance. In `control_commands` three processes
are a daemon, its successor and a stranger or a second successor, and two pids force the
third to use one again. Two connections are the request the daemon waits for and one it
gave up. Three reports and two workers leave one that must wait for a worker while both
send what is never answered. Of three launchers one holds the lock, one acts on what it
saw before and one, a stop, comes between; the constraints keep at most one stop and one
foreground start or restart among them, a crash apart from a restart, and of a stop, a
foreground start and a crash two. In `wire` what was edited meets the current daemon and
an unchanged memory: the decoder looks at loop and memory one by one, and an outdated
daemon is handed nothing.

Deadlock checking is off everywhere because each system really stops: after the
machine is deleted, when all `MaxRuns` rows are used, faults are spent and everything is
answered, when an agent has settled or a stream is closed.

## 5. Fairness

`HandlerFairness`. The daemon retries a report until it is answered, so it arrives
again and again (`SF` of `Receive` per run: whether a handler is free comes and
goes); a request that is being served is served to its end (`WF(Handle(h))`); not
every answer is lost (`SF` of `Deliver` per run). `Interfere` and `Restart` are not
fair.

`DaemonFairness`. `Process`: the daemon's loop polls and reads answers, a stopped
one exits, and its owner starts it again; nothing in the code does. `Serve(p)`: the server
finishes what reached it, and the answer to a poll that was given up goes nowhere.
`Carry(r)`: agents end (`PIEVO_EXEC_TIMEOUT_MS`), persisting and sending are retried
without end. `GoesSilent(r)` for a run the daemon does not hold: nobody renews its
heartbeat. `Sweep`: a timer of the server reclaims, prunes and retries deletions.
The owner, cadences and faults are not fair; faults are bounded, so they stop.

`DaemonControl`. A command goes on (`WF` of `Proceed(c)`), nothing else is fair: a
daemon may hang in any step. `CommandsReturn` therefore leaves out `stop` and `restart`
without `--force`, which wait for a report to be durable, by design without a limit.

`WakeupFairness`. The daemon polls (`WF` of `SendPoll`), each request is handled and each
wait ends (`WF` of `PollStep`, `Park`), and the clock runs out the grace of a run that was
given up (`WF` of `GraceEnds`): a daemon that woke up goes on naming it, so that its polls
lift no fence, and its report may never come. A poll that finds a due cadence advances it, in the
long run (`SF`): a poll may lose that race to another request each time, since the waiter's
window and the order of awaits are nobody's to promise, but not for ever. No timer is
fair, so `DueIsServed` shows that polls and the end of the grace suffice.

`DrainFairness`. The poll loop ticks, back-offs end, workers take and finish what is
queued (a send ends at the latest after `REPORT_TIMEOUT_MS`), a stopped daemon exits and
its owner starts it again. Kills and stops are bounded by `MaxEnds`.

`ProcessFairness`. Node fires the SIGKILL timer and the one-second drain after an exit.
Nothing is expected of the agent or of its helpers.

One assumption about time: a request does not live as long as `RUN_TIMEOUT_MS`
(20 minutes; the daemon gives up after 30 s) or `TERMINAL_GRACE_MS` (10). It is in the
guards of `GoesSilent` and `GraceElapses`, and in those of `SweepReclaims` and `GraceEnds`
of `Wakeups`, where `before` must be empty.

## 6. Proofs

All theorems hold for any sets and bounds that satisfy the assumptions named in the
modules: `ConstantsAssumption`, `DaemonAssumption`, `HandlerAssumption`,
`ControlAssumption` (there is a pid), `WakeupAssumption`, `LauncherAssumption`,
`ConfigAssumption`, `AttemptsAssumption` and `CountsAssumption` (what providers count is
whole, and cached input is a part of the input). TLC evaluates them in every run of these
modules. Some theorems assume more, and say so in their statements: `Sole` (one command at a time) for the daemon commands, `~Orphans` (agents die
with their daemon) where agents are concerned, and `"failure" \in Results` for the
refinement of `Daemon` (a timeout is one of the results an agent may have).

`RunStoreProofs`:

* `TypeCorrect`: `TypeOK` and that a run row that exists names a loop.
* `AuthorityFollowsPhase`: `AuthorityMatchesPhase`. Given the types it is
  inductive. The steps are grouped by shape: transactions that leave leases and
  running runs alone, that end a run, or that only weaken a lease.
* `OneRunHoldsALoop`: `SingleAuthority`. Alone it is not inductive, since a claim
  looks for *running* runs and for leases separately: `AuthorityMatchesPhase` ties
  them. Only `ClaimReadyRun` creates authority, and its guard `~Fenced(l)` is the
  statement for the new lease.
* `LeasesLeaveEvidence`, `VerdictsAreUnique`, `EvidenceStands`, from `EvidenceInv`: what is
  committed under a reportId has consumed its run's lease, which stays consumed; a run
  whose report was rejected without a receipt, or that was retired, has failed and is no
  canceled one; and a row of evidence is only ever inserted where there is none.

`StoreQueueProofs`:

* `QueuedRunsMayStart` and `CadenceIsKept`, from `QueueInv`: a loop that is off has no
  cadence and a cron loop that is on has one (`FollowsSwitch`); the loop of a queued run is
  there, is not being deleted, and is on unless the owner asked for the run (`Awaited`);
  what runs in a loop that is being deleted has been told to stop (`Told`); and a loop has
  one slot (`OneSlot`). Every transaction that closes a loop clears its queue in the same
  step, but only of the one queued run it finds, so none of the parts is inductive alone.
* `HistoryIsNumbered`: `IndexHistory`, from `IndexInv`: what has started has a number up to
  the counter of its loop, what has not has none, and no two runs of a loop share one. A
  queue that is canceled is given one number, so this rests on `OneSlot`.
* `StoreImplementsLedger`, the refinement: the initial state is the ledger's, and each of
  the store's transactions is a step of the ledger under `RunStore!Ledger`, or stutters. It
  rests on `AuthorityMatchesPhase`, which makes stages well defined, and on
  `SingleAuthority` for the step that starts a run.
* `LoopsKeepGoing` (`StallsOnlyByCancel`) and `BreakersAreEarned` (`AutopauseIsEarned`), for
  any streak. Neither needs more than the types: what settles a run looks at the whole
  history of its loop in the same transaction, so the work is in the transactions
  (`Settled` says what one does to every row) and in counting: from a streak that is long
  enough a set of that size is taken (`SubsetOfSize`).

`ReportHandlerProofs`:

* `HandlersImplementStore`: each step of a handler is a step of `RunStore` or leaves the
  tables alone, so everything above holds while `report()` is served.
* `HandlersTypeCorrect`: `HandlerTypeOK`.
* `AnswersAreBacked`: `AcksAreBacked`, also for what the daemon has been told
  (`Acknowledged`).
* `HistoryTellsTheVerdict`: `HistoryFollowsVerdict`.

The invariant is `HandlerInv`. A handler decides on what it remembers, while others
commit: `Sound` says for each step which of these memories are still true (a receipt that
was found is there for good, by `EvidenceStands`; a lease that was seen may be gone, and
then there is evidence). `History` ties a run's end to its evidence, a canceled run's to
its receipt.

`DaemonProofs`:

* `SystemKeepsToStore`: `DaemonSpec` implies `[][Next]_vars` of `RunStore`, hence
  `AuthorityMatchesPhase` and `SingleAuthority`. The initial state is not the empty
  database, so `Init` is replaced by a lemma that it satisfies the store's invariant.
* `DaemonTypeCorrect`: `DaemonTypeOK`.
* `ClaimsAreAccepted`: `DeliveriesAreAccepted`.
* `AgentsNeverOverlap`: `~Orphans` implies `[]OneAgentPerLoop`.

The inductive invariant is `DaemonInv`. `OneAgentPerLoop` follows from
`OccupantsAreApart` (held runs that name their loop are of different loops) and
`AgentsAreHeld` (an agent belongs to an execution, which is where `~Orphans` is
needed). `OccupantsAreApart` is kept by an answer because of `ClaimIsAcceptable`: what
the current poll has claimed, the daemon can accept. That one is kept by the claim
because of `SnapshotCovers`, the heart of it: the request under way names every run
that occupies a loop in the daemon, since runs come to occupy one only when it is
answered. `Polling` and the store's invariant support these.

* `OutboxStaysReportable` (`OutboxIsReportable`). `Evidence` adds the store's evidence and
  that a receipt is of the run whose number it bears: a lease that is consumed has left one.
* `OnlyDeadRunsAreReleased` (`ReleasedRunsAreOver`), given `~Orphans`. A poll names the runs
  the daemon held when it was sent; what it does not name it may disown. `Custody` says why
  that is safe: whatever is silent, swept or late was handed out long ago and is not what
  the current answer carries; the current request names it if the daemon still has it, and
  so does one that was given up as long as it may disown; and what is disowned the daemon
  does not have.
* `MemoryImplementsDaemon`: `MemorySpec` implies `DaemonSpec`. A timeout is the exit of an agent
  with a failure. So `MemoryKeepsDaemonSafe` holds of the composition.
* `MemoryTypeCorrect`, `OnlyOwnersAreBlamed` (`OnlyTheOwnerIsBlamed`) and `OwnersAreHeard`
  (`OwnersWriteStands`), from `MemoryInv`. Its heart is `BaseStands`: as long as a run keeps
  others out of its loop and the owner has not written since it was claimed, the memory is
  the text it was delivered. It is kept because only a run that fences its loop reports a
  memory, and two never do (`SingleAuthority`).

`DaemonControlProofs`: `ControlTypeCorrect`, and, given `Sole`, `OneDaemonRuns` (`OneDaemon`, which
`DaemonIsVisible` implies and so no run repeats), `RecordsNameTheDaemon` (`DaemonIsVisible`),
`DaemonsFollow` (`DaemonFollowsConnection`), `StopsAreOver` (`StopMeansStopped`) and
`StartsSeeTheirOwn` (`ReadinessIsOwn`), for any number of processes, pids and servers.
`Handover`: a process that boots is the child of the command that waits for it, one that has
looked for another daemon is alone, a command relies on what it saw (no daemon runs from its look
to the spawn and from the end of a wait to the clearing of the record, and what it signals is
what the pid file names, if anything), and what a process read as the active connection still
is. None of these is inductive without the others. Without `Sole` they are false, since looking
and writing the pid file are two steps. For readiness `Ownership` is added: while a command waits
for its child nobody else comes to run (whoever claims the pid file booted for that command), so
that a stamp of a daemon that polls is the child's.

`WakeupsProofs`: `SleepersAreWoken` (`NoLostWakeup`) and `OwnersRunStands`
(`OwnersRunIsTaken`), for any number of connections. `WakeupInv` adds that a request that
waits unwoken is the registered one (`SleeperIsRegistered`), so that a wake cannot miss
it, and that while one may sleep the daemon executes nothing and waits for no other request
(`NothingHeldMeanwhile`), so that the end of a run needs no wake; and that a sleeper younger
than the sweep has lifted the fence itself (`SleeperHasUnfenced`), so that the end of a grace
needs none either. A poll that names a run does not count as one that will take the next.

`ServerControlProofs`: `OneServerPerDirectory` (`OneServer`) and `StopIsFinal`
(`StopLeavesNothing`), for any number of launchers, lock rounds and crashes. `LauncherInv`
has two parts. `Based` holds whatever becomes of the lock: the types, and that a launcher at
work in the lock had its name in it. `Guarded` holds until a lock is stolen: a launcher
that believes to hold the lock is named in it, the record names whoever
serves (`RecordNamesServer`), and from the look that found no record to the writing of one,
and from the end of a server to the answer of the stop, there is none but that server's
(`NothingRecorded`). The properties speak of `~stolen` themselves; the theorems have no
further hypothesis.

`EdgeProofs`:

* `TheFirstCauseIsReported` (`FirstCauseWins`), from `ProcessInv`: the locals of `runProcess`
  tell the first cause, and once it has settled they do not move. An error event, at any
  time, makes the run `broken`, which the property allows of every cause.
* `RunsPayForThemselves` (`UsageIsOwn`), for any numbers and any number of requests. `UsageInv`:
  what is collected is at most what was spent (`Charges`), and the baseline of Codex is the
  past and some part of what was spent (`Based`), which is nothing if no event was missed.
* `EnvelopesGiveBack` (`EnvelopeIsCreatable`) and `AnsweredCreatesStand` (`RetriesCreateOnce`),
  for any bodies and patches. `ConfigInv`: every stored row is one that create makes, agent and
  effort of a loop that saw no overlapping edits fit each other (`RowsFit`); a request carries
  what its check let through (`RequestsFit`); and of a body that was answered the key and the
  loop are there (`KeysStand`).
* `ClaimsAreTaken` (`AnswersAreTaken`): for every configuration a sequence of creates and edits can
  lead to. `WireInv` keeps the delivery within what the decoder takes, and rests on `ConfigInv`.
* `VerdictsReachTheDaemon` (`VerdictsAreHeard`, `FormIsAccepted`, `VerdictIsTrue`), for final texts
  of any length. `ReportInv`: the row is the report of the attempt, the verdict is one that was
  decided on it (`DecidedOn`), and what is under way is its acknowledgement or no decision.
* `EndsUnderstandEachOther` (`EndsAgree`): the last two together.

`parseFinalStatus` walks up a text line by line, which `ReportWire` writes as a recursive
function (`Above`). Its value is proved without an induction theorem: `Cut` is a closed form that
satisfies the equation (`CutPeels`), so the function the CHOOSE picks does (`AboveRecurs`), and of
the lengths at which it would not be what `AboveIs` says, there would be a least one (`LeastOf`,
from `WFMin` of the library).

Only model-checked: liveness, which is outside the prover (`EveryReportIsAnswered`, `OutboxDrains`,
`QueuedRunsEnd`, `DeletionsComplete`, `CommandsReturn`, `DueIsServed`, `AnswerableReportsLeave`,
`EndedRunsSettle`), and with it the whole of `ReportDrain`, of which nothing else is said; and
the findings of section 7, which are counterexamples.

## 7. Findings

* `daemon_orphans`: an agent runs in its own process group (`spawn.ts:45`) and survives
  a daemon that is killed; nothing records it, and the restarted daemon polls with an
  empty snapshot (`daemon.ts:51`). The server sweeps the run and hands out the next one
  of the loop while the first agent still works. `packages/daemon/skill/SKILL.md:10`:
  "Runs of a loop never overlap." `AgentsNeverOverlap` shows that nothing else breaks it.
* `memory_shutdown`: `executeDelivery` discards the memory of an agent that was canceled or
  timed out (`runner.ts:240`), "only a provider that was actually killed mid-edit". A stop
  of the daemon kills it too (`daemon.ts:143`), with an error of neither kind, and the
  half-written file becomes the memory.
* `launcher_lock`: `acquireStartLock` reads the lock (`server-cli-lib.mjs:423`), asks whether
  its holder lives (440), and removes whatever is at the path by then (448). One launcher
  reads the lock of a second, which ends in good order; a third takes the lock; the first
  finds the second gone and removes the lock of the third. No crash is needed, and both go
  on. The comment at `server-cli-lib.mjs:392` says "Stale locks recover; live/uncertain
  owners fail closed." Without `~stolen` in `OneServer`, TLC goes on from there to two
  servers that start on one directory.

Remarks without a run of their own, each met while modelling:

* The test at `gateway/lifecycle.test.ts:467` is titled "continuous stop-run restores
  cadence", but the store writes a next cadence only for a run that ends as done or error
  (`store.ts:422`) and a claim has cleared the last one (`store.ts:1234`).
  `scheduler.e2e.test.ts:179` states what the code does, and `StallsOnlyByCancel` shows that
  a cancellation is the only way a continuous loop can stall.
* An agent that fails by itself and prints "timed out" is reported as a timeout, and its
  memory is discarded (`leader = "timeouttext"` in `FirstCauseWins`). A cancel or timeout in
  the second between a clean exit and the settling relabels the run likewise.
* An `error` event of a running agent (a write error of its stdin other than EPIPE is emitted
  on the child, `spawn.ts:114`) rejects `runProcess` and clears timeout, SIGKILL timer and
  abort listener (`spawn.ts:106`). A run that was being canceled or had timed out is then
  reported as a failure, while the comment at `spawn.ts:80` says "First termination cause
  wins"; its memory is collected although it was being killed (`runner.ts:239`); and the
  agent may live on, unwatched, while the loop is free for the next (`ErrorEvent`,
  `FirstCauseWins`).
* Settling clears the SIGKILL timer: a helper that ignores SIGTERM outlives the report of
  its run (`SettleAfterExit`).
* Two overlapping edits, one of the agent and one of the effort, leave a pair that create
  refuses (`raced` in `EnvelopeIsCreatable`). Two overlapping creates with one body may make
  two loops (`RetriesCreateOnce` is about repeated ones).
* A loop whose work directory is absolute on Windows only is refused by a daemon on
  another platform, after its run was claimed (`AnswersAreTaken`).
* Codex: the first snapshot with a total decides what the session had spent before. If a
  snapshot without a total came earlier, its request is counted as the past, and the
  attempt's usage is below what it spent; never above (`UsageIsOwn`).
* A report with a negative or oversized number is refused for good (`FormIsAccepted`
  lists them). A report over `MACHINE_BODY_CAP` (2 MB, `http.ts:9`) is answered 413 for
  ever: `RefuseBody`. It stays in the outbox, which `ReportDrain` shows to be harmless for
  the others.
* `runDaemon` looks for another daemon (`daemon.ts:218`) and then writes the pid file (224),
  without a lock or an exclusive create. Two starts at once both find none, both run, and one of
  them has lost its record, which is what the comment at 219 says the check prevents;
  `gateway/index.ts:315` relies on it ("the pidfile enforces one daemon"). TLC finds it in
  `DaemonControl` with two `Clis`. With one command at a time it cannot happen
  (`OneDaemonRuns`).
* A parked long poll stamps the machine online when its wait ends (`gateway/index.ts:577`,
  `LatePoll`), up to 20 s after its daemon has gone. `start` takes a heartbeat newer than its
  baseline as readiness (`daemon-lifecycle.ts:172`) and does not look at the process it
  spawned, which may have died without a poll. The comment at `daemon-lifecycle.ts:146` says of
  presence: "never let it substitute for local liveness or satisfy the replacement's
  readiness." That is the exception in `ReadinessIsOwn`, and the only one.
* Enrollment: a poll that has read that the machine is absent (`gateway/index.ts:431`) and
  that its key is valid (438) may wait while another poll enrolls the machine and the
  owner deletes it with its key; the first then inserts the row again (441), and the daemon
  is known again. The comment at 436-437 describes the sequential case.

## 8. Not modelled

* Authentication and connect keys, enrollment: hash lookups, except for the last remark
  above, which the next module would be about.
* Agent CLI verbs: views for a run's agent, and owner verbs that end in transactions of
  `RunStore`.
* History rendering, the dashboard, the owner's command line, the wording of prompts and
  of telemetry lines: text made of state, no state.
* Callback command and shim, skill installer: forward one call; copy files.
* Database bootstrap: opens PGlite or Postgres and runs migrations.

What is left out of the modelled parts is named under their abstractions in section 3 and
in the notes of `PROJECT.json`.
