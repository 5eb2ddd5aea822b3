--------------------------- MODULE DaemonControl ---------------------------
(***************************************************************************)
(* `pievo daemon start | stop | restart | connect`: how an owner's         *)
(* commands and the daemon processes of a machine find each other.         *)
(*                                                                         *)
(* All they share is the pid file (packages/daemon/src/pidfile.ts), which  *)
(* names a process by its pid and start time, the active connection, and   *)
(* the heartbeat the server shows (daemon-control.ts, daemon-lifecycle.ts).*)
(* There is no lock.  Daemons die at any time, pids are used again, and a  *)
(* poll outlives the daemon that sent it on the server, which stamps the   *)
(* machine as online when the wait is over (gateway/index.ts).             *)
(*                                                                         *)
(* The n-th process of the machine stands for its own start time, so the   *)
(* pid file holds n for the pair of its pid and start time.                *)
(***************************************************************************)
EXTENDS Naturals

CONSTANTS
  Pids,           \* the pids the system hands out
  MaxProcesses,   \* processes ever started (bound)
  Clis,           \* commands in progress at once (bound)
  Servers         \* the saved connections, each a server and an identity

ASSUME ControlAssumption == MaxProcesses \in Nat /\ Pids # {}

VARIABLES
  proc,      \* the processes
  pidfile,
  active,    \* the active connection
  parked,    \* servers where a poll of a daemon that is gone still waits
  cli

cvars == <<proc, pidfile, active, parked, cli>>

Procs == 1..MaxProcesses

\* A daemon has a handler for SIGTERM while it is up or stopping.
Stages == {"unborn", "boot", "stale", "write", "written", "up", "stopping", "closed",
           "stranger", "gone"}
Process == [pid : Pids, at : Stages, server : Servers, polled : BOOLEAN]

\* "stop-force" and "restart-force" carry the flag --force.
Verbs == {"start", "stop", "stop-force", "restart", "restart-force", "connect"}
StopSteps == {"read", "stale-stop", "term", "gone", "kill", "clear"}
StartSteps == {"look", "stale-start", "before", "spawn", "ready", "online", "foreground"}
\* seen: the baseline heartbeat is unknown or known, or a later one was stamped, for a
\* daemon that polls or for a poll that lingers (the command cannot tell the two apart).
Command == [at : {"idle", "save"} \cup StopSteps \cup StartSteps, verb : Verbs,
            rec : Procs \cup {0}, child : Procs \cup {0}, server : Servers,
            seen : {"unknown", "known", "later", "lingering"}]

Live(n) == proc[n].at \notin {"unborn", "gone"}
Unborn == {n \in Procs : proc[n].at = "unborn"}
Active(n) == proc[n].at \in {"written", "up", "stopping"}

-----------------------------------------------------------------------------
(* Processes.                                                              *)

\* A pid is not handed out again between two system calls of a command.
InUse == {proc[n].pid : n \in {m \in Procs : Live(m)}}
         \cup {proc[cli[c].rec].pid : c \in {d \in Clis : cli[d].at \in {"term", "kill"}}}

Create(n, at) ==
  /\ n \in Unborn /\ \A m \in Unborn : n <= m
  /\ \E p \in Pids \ InUse :
       proc' = [proc EXCEPT ![n].pid = p, ![n].at = at]

\* Some other program gets the pid of a daemon that is gone.
Stranger(n) == Create(n, "stranger") /\ UNCHANGED <<pidfile, active, parked, cli>>

\* A poll that waits on the server outlives its daemon.
Abandon(n) == IF proc[n].at = "up" /\ proc[n].polled THEN parked \cup {proc[n].server}
              ELSE parked

Move(n, at) == proc' = [proc EXCEPT ![n].at = at]

Die(n) ==
  /\ Live(n) /\ Move(n, "gone") /\ parked' = Abandon(n)
  /\ UNCHANGED <<pidfile, active, cli>>

\* verifiedRunningPid: a record counts if its very process is alive; a stale one is
\* judged first and cleared afterwards.
VerifiedOnline == IF pidfile # 0 /\ proc[pidfile].at = "up" THEN pidfile ELSE 0
Verified == IF pidfile # 0 /\ Live(pidfile) THEN pidfile ELSE 0
Stale == pidfile # 0 /\ ~Live(pidfile)

\* runDaemon reads the connection and looks for another daemon, ...
Boot(n) ==
  /\ proc[n].at = "boot"
  /\ proc' = [proc EXCEPT ![n].server = active,
                ![n].at = IF Verified # 0 THEN "gone" ELSE IF Stale THEN "stale" ELSE "write"]
  /\ UNCHANGED <<pidfile, active, parked, cli>>

ClearStale(n) ==
  /\ proc[n].at = "stale" /\ Move(n, "write") /\ pidfile' = 0
  /\ UNCHANGED <<active, parked, cli>>

\* ... claims the pid file, opens the outbox, installs its handlers and polls.
WritePidFile(n) ==
  /\ proc[n].at = "write" /\ Move(n, "written") /\ pidfile' = n
  /\ UNCHANGED <<active, parked, cli>>

Handlers(n) ==
  /\ proc[n].at = "written" /\ Move(n, "up")
  /\ UNCHANGED <<pidfile, active, parked, cli>>

\* What a command that waits for readiness will see.
Stamped(s, seen) ==
  [c \in Clis |-> IF cli[c].server = s /\ cli[c].seen = "known"
                  THEN [cli[c] EXCEPT !.seen = seen] ELSE cli[c]]

Poll(n) ==
  /\ proc[n].at = "up"
  /\ proc' = [proc EXCEPT ![n].polled = TRUE]
  /\ cli' = Stamped(proc[n].server, "later")
  /\ UNCHANGED <<pidfile, active, parked>>

\* pollV4Wait: when the wait is over, the machine is stamped, whoever sent the poll.
LatePoll(s) ==
  /\ s \in parked /\ parked' = parked \ {s}
  /\ cli' = Stamped(s, "lingering")
  /\ UNCHANGED <<proc, pidfile, active>>

\* The last result is durable; an exiting daemon clears the file only if it holds
\* its own pid.
Close(n) ==
  /\ proc[n].at = "stopping" /\ Move(n, "closed")
  /\ pidfile' = IF pidfile # 0 /\ proc[pidfile].pid = proc[n].pid THEN 0 ELSE pidfile
  /\ UNCHANGED <<active, parked, cli>>

\* SIGTERM ends what has no handler yet (and strangers that have none).
AfterTerm(n) == IF proc[n].at \in {"up", "stopping"} THEN "stopping" ELSE "gone"
Holder(p) == {n \in Procs : Live(n) /\ proc[n].pid = p}
Sigterm(p) ==
  /\ proc' = [n \in Procs |-> IF n \in Holder(p) THEN [proc[n] EXCEPT !.at = AfterTerm(n)]
                              ELSE proc[n]]
  /\ parked' = parked \cup UNION {Abandon(n) : n \in Holder(p)}

-----------------------------------------------------------------------------
(* Commands.                                                               *)

Step(c, at) == cli' = [cli EXCEPT ![c].at = at]
NoCommand == [at |-> "idle", verb |-> "start", rec |-> 0, child |-> 0, server |-> active,
              seen |-> "unknown"]
Return(c) == cli' = [cli EXCEPT ![c] = NoCommand]

BeginAnywhere(c) ==
  /\ cli[c].at = "idle"
  /\ \E verb \in Verbs, s \in Servers :
       /\ verb # "connect" => s = active
       /\ cli' = [cli EXCEPT ![c] = [@ EXCEPT !.verb = verb, !.server = s,
            !.at = CASE verb = "start" -> "look" [] verb = "connect" -> "save" [] OTHER -> "read"]]
  /\ UNCHANGED <<proc, pidfile, active, parked>>

\* Switching to another server stops the daemon first; connecting to the active one
\* only starts it.
Begin(c) ==
  /\ cli[c].at = "idle"
  /\ \E verb \in Verbs, s \in Servers :
       /\ verb # "connect" => s = active
       /\ cli' = [cli EXCEPT ![c] = [@ EXCEPT !.verb = verb, !.server = s,
            !.at = CASE verb = "start" -> "look"
                     [] verb = "connect" /\ s = active -> "save"
                     [] OTHER -> "read"]]
  /\ UNCHANGED <<proc, pidfile, active, parked>>

(* runDaemonStop *)

AfterStop(c) == CASE cli[c].verb \in {"restart", "restart-force"} -> "look"
                  [] cli[c].verb = "connect" -> "save"
                  [] OTHER -> "idle"
StopReturns(c) == IF AfterStop(c) = "idle" THEN Return(c)
                  ELSE cli' = [cli EXCEPT ![c].at = AfterStop(c), ![c].rec = 0]
ForcedByOwner(c) == cli[c].verb \in {"stop-force", "restart-force"}
Forced(c) == cli[c].verb \in {"stop-force", "restart-force", "connect"}

ReadRecord(c) ==
  /\ cli[c].at = "read"
  /\ IF Verified # 0 THEN cli' = [cli EXCEPT ![c].at = "term", ![c].rec = pidfile]
     ELSE IF Stale THEN Step(c, "stale-stop")
     ELSE StopReturns(c)
  /\ UNCHANGED <<proc, pidfile, active, parked>>

ClearStaleRecord(c) ==
  /\ cli[c].at \in {"stale-stop", "stale-start"} /\ pidfile' = 0
  /\ IF cli[c].at = "stale-stop" THEN StopReturns(c) ELSE Step(c, "before")
  /\ UNCHANGED <<proc, active, parked>>

\* The daemon may exit between the look and the signal.
Terminate(c) ==
  /\ cli[c].at = "term"
  /\ IF Live(cli[c].rec)
     THEN Sigterm(proc[cli[c].rec].pid) /\ Step(c, "gone")
     ELSE Step(c, "clear") /\ UNCHANGED <<proc, parked>>
  /\ UNCHANGED <<pidfile, active>>

NoWait(c) ==
  /\ cli[c].at = "gone" /\ Step(c, "clear")
  /\ UNCHANGED <<proc, pidfile, active, parked>>

\* The pid file stays until that very process is gone: the fence of a restart.
WaitGone(c) ==
  /\ cli[c].at = "gone" /\ ~Live(cli[c].rec) /\ Step(c, "clear")
  /\ UNCHANGED <<proc, pidfile, active, parked>>

GiveUp(c) ==
  /\ cli[c].at = "gone" /\ Forced(c) /\ Live(cli[c].rec) /\ Step(c, "kill")
  /\ UNCHANGED <<proc, pidfile, active, parked>>

\* The identity is confirmed again before SIGKILL, or the command fails.
Kill(c) ==
  /\ cli[c].at = "kill"
  /\ IF Live(cli[c].rec)
     THEN Move(cli[c].rec, "gone") /\ parked' = Abandon(cli[c].rec) /\ Step(c, "gone")
     ELSE Return(c) /\ UNCHANGED <<proc, parked>>
  /\ UNCHANGED <<pidfile, active>>

ClearPid(c) ==
  /\ cli[c].at = "clear" /\ pidfile' = 0 /\ StopReturns(c)
  /\ UNCHANGED <<proc, active, parked>>

(* runDaemonConnect, after the stop *)

Save(c) ==
  /\ cli[c].at = "save" /\ active' = cli[c].server /\ Step(c, "look")
  /\ UNCHANGED <<proc, pidfile, parked>>

(* runDaemonStart *)

Look(c) ==
  /\ cli[c].at = "look"
  /\ IF Verified # 0 THEN Return(c)                   \* already running
     ELSE Step(c, IF Stale THEN "stale-start" ELSE "before")
  /\ UNCHANGED <<proc, pidfile, active, parked>>

\* The heartbeat of now is the baseline, if the server answers; an identity it does
\* not know ends the command.
Before(c) ==
  /\ cli[c].at = "before"
  /\ \/ Return(c)
     \/ \E seen \in {"unknown", "known"} :
          cli' = [cli EXCEPT ![c].at = "spawn", ![c].seen = seen]
  /\ UNCHANGED <<proc, pidfile, active, parked>>

SpawnDaemon(c) ==
  /\ cli[c].at = "spawn"
  /\ \/ \E n \in Procs : Create(n, "boot")
                         /\ cli' = [cli EXCEPT ![c].at = "ready", ![c].child = n]
     \/ (Unborn = {} \/ Pids \subseteq InUse) /\ Return(c) /\ UNCHANGED proc
  /\ UNCHANGED <<pidfile, active, parked>>

Claimed(n) == proc[n].at \notin {"boot", "stale", "write"}

ReadyAtFirstAnswer(c) ==
  /\ cli[c].at = "ready" /\ Claimed(cli[c].child)
  /\ cli[c].seen # "known" /\ Step(c, "online")
  /\ UNCHANGED <<proc, pidfile, active, parked>>

\* One look at the server, after a second and a half, when a process that lives has
\* claimed its pid file: the first answer is a baseline, a later stamp is success.
Ready(c) ==
  /\ cli[c].at = "ready" /\ Claimed(cli[c].child)
  /\ \/ cli[c].seen = "unknown" /\ cli' = [cli EXCEPT ![c].seen = "known"]
     \/ cli[c].seen \in {"later", "lingering"} /\ Step(c, "online")
  /\ UNCHANGED <<proc, pidfile, active, parked>>

\* `start --foreground` is the daemon itself, and counts as a command until it has
\* claimed the pid file.
Foreground(c) ==
  /\ cli[c].at = "idle"
  /\ \E n \in Procs : Create(n, "boot")
                      /\ cli' = [cli EXCEPT ![c].at = "foreground", ![c].child = n]
  /\ UNCHANGED <<pidfile, active, parked>>

Attached(c) ==
  /\ cli[c].at = "foreground" /\ Claimed(cli[c].child) /\ Return(c)
  /\ UNCHANGED <<proc, pidfile, active, parked>>

Announce(c) ==
  /\ cli[c].at = "online" /\ Return(c)
  /\ UNCHANGED <<proc, pidfile, active, parked>>

\* 45 seconds are over: what was spawned is torn down, by its pid.
NotReady(c) ==
  /\ cli[c].at = "ready" /\ Return(c)
  /\ Sigterm(proc[cli[c].child].pid)
  /\ UNCHANGED <<pidfile, active>>

-----------------------------------------------------------------------------
Init ==
  /\ active \in Servers
  /\ proc = [n \in Procs |-> [pid |-> CHOOSE p \in Pids : TRUE, at |-> "unborn",
                              server |-> active, polled |-> FALSE]]
  /\ pidfile = 0 /\ parked = {}
  /\ cli = [c \in Clis |-> NoCommand]

DaemonStep(n) == Boot(n) \/ ClearStale(n) \/ WritePidFile(n) \/ Handlers(n) \/ Poll(n) \/ Close(n)

Proceed(c) ==
  \/ ReadRecord(c) \/ ClearStaleRecord(c) \/ Terminate(c) \/ WaitGone(c) \/ GiveUp(c)
  \/ Kill(c) \/ ClearPid(c) \/ Save(c) \/ Look(c) \/ Before(c) \/ SpawnDaemon(c)
  \/ Ready(c) \/ Attached(c) \/ Announce(c) \/ NotReady(c)

Next ==
  \/ \E n \in Procs : DaemonStep(n) \/ Die(n) \/ Stranger(n)
  \/ \E s \in Servers : LatePoll(s)
  \/ \E c \in Clis : Begin(c) \/ Foreground(c) \/ Proceed(c)

Spec == Init /\ [][Next]_cvars /\ \A c \in Clis : WF_cvars(Proceed(c))

-----------------------------------------------------------------------------
(* Properties.                                                             *)

\* Processes, pid file and commands have their shapes, and a command knows the
\* process it waits for.
TypeOK ==
  /\ proc \in [Procs -> Process]
  /\ pidfile \in Procs \cup {0}
  /\ active \in Servers /\ parked \subseteq Servers
  /\ cli \in [Clis -> Command]
  /\ \A c \in Clis : /\ cli[c].at \in {"term", "gone", "kill"} => cli[c].rec # 0
                     /\ cli[c].at \in {"ready", "online", "foreground"} => cli[c].child # 0

\* Starts, stops and restarts hand over: a daemon that runs can be seen and stopped,
\* nothing takes its record away, although daemons die at any time and pids are used
\* again.
DaemonIsVisible == \A n \in Procs : Active(n) => pidfile = n

\* Then two never run for one machine, on which everything Daemon says of the daemon
\* rests.
OneDaemon == \A m, n \in Procs : Active(m) /\ Active(n) => m = n

\* When a stop has returned, no daemon runs: the next one may be started, and the
\* connection may be changed.
StopMeansStopped ==
  [][\A c \in Clis : cli[c].at \in {"read", "stale-stop", "term", "clear"}
                     /\ cli'[c].at \in {"idle", "save", "look"} => \A n \in Procs : ~Active(n)]_cvars

\* What start takes for readiness is a poll of the daemon it has spawned, never of one
\* before it or beside it, unless a request whose daemon is gone was still waiting on the
\* server: that one is stamped when its wait is over, and looks the same.
ReadinessIsOwn ==
  \A c \in Clis :
    cli[c].at = "online" => proc[cli[c].child].polled \/ cli[c].seen = "lingering"

\* A daemon polls the server that is the active connection, also after a switch.
DaemonFollowsConnection ==
  \A n \in Procs : proc[n].at = "up" => proc[n].server = active

Waiting(c) == /\ cli[c].at \notin {"idle", "foreground"}
              /\ cli[c].verb \notin {"stop", "restart"}

\* Every command returns, whatever died meanwhile; a stop without --force may wait
\* for ever for a result to become durable, and a foreground start is a daemon.
CommandsReturn == \A c \in Clis : Waiting(c) ~> cli[c].at = "idle"
=============================================================================
