--------------------------- MODULE ServerControl ---------------------------
(***************************************************************************)
(* `pievo server start | stop | restart`: the launchers of the server      *)
(* (packages/server/scripts/pievo-server.mjs, server-cli-lib.mjs).         *)
(*                                                                         *)
(* Two launchers of one data directory share a lock file, which names the  *)
(* process that holds it, and a pid record, which names the server.  Both  *)
(* outlive whoever wrote them.  A server opens the database only while the *)
(* record names it; a launcher creates the record only under the lock.     *)
(*                                                                         *)
(* One action is what a process does between two looks at something        *)
(* shared.  clearPidRecord and updatePidRecordState compare the record and *)
(* then change it in adjacent system calls: one step here.  The record     *)
(* names pid, start time and launch nonce, so a pid that is used again     *)
(* never passes for the server.  pidStatus reads the record and then asks  *)
(* for its process; that is one step, taken when the process has ended or  *)
(* at the answer: nobody records another server before the first has       *)
(* ended.  The launch lock is not so: what a launcher finds out about its  *)
(* holder may be past when it acts on it, so reading, asking and removing  *)
(* are three steps.                                                        *)
(***************************************************************************)
EXTENDS Naturals, FiniteSets

CONSTANTS
  Launchers,     \* the commands ever given
  Nobody,
  Verbs,         \* what they are
  LockAttempts,  \* rounds of acquireStartLock
  MaxCrashes     \* launchers and servers that are killed (bound)

ASSUME LauncherAssumption ==
  /\ Nobody \notin Launchers
  /\ Verbs \subseteq {"start", "foreground", "stop", "restart"}
  /\ LockAttempts \in Nat \ {0} /\ MaxCrashes \in Nat

VARIABLES
  lock,      \* the lock file
  record,    \* the pid record
  server,    \* the server each launcher spawned
  cmd,       \* the launchers
  crashes,
  stolen     \* has a recovery removed the lock of a launcher at work? (history)

lvars == <<lock, record, server, cmd, crashes, stolen>>

NoLock == [holder |-> Nobody, written |-> FALSE]
NoRecord == [of |-> Nobody, state |-> "starting"]

\* quitting: it was told to stop before it had opened the database.
ServerStages == {"none", "waiting", "booting", "ready", "draining", "quitting", "gone"}
Alive(s) == server[s] \notin {"none", "gone"}
Serves(s) == server[s] \in {"booting", "ready", "draining"}

Steps == {"idle", "look", "open", "write", "read", "probe", "unlink", "recheck", "spawn", "record",
          "await", "clean", "locked", "launching", "term", "gone", "clear", "release", "end"}
Command == [at : Steps, verb : {"none", "start", "foreground", "stop", "restart"},
            part : {"stop", "start"}, seen : Launchers \cup {Nobody}, tries : 0..LockAttempts,
            patient : BOOLEAN, ok : BOOLEAN, dead : BOOLEAN]
NewCommand == [at |-> "idle", verb |-> "none", part |-> "start", seen |-> Nobody, tries |-> 0,
               patient |-> FALSE, ok |-> FALSE, dead |-> FALSE]

At(c, step) == cmd[c].at = step /\ ~cmd[c].dead
Goes(c, step) == cmd' = [cmd EXCEPT ![c].at = step]
Fails(c) == cmd' = [cmd EXCEPT ![c].at = "end", ![c].ok = FALSE]
Starts(c) == cmd[c].part = "start"
\* In the foreground the launcher is the server: they die together.
InForeground(c) == cmd[c].verb = "foreground"
Dies(s) == cmd' = IF InForeground(s) THEN [cmd EXCEPT ![s].dead = TRUE] ELSE cmd

-----------------------------------------------------------------------------
(* The record.                                                             *)

Running == record.of # Nobody /\ Alive(record.of)
\* pidStatus removes a record whose server is gone.
StaleCleared == IF Running THEN record ELSE NoRecord
\* clearPidRecord
Without(s) == IF record.of = s THEN NoRecord ELSE record

-----------------------------------------------------------------------------
(* acquireStartLock, acquireStartLockEventually and the release.           *)

Begin(c) ==
  /\ At(c, "idle")
  /\ \E v \in Verbs :
       cmd' = [cmd EXCEPT ![c].verb = v,
                          ![c].part = IF v \in {"stop", "restart"} THEN "stop" ELSE "start",
                          ![c].at = IF v = "stop" THEN "open" ELSE "look"]
  /\ UNCHANGED <<lock, record, server, crashes>>

\* start looks before it takes the lock; restart does, to keep host and port.
Look(c) ==
  /\ At(c, "look")
  /\ record' = StaleCleared
  /\ IF Running /\ Starts(c) THEN cmd' = [cmd EXCEPT ![c].at = "end", ![c].ok = TRUE]
     ELSE Goes(c, "open")
  /\ UNCHANGED <<lock, server, crashes>>

Open(c) ==
  /\ At(c, "open")
  /\ \/ /\ lock = NoLock
        /\ lock' = [holder |-> c, written |-> FALSE] /\ Goes(c, "write")
     \/ /\ lock # NoLock
        /\ Goes(c, "read") /\ UNCHANGED lock
  /\ UNCHANGED <<record, server, crashes>>

\* What is written to a file that was removed meanwhile is lost.
WriteLock(c) ==
  /\ At(c, "write")
  /\ lock' = IF lock.holder = c THEN [lock EXCEPT !.written = TRUE] ELSE lock
  /\ Goes(c, IF Starts(c) THEN "recheck" ELSE "locked")
  /\ UNCHANGED <<record, server, crashes>>

NextRound(c) ==
  IF cmd[c].tries + 1 < LockAttempts
  THEN cmd' = [cmd EXCEPT ![c].at = "open", ![c].tries = @ + 1]
  ELSE Fails(c)

\* START_LOCKED
Busy(c) ==
  \/ ~cmd[c].patient /\ Starts(c) /\ Fails(c)
  \/ ~cmd[c].patient /\ ~Starts(c) /\ Goes(c, "launching")
  \/ cmd[c].patient /\ (cmd' = [cmd EXCEPT ![c].at = "open", ![c].tries = 0] \/ Fails(c))

\* Whoever wrote a lock is remembered.  A lock without text is given a grace period;
\* whoever lives writes its lock in it.
ReadLock(c) ==
  /\ At(c, "read")
  /\ \/ lock = NoLock /\ NextRound(c)
     \/ lock.written /\ cmd' = [cmd EXCEPT ![c].at = "probe", ![c].seen = lock.holder]
     \/ lock # NoLock /\ ~lock.written /\ Busy(c)
     \/ lock # NoLock /\ ~lock.written /\ cmd[lock.holder].dead /\ Goes(c, "unlink")
  /\ UNCHANGED <<lock, record, server, crashes>>

\* A launcher that has done its work exits; in the foreground it is the server.
MayHaveGone(c) == cmd[c].dead \/ (cmd[c].at = "end" /\ ~(InForeground(c) /\ Alive(c)))

\* recordedProcessState of the process the lock named when it was read, which may run ps.
Probe(c) ==
  /\ At(c, "probe")
  /\ \/ MayHaveGone(cmd[c].seen) /\ Goes(c, "unlink")
     \/ ~cmd[cmd[c].seen].dead /\ Busy(c)
  /\ UNCHANGED <<lock, record, server, crashes>>

AtWork(c) == ~cmd[c].dead /\ cmd[c].at # "end"

\* rmSync of whatever is at the path by now.
Unlink(c) ==
  /\ At(c, "unlink")
  /\ lock' = NoLock
  /\ stolen' = (stolen \/ (lock # NoLock /\ AtWork(lock.holder)))
  /\ NextRound(c)
  /\ UNCHANGED <<record, server, crashes>>

\* A restart goes on to start.
Release(c) ==
  /\ At(c, "release")
  /\ lock' = IF lock.holder = c THEN NoLock ELSE lock
  /\ IF cmd[c].verb = "restart" /\ ~Starts(c) /\ cmd[c].ok
     THEN cmd' = [cmd EXCEPT ![c] = [NewCommand EXCEPT !.at = "look", !.verb = "restart"]]
     ELSE Goes(c, "end")
  /\ UNCHANGED <<record, server, crashes>>

-----------------------------------------------------------------------------
(* start, with the lock.                                                   *)

SpawnUnchecked(c) ==
  /\ At(c, "recheck") /\ Goes(c, "spawn")
  /\ UNCHANGED <<lock, record, server, crashes>>

Recheck(c) ==
  /\ At(c, "recheck")
  /\ record' = StaleCleared
  /\ IF Running THEN cmd' = [cmd EXCEPT ![c].at = "release", ![c].ok = TRUE] ELSE Goes(c, "spawn")
  /\ UNCHANGED <<lock, server, crashes>>

\* In the foreground it writes the record at once.
SpawnServer(c) ==
  /\ At(c, "spawn")
  /\ server' = [server EXCEPT ![c] = "waiting"]
  /\ IF cmd[c].verb = "foreground"
     THEN record' = [of |-> c, state |-> "starting"] /\ Goes(c, "await")
     ELSE Goes(c, "record") /\ UNCHANGED record
  /\ UNCHANGED <<lock, crashes>>

\* A child that is gone already cannot be identified.
RecordServer(c) ==
  /\ At(c, "record")
  /\ IF Alive(c) THEN record' = [of |-> c, state |-> "starting"] /\ Goes(c, "await")
     ELSE Goes(c, "release") /\ UNCHANGED record
  /\ UNCHANGED <<lock, server, crashes>>

\* The readiness page names the launch it belongs to.
ReadinessReady(s) == server[s] = "ready"

\* waitForDetachedReady, or the end of serve() in the foreground.
AwaitReady(c) ==
  /\ At(c, "await")
  /\ \/ /\ ReadinessReady(c) /\ record = [of |-> c, state |-> "running"]
        /\ cmd' = [cmd EXCEPT ![c].at = "release", ![c].ok = TRUE]
     \/ ~InForeground(c) /\ Goes(c, "clean")
     \/ InForeground(c) /\ server[c] \in {"draining", "quitting", "gone"} /\ Goes(c, "release")
  /\ UNCHANGED <<lock, record, server, crashes>>

\* SIGTERM: drain what was booted.
Terminated(s) == [server EXCEPT ![s] = CASE @ = "waiting" -> "quitting"
                                         [] @ \in {"booting", "ready"} -> "draining"
                                         [] OTHER -> @]

\* cleanFailedLaunch
CleanFailedLaunch(c) ==
  /\ At(c, "clean")
  /\ server' = Terminated(c)
  /\ cmd' = [cmd EXCEPT ![c].at = "gone", ![c].seen = c]
  /\ UNCHANGED <<lock, record, crashes>>

-----------------------------------------------------------------------------
(* stop.                                                                   *)

\* A launch is under way; only a server on record can be stopped.
Launching(c) ==
  /\ At(c, "launching")
  /\ record' = StaleCleared
  /\ IF Running THEN cmd' = [cmd EXCEPT ![c].at = "term", ![c].seen = record.of, ![c].patient = TRUE]
     ELSE Fails(c)
  /\ UNCHANGED <<lock, server, crashes>>

StoppedUnderLock(c) ==
  /\ At(c, "locked")
  /\ cmd' = [cmd EXCEPT ![c].at = "release", ![c].ok = TRUE]
  /\ UNCHANGED <<lock, record, server, crashes>>

StopUnderLock(c) ==
  /\ At(c, "locked")
  /\ record' = StaleCleared
  /\ cmd' = IF Running
            THEN [cmd EXCEPT ![c].at = "term", ![c].seen = record.of, ![c].patient = FALSE]
            ELSE [cmd EXCEPT ![c].at = "release", ![c].ok = TRUE]
  /\ UNCHANGED <<lock, server, crashes>>

\* terminateRecordedProcess: SIGTERM, and SIGKILL after the grace period.
Term(c) ==
  /\ At(c, "term")
  /\ server' = Terminated(cmd[c].seen)
  /\ Goes(c, "gone")
  /\ UNCHANGED <<lock, record, crashes>>

ForceKill(c) ==
  /\ At(c, "gone") /\ Alive(cmd[c].seen)
  /\ server' = [server EXCEPT ![cmd[c].seen] = "gone"]
  /\ Dies(cmd[c].seen)
  /\ UNCHANGED <<lock, record, crashes>>

ProvenGone(c) ==
  /\ At(c, "gone") /\ ~Alive(cmd[c].seen)
  /\ Goes(c, "clear")
  /\ UNCHANGED <<lock, record, server, crashes>>

ClearRecord(c) ==
  /\ At(c, "clear")
  /\ record' = Without(cmd[c].seen)
  /\ \/ Starts(c) /\ Goes(c, "release")
     \/ ~Starts(c) /\ cmd[c].patient /\ cmd' = [cmd EXCEPT ![c].at = "open", ![c].tries = 0]
     \/ ~Starts(c) /\ ~cmd[c].patient /\ cmd' = [cmd EXCEPT ![c].at = "release", ![c].ok = TRUE]
  /\ UNCHANGED <<lock, server, crashes>>

-----------------------------------------------------------------------------
(* The server.                                                             *)

ServerGoes(s, stage) == server' = [server EXCEPT ![s] = stage]

\* waitForPidAuthority; after 5 s without it the process gives up.
TakeAuthority(s) ==
  /\ server[s] = "waiting"
  /\ IF record.of = s THEN ServerGoes(s, "booting") ELSE ServerGoes(s, "gone")
  /\ UNCHANGED <<lock, record, cmd, crashes>>

\* updatePidRecordState fails if the record names another server.
BecomeReady(s) ==
  /\ server[s] = "booting"
  /\ IF record.of = s THEN ServerGoes(s, "ready") /\ record' = [record EXCEPT !.state = "running"]
     ELSE ServerGoes(s, "draining") /\ UNCHANGED record
  /\ UNCHANGED <<lock, cmd, crashes>>

BootFails(s) ==
  /\ server[s] = "booting" /\ ServerGoes(s, "draining")
  /\ UNCHANGED <<lock, record, cmd, crashes>>

\* A clean exit clears the record.
ServerExits(s) ==
  /\ server[s] \in {"draining", "quitting"}
  /\ ServerGoes(s, "gone")
  /\ record' = Without(s)
  /\ Dies(s)
  /\ UNCHANGED <<lock, crashes>>

ServerCrashes(s) ==
  /\ Alive(s) /\ crashes < MaxCrashes /\ crashes' = crashes + 1
  /\ ServerGoes(s, "gone")
  /\ Dies(s)
  /\ UNCHANGED <<lock, record>>

LauncherCrashes(c) ==
  /\ cmd[c].at \notin {"idle", "end"} /\ ~cmd[c].dead /\ ~(InForeground(c) /\ Alive(c))
  /\ crashes < MaxCrashes /\ crashes' = crashes + 1
  /\ cmd' = [cmd EXCEPT ![c].dead = TRUE]
  /\ UNCHANGED <<lock, record, server>>

-----------------------------------------------------------------------------
LauncherInit ==
  /\ lock = NoLock /\ record = NoRecord
  /\ server = [s \in Launchers |-> "none"]
  /\ cmd = [c \in Launchers |-> NewCommand]
  /\ crashes = 0 /\ stolen = FALSE

Acquire(c) == Open(c) \/ WriteLock(c) \/ ReadLock(c) \/ Probe(c) \/ Release(c)
Launch(c) == \/ Recheck(c) \/ SpawnServer(c) \/ RecordServer(c) \/ AwaitReady(c)
             \/ CleanFailedLaunch(c)
StopServer(c) == \/ Launching(c) \/ StopUnderLock(c) \/ Term(c) \/ ForceKill(c)
                 \/ ProvenGone(c) \/ ClearRecord(c)
ServerStep(s) == \/ TakeAuthority(s) \/ BecomeReady(s) \/ BootFails(s) \/ ServerExits(s)

LauncherNext ==
  \E c \in Launchers :
    \/ Unlink(c)
    \/ /\ \/ Begin(c) \/ Look(c) \/ Acquire(c) \/ Launch(c) \/ StopServer(c)
          \/ ServerStep(c) \/ ServerCrashes(c) \/ LauncherCrashes(c)
       /\ UNCHANGED stolen

LauncherSpec == LauncherInit /\ [][LauncherNext]_lvars

-----------------------------------------------------------------------------
(* Properties.                                                             *)

\* No two servers have the database of one data directory open, whichever launchers
\* start, stop and restart at once, and whichever of them or of the servers die, until a
\* launcher that judged a lock stale removes that of another at work (Unlink).
OneServer == ~stolen => \A s, t \in Launchers : Serves(s) /\ Serves(t) => s = t

\* A stop that succeeds leaves nothing that serves or that could still come to serve,
\* although it may have begun in the middle of somebody else's launch; likewise until a
\* lock is removed under a launcher at work.
StopLeavesNothing ==
  ~stolen => \A c \in Launchers : At(c, "release") /\ ~Starts(c) /\ cmd[c].ok =>
    record = NoRecord /\ \A s \in Launchers : ~Serves(s)

\* The launch lock is held by one launcher at a time.
Holds(c) == At(c, "recheck") \/ At(c, "spawn") \/ At(c, "record") \/ At(c, "await") \/ At(c, "locked")
LaunchersTakeTurns == \A c, d \in Launchers : Holds(c) /\ Holds(d) => c = d
=============================================================================
