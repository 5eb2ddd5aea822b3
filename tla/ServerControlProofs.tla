------------------------- MODULE ServerControlProofs -------------------------
(***************************************************************************)
(* One server per data directory, and nothing left by a stop, for any set  *)
(* of launchers and any number of crashes, until a launcher removes the    *)
(* lock of another that is at work.                                        *)
(*                                                                         *)
(* A server opens the database only while the record names it and keeps    *)
(* the record until it is gone; so it is enough that nobody overwrites the *)
(* record of a server that lives.  That is what the lock is for: between   *)
(* its look at the record and its writing it, a launcher has the lock, and *)
(* so does a stop between its signal and its answer.                       *)
(***************************************************************************)
EXTENDS ServerControl, TLAPS

Prelaunch == {"idle", "look", "open", "write", "read", "probe", "unlink", "recheck", "spawn"}
Launched == {"record", "await", "clean"}

\* A stop that began with the lock.
StopsLocked(c) ==
  /\ ~Starts(c)
  /\ \/ cmd[c].at \in {"term", "gone", "clear"} /\ ~cmd[c].patient
     \/ cmd[c].at = "locked"
     \/ cmd[c].at = "release" /\ cmd[c].ok

\* The steps that rely on having the lock.
HasLock(c) ==
  /\ ~cmd[c].dead
  /\ cmd[c].at \in {"write", "recheck", "spawn", "record"} \/ StopsLocked(c)

Files ==
  /\ lock \in [holder : Launchers \cup {Nobody}, written : BOOLEAN]
  /\ lock.holder = Nobody => lock = NoLock
  /\ record \in [of : Launchers \cup {Nobody}, state : {"starting", "running"}]
  /\ record.of = Nobody => record = NoRecord
ServerShape == server \in [Launchers -> ServerStages]
CmdShape == cmd \in [Launchers -> Command]
Shapes == Files /\ ServerShape /\ CmdShape

\* A launcher spawns once; whom it waits for was spawned; whom it clears is gone.
Spawning ==
  \A c \in Launchers :
    /\ ~Starts(c) \/ cmd[c].at \in Prelaunch => server[c] = "none"
    /\ cmd[c].at \in Launched => server[c] # "none" /\ Starts(c)
    /\ cmd[c].at \in {"term", "gone"} => cmd[c].seen # Nobody /\ server[cmd[c].seen] # "none"
    /\ cmd[c].at = "clear" => cmd[c].seen # Nobody /\ server[cmd[c].seen] = "gone"
    /\ cmd[c].at \in {"recheck", "spawn"} => Starts(c)
    /\ cmd[c].at \in {"launching", "locked", "term"} => ~Starts(c)

LockIsHeld == \A c \in Launchers : HasLock(c) => lock.holder = c
RecordNamesServer == \A s \in Launchers : Serves(s) => record.of = s
NothingRecorded ==
  \A c \in Launchers : ~cmd[c].dead =>
    /\ cmd[c].at \in {"spawn", "record"} => record = NoRecord
    /\ ~Starts(c) /\ cmd[c].at = "release" /\ cmd[c].ok => record = NoRecord
    /\ StopsLocked(c) /\ cmd[c].at \in {"term", "gone", "clear"} =>
         record.of \in {cmd[c].seen, Nobody}

\* What always holds, what holds until a lock is stolen, and the invariant.
Based == Shapes /\ Spawning
Guarded == Based /\ LockIsHeld /\ RecordNamesServer /\ NothingRecorded
LauncherInv == Based /\ (~stolen => Guarded)

-----------------------------------------------------------------------------
(* How a step changes the launcher that takes it.                          *)

LauncherStep(c) ==
  \/ Begin(c) \/ Look(c) \/ Acquire(c) \/ Unlink(c) \/ Launch(c) \/ StopServer(c)
  \/ ServerStep(c) \/ ServerCrashes(c) \/ LauncherCrashes(c)

\* What a step of c does to the other launchers, and to what c remembers.
OthersStay(c) == \A d \in Launchers \ {c} : cmd'[d] = cmd[d]

\* A launcher that dies forgets nothing, and nobody comes back to life.
LEMMA DiesMoves ==
  ASSUME CmdShape, NEW s \in Launchers, Dies(s)
  PROVE  /\ CmdShape'
         /\ \A d \in Launchers : /\ cmd'[d].at = cmd[d].at /\ cmd'[d].part = cmd[d].part
                                 /\ cmd'[d].seen = cmd[d].seen /\ cmd'[d].ok = cmd[d].ok
                                 /\ cmd'[d].patient = cmd[d].patient
                                 /\ cmd[d].dead => cmd'[d].dead
<1>1. cmd[s] \in Command
  BY DEF CmdShape
<1>2. /\ [cmd[s] EXCEPT !.dead = TRUE] \in Command
      /\ [cmd[s] EXCEPT !.dead = TRUE].dead
      /\ [cmd[s] EXCEPT !.dead = TRUE].at = cmd[s].at
      /\ [cmd[s] EXCEPT !.dead = TRUE].part = cmd[s].part
      /\ [cmd[s] EXCEPT !.dead = TRUE].seen = cmd[s].seen
      /\ [cmd[s] EXCEPT !.dead = TRUE].ok = cmd[s].ok
      /\ [cmd[s] EXCEPT !.dead = TRUE].patient = cmd[s].patient
  BY <1>1 DEF Command
<1>3. cmd' = cmd \/ cmd' = [cmd EXCEPT ![s] = [cmd[s] EXCEPT !.dead = TRUE]]
  BY DEF Dies
<1>4. CmdShape'
  BY <1>1, <1>2, <1>3 DEF CmdShape
<1> QED BY <1>2, <1>3, <1>4 DEF CmdShape

LEMMA ReleaseMoves ==
  ASSUME LauncherAssumption, CmdShape, NEW c \in Launchers, Release(c)
  PROVE  /\ CmdShape' /\ OthersStay(c) /\ ~cmd[c].dead /\ ~cmd'[c].dead
         /\ \/ cmd'[c].at = "end" /\ cmd'[c].part = cmd[c].part
            \/ cmd'[c].at = "look" /\ cmd'[c].part = "start" /\ ~Starts(c)
<1>1. cmd[c] \in Command /\ ~cmd[c].dead
  BY DEF CmdShape, Release, At
<1>2. CASE cmd' = [cmd EXCEPT ![c] = [NewCommand EXCEPT !.at = "look", !.verb = "restart"]]
           /\ ~Starts(c)
  <2> DEFINE k == [NewCommand EXCEPT !.at = "look", !.verb = "restart"]
  <2>0. 0 \in 0..LockAttempts
    BY DEF LauncherAssumption
  <2>1. k \in Command /\ k.at = "look" /\ k.part = "start" /\ k.dead = FALSE
    BY <2>0 DEF NewCommand, Command, Steps
  <2> QED BY <1>1, <1>2, <2>1 DEF CmdShape, OthersStay
<1>3. CASE cmd' = [cmd EXCEPT ![c] = [cmd[c] EXCEPT !.at = "end"]]
  <2>1. /\ [cmd[c] EXCEPT !.at = "end"] \in Command
        /\ [cmd[c] EXCEPT !.at = "end"].at = "end"
        /\ [cmd[c] EXCEPT !.at = "end"].part = cmd[c].part
        /\ [cmd[c] EXCEPT !.at = "end"].dead = cmd[c].dead
    BY <1>1 DEF Command, Steps
  <2> QED BY <1>1, <1>3, <2>1 DEF CmdShape, OthersStay
<1> QED BY <1>2, <1>3 DEF Release, Goes

LEMMA CleanMoves ==
  ASSUME CmdShape, NEW c \in Launchers, CleanFailedLaunch(c)
  PROVE  /\ CmdShape' /\ OthersStay(c) /\ ~cmd[c].dead /\ ~cmd'[c].dead
         /\ cmd'[c].at = "gone" /\ cmd'[c].seen = c /\ cmd'[c].part = cmd[c].part
<1>1. cmd[c] \in Command /\ ~cmd[c].dead
  BY DEF CmdShape, CleanFailedLaunch, At
<1>2. /\ [cmd[c] EXCEPT !.at = "gone", !.seen = c] \in Command
      /\ [cmd[c] EXCEPT !.at = "gone", !.seen = c].at = "gone"
      /\ [cmd[c] EXCEPT !.at = "gone", !.seen = c].seen = c
      /\ [cmd[c] EXCEPT !.at = "gone", !.seen = c].part = cmd[c].part
      /\ [cmd[c] EXCEPT !.at = "gone", !.seen = c].dead = cmd[c].dead
  BY <1>1 DEF Command, Steps
<1>3. cmd' = [cmd EXCEPT ![c] = [cmd[c] EXCEPT !.at = "gone", !.seen = c]]
  BY DEF CleanFailedLaunch
<1> QED BY <1>1, <1>2, <1>3 DEF CmdShape, OthersStay

LEMMA ClearMoves ==
  ASSUME LauncherAssumption, CmdShape, NEW c \in Launchers, ClearRecord(c)
  PROVE  /\ CmdShape' /\ OthersStay(c) /\ ~cmd[c].dead /\ ~cmd'[c].dead
         /\ cmd'[c].part = cmd[c].part
         /\ \/ cmd'[c].at = "release" /\ (Starts(c) \/ ~cmd[c].patient)
            \/ cmd'[c].at = "open" /\ ~Starts(c)
<1>1. cmd[c] \in Command /\ ~cmd[c].dead
  BY DEF CmdShape, ClearRecord, At
<1>2. CASE Starts(c) /\ cmd' = [cmd EXCEPT ![c] = [cmd[c] EXCEPT !.at = "release"]]
  <2>1. /\ [cmd[c] EXCEPT !.at = "release"] \in Command
        /\ [cmd[c] EXCEPT !.at = "release"].at = "release"
        /\ [cmd[c] EXCEPT !.at = "release"].part = cmd[c].part
        /\ [cmd[c] EXCEPT !.at = "release"].dead = cmd[c].dead
    BY <1>1 DEF Command, Steps
  <2> QED BY <1>1, <1>2, <2>1 DEF CmdShape, OthersStay
<1>3. CASE /\ ~Starts(c)
           /\ cmd' = [cmd EXCEPT ![c] = [cmd[c] EXCEPT !.at = "open", !.tries = 0]]
  <2>1. 0 \in 0..LockAttempts
    BY DEF LauncherAssumption
  <2>2. /\ [cmd[c] EXCEPT !.at = "open", !.tries = 0] \in Command
        /\ [cmd[c] EXCEPT !.at = "open", !.tries = 0].at = "open"
        /\ [cmd[c] EXCEPT !.at = "open", !.tries = 0].part = cmd[c].part
        /\ [cmd[c] EXCEPT !.at = "open", !.tries = 0].dead = cmd[c].dead
    BY <1>1, <2>1 DEF Command, Steps
  <2> QED BY <1>1, <1>3, <2>2 DEF CmdShape, OthersStay
<1>4. CASE /\ ~cmd[c].patient
           /\ cmd' = [cmd EXCEPT ![c] = [cmd[c] EXCEPT !.at = "release", !.ok = TRUE]]
  <2>1. /\ [cmd[c] EXCEPT !.at = "release", !.ok = TRUE] \in Command
        /\ [cmd[c] EXCEPT !.at = "release", !.ok = TRUE].at = "release"
        /\ [cmd[c] EXCEPT !.at = "release", !.ok = TRUE].part = cmd[c].part
        /\ [cmd[c] EXCEPT !.at = "release", !.ok = TRUE].dead = cmd[c].dead
    BY <1>1 DEF Command, Steps
  <2> QED BY <1>1, <1>4, <2>1 DEF CmdShape, OthersStay
<1> QED BY <1>2, <1>3, <1>4 DEF ClearRecord, Goes

LEMMA StopMoves ==
  ASSUME CmdShape, Files, NEW c \in Launchers, StopUnderLock(c)
  PROVE  /\ CmdShape' /\ OthersStay(c) /\ ~cmd[c].dead /\ ~cmd'[c].dead
         /\ cmd'[c].part = cmd[c].part
         /\ \/ Running /\ cmd'[c].at = "term" /\ cmd'[c].seen = record.of /\ ~cmd'[c].patient
            \/ ~Running /\ cmd'[c].at = "release"
<1>1. cmd[c] \in Command /\ ~cmd[c].dead /\ record.of \in Launchers \cup {Nobody}
  BY DEF CmdShape, Files, StopUnderLock, At
<1>2. CASE /\ Running
           /\ cmd' = [cmd EXCEPT ![c] =
                [cmd[c] EXCEPT !.at = "term", !.seen = record.of, !.patient = FALSE]]
  <2> DEFINE k == [cmd[c] EXCEPT !.at = "term", !.seen = record.of, !.patient = FALSE]
  <2>1. /\ k \in Command /\ k.at = "term" /\ k.seen = record.of /\ k.patient = FALSE
        /\ k.part = cmd[c].part /\ k.dead = cmd[c].dead
    BY <1>1 DEF Command, Steps
  <2>2. cmd' = [cmd EXCEPT ![c] = k]
    BY <1>2
  <2> HIDE DEF k
  <2> QED BY <1>1, <1>2, <2>1, <2>2 DEF CmdShape, OthersStay
<1>3. CASE /\ ~Running
           /\ cmd' = [cmd EXCEPT ![c] = [cmd[c] EXCEPT !.at = "release", !.ok = TRUE]]
  <2>1. /\ [cmd[c] EXCEPT !.at = "release", !.ok = TRUE] \in Command
        /\ [cmd[c] EXCEPT !.at = "release", !.ok = TRUE].at = "release"
        /\ [cmd[c] EXCEPT !.at = "release", !.ok = TRUE].part = cmd[c].part
        /\ [cmd[c] EXCEPT !.at = "release", !.ok = TRUE].dead = cmd[c].dead
    BY <1>1 DEF Command, Steps
  <2> QED BY <1>1, <1>3, <2>1 DEF CmdShape, OthersStay
<1> QED BY <1>2, <1>3 DEF StopUnderLock

LEMMA CrashMoves ==
  ASSUME CmdShape, NEW c \in Launchers, LauncherCrashes(c)
  PROVE  /\ CmdShape' /\ OthersStay(c)
         /\ cmd'[c].dead /\ cmd'[c].at = cmd[c].at /\ cmd'[c].part = cmd[c].part
         /\ cmd'[c].seen = cmd[c].seen
<1>1. cmd[c] \in Command
  BY DEF CmdShape
<1>2. /\ [cmd[c] EXCEPT !.dead = TRUE] \in Command
      /\ [cmd[c] EXCEPT !.dead = TRUE].dead
      /\ [cmd[c] EXCEPT !.dead = TRUE].at = cmd[c].at
      /\ [cmd[c] EXCEPT !.dead = TRUE].part = cmd[c].part
      /\ [cmd[c] EXCEPT !.dead = TRUE].seen = cmd[c].seen
  BY <1>1 DEF Command
<1>3. cmd' = [cmd EXCEPT ![c] = [cmd[c] EXCEPT !.dead = TRUE]]
  BY DEF LauncherCrashes
<1> QED BY <1>1, <1>2, <1>3 DEF CmdShape, OthersStay

\* The server that stays, or is told to stop, has a stage.
LEMMA TerminatedFits ==
  ASSUME ServerShape, NEW s \in Launchers
  PROVE  /\ Terminated(s) \in [Launchers -> ServerStages]
         /\ \A t \in Launchers : t # s => Terminated(s)[t] = server[t]
         /\ Terminated(s)[s] = "none" <=> server[s] = "none"
         /\ Terminated(s)[s] = "gone" <=> server[s] = "gone"
         /\ Terminated(s)[s] \in {"booting", "ready", "draining"} <=> Serves(s)
         /\ Terminated(s)[s] \in {"none", "gone"} <=> ~Alive(s)
BY DEF ServerShape, Terminated, ServerStages, Serves, Alive

-----------------------------------------------------------------------------
(* The invariant, part by part: one step per action.                       *)

\* Lock and record keep their shape, and are gone when they name nobody.
LEMMA FilesStay ==
  ASSUME LauncherAssumption, Based, NEW c \in Launchers, LauncherStep(c)
  PROVE  Files'
<1>1. CASE Open(c)
  <2>1. CASE lock' = [holder |-> c, written |-> FALSE]
    <3>1. lock'.holder = c /\ lock' \in [holder : Launchers \cup {Nobody}, written : BOOLEAN]
      BY <2>1
    <3> QED BY <1>1, <3>1 DEF Open, Based, Shapes, Files, LauncherAssumption
  <2>2. CASE UNCHANGED lock
    BY <1>1, <2>2 DEF Open, Based, Shapes, Files
  <2> QED BY <1>1, <2>1, <2>2 DEF Open
<1>2. CASE WriteLock(c)
  <2>1. CASE lock' = [lock EXCEPT !.written = TRUE] /\ lock.holder = c
    <3>1. /\ [lock EXCEPT !.written = TRUE].holder = lock.holder
          /\ [lock EXCEPT !.written = TRUE]
               \in [holder : Launchers \cup {Nobody}, written : BOOLEAN]
      BY DEF Based, Shapes, Files
    <3> QED BY <1>2, <2>1, <3>1 DEF WriteLock, Based, Shapes, Files, LauncherAssumption
  <2>2. CASE lock' = lock
    BY <1>2, <2>2 DEF WriteLock, Based, Shapes, Files
  <2> QED BY <1>2, <2>1, <2>2 DEF WriteLock
<1> USE DEF At, Goes, Based, Shapes, Files, NoLock, NoRecord, LauncherAssumption
<1>3. CASE Begin(c)
  BY <1>3 DEF Begin, NewCommand
<1>4. CASE Look(c)
  BY <1>4 DEF Look, StaleCleared, Running, Fails
<1>5. CASE ReadLock(c) \/ Probe(c)
  BY <1>5 DEF ReadLock, Probe, NextRound, Busy, Fails
<1>6. CASE Unlink(c)
  BY <1>6 DEF Unlink, NextRound, Fails
<1>7. CASE Release(c)
  BY <1>7 DEF Release, NewCommand
<1>8. CASE Recheck(c)
  BY <1>8 DEF Recheck, StaleCleared, Running
<1>9. CASE SpawnServer(c)
  BY <1>9 DEF SpawnServer
<1>10. CASE RecordServer(c)
  BY <1>10 DEF RecordServer, Alive
<1>11. CASE AwaitReady(c)
  BY <1>11 DEF AwaitReady, InForeground
<1>12. CASE CleanFailedLaunch(c)
  BY <1>12 DEF CleanFailedLaunch, Terminated
<1>13. CASE Launching(c)
  BY <1>13 DEF Launching, StaleCleared, Running, Fails
<1>14. CASE StopUnderLock(c)
  BY <1>14 DEF StopUnderLock, StaleCleared, Running
<1>15. CASE Term(c)
  BY <1>15 DEF Term, Terminated
<1>16. CASE ForceKill(c)
  BY <1>16 DEF ForceKill
<1>17. CASE ProvenGone(c)
  BY <1>17 DEF ProvenGone, Alive
<1>18. CASE ClearRecord(c)
  BY <1>18 DEF ClearRecord, Without
<1>19. CASE TakeAuthority(c)
  BY <1>19 DEF TakeAuthority, ServerGoes
<1>20. CASE BecomeReady(c)
  BY <1>20 DEF BecomeReady, ServerGoes
<1>21. CASE BootFails(c)
  BY <1>21 DEF BootFails, ServerGoes
<1>22. CASE ServerExits(c)
  BY <1>22 DEF ServerExits, ServerGoes, Without
<1>23. CASE ServerCrashes(c)
  BY <1>23 DEF ServerCrashes, ServerGoes
<1>24. CASE LauncherCrashes(c)
  BY <1>24 DEF LauncherCrashes
<1> QED BY <1>1, <1>2, <1>3, <1>4, <1>5, <1>6, <1>7, <1>8, <1>9, <1>10, <1>11, <1>12,
   <1>13, <1>14, <1>15, <1>16, <1>17, <1>18, <1>19, <1>20, <1>21, <1>22, <1>23, <1>24
   DEF LauncherStep, Acquire, Launch, StopServer, ServerStep


\* Every server is at one of its stages.
LEMMA ServersStay ==
  ASSUME LauncherAssumption, Based, NEW c \in Launchers, LauncherStep(c)
  PROVE  ServerShape'
<1>1. CASE CleanFailedLaunch(c)
  BY <1>1, TerminatedFits DEF CleanFailedLaunch, Based, Shapes, ServerShape
<1>2. CASE Term(c)
  <2>1. cmd[c].seen \in Launchers
    BY <1>2 DEF Term, At, Based, Shapes, CmdShape, Command, Spawning
  <2> QED BY <1>2, <2>1, TerminatedFits DEF Term, Based, Shapes, ServerShape
<1>3. CASE ForceKill(c)
  <2>1. cmd[c].seen \in Launchers
    BY <1>3 DEF ForceKill, At, Based, Shapes, CmdShape, Command, Spawning
  <2> QED BY <1>3, <2>1 DEF ForceKill, Based, Shapes, ServerShape, ServerStages
<1> USE DEF At, Goes, Based, Shapes, ServerShape, ServerStages
<1>4. CASE Begin(c)
  BY <1>4 DEF Begin, NewCommand
<1>5. CASE Look(c)
  BY <1>5 DEF Look, StaleCleared, Running, Fails
<1>6. CASE Open(c)
  BY <1>6 DEF Open
<1>7. CASE WriteLock(c)
  BY <1>7 DEF WriteLock
<1>8. CASE ReadLock(c) \/ Probe(c)
  BY <1>8 DEF ReadLock, Probe, NextRound, Busy, Fails
<1>9. CASE Unlink(c)
  BY <1>9 DEF Unlink, NextRound, Fails
<1>10. CASE Release(c)
  BY <1>10 DEF Release, NewCommand
<1>11. CASE Recheck(c)
  BY <1>11 DEF Recheck, StaleCleared, Running
<1>12. CASE SpawnServer(c)
  BY <1>12 DEF SpawnServer
<1>13. CASE RecordServer(c)
  BY <1>13 DEF RecordServer, Alive
<1>14. CASE AwaitReady(c)
  BY <1>14 DEF AwaitReady, InForeground
<1>15. CASE Launching(c)
  BY <1>15 DEF Launching, StaleCleared, Running, Fails
<1>16. CASE StopUnderLock(c)
  BY <1>16 DEF StopUnderLock, StaleCleared, Running
<1>17. CASE ProvenGone(c)
  BY <1>17 DEF ProvenGone, Alive
<1>18. CASE ClearRecord(c)
  BY <1>18 DEF ClearRecord, Without
<1>19. CASE TakeAuthority(c)
  BY <1>19 DEF TakeAuthority, ServerGoes
<1>20. CASE BecomeReady(c)
  BY <1>20 DEF BecomeReady, ServerGoes
<1>21. CASE BootFails(c)
  BY <1>21 DEF BootFails, ServerGoes
<1>22. CASE ServerExits(c)
  BY <1>22 DEF ServerExits, ServerGoes, Without
<1>23. CASE ServerCrashes(c)
  BY <1>23 DEF ServerCrashes, ServerGoes
<1>24. CASE LauncherCrashes(c)
  BY <1>24 DEF LauncherCrashes
<1> QED BY <1>1, <1>2, <1>3, <1>4, <1>5, <1>6, <1>7, <1>8, <1>9, <1>10, <1>11, <1>12,
   <1>13, <1>14, <1>15, <1>16, <1>17, <1>18, <1>19, <1>20, <1>21, <1>22, <1>23, <1>24
   DEF LauncherStep, Acquire, Launch, StopServer, ServerStep


\* Every launcher is at one of its steps and remembers what it may.
LEMMA CommandsStay ==
  ASSUME LauncherAssumption, Based, NEW c \in Launchers, LauncherStep(c)
  PROVE  CmdShape'
<1>1. CASE Release(c)
  BY <1>1, ReleaseMoves DEF Based, Shapes
<1>2. CASE CleanFailedLaunch(c)
  BY <1>2, CleanMoves DEF Based, Shapes
<1>3. CASE StopUnderLock(c)
  BY <1>3, StopMoves DEF Based, Shapes
<1>4. CASE ForceKill(c)
  <2>1. cmd[c].seen \in Launchers
    BY <1>4 DEF ForceKill, At, Based, Shapes, CmdShape, Command, Spawning
  <2> QED BY <1>4, <2>1, DiesMoves DEF ForceKill, Based, Shapes
<1>5. CASE ClearRecord(c)
  BY <1>5, ClearMoves DEF Based, Shapes
<1>6. CASE ServerExits(c)
  BY <1>6, DiesMoves DEF Based, Shapes, ServerExits
<1>7. CASE ServerCrashes(c)
  BY <1>7, DiesMoves DEF Based, Shapes, ServerCrashes
<1>8. CASE LauncherCrashes(c)
  BY <1>8, CrashMoves DEF Based, Shapes
<1> USE DEF At, Goes, Based, Shapes, Files, CmdShape, Command, Steps,
   LauncherAssumption
<1>9. CASE Begin(c)
  BY <1>9 DEF Begin, NewCommand
<1>10. CASE Look(c)
  BY <1>10 DEF Look, StaleCleared, Running, Fails
<1>11. CASE Open(c)
  BY <1>11 DEF Open
<1>12. CASE WriteLock(c)
  BY <1>12 DEF WriteLock
<1>13. CASE ReadLock(c) \/ Probe(c)
  BY <1>13 DEF ReadLock, Probe, NextRound, Busy, Fails
<1>14. CASE Unlink(c)
  BY <1>14 DEF Unlink, NextRound, Fails
<1>15. CASE Recheck(c)
  BY <1>15 DEF Recheck, StaleCleared, Running
<1>16. CASE SpawnServer(c)
  BY <1>16 DEF SpawnServer
<1>17. CASE RecordServer(c)
  BY <1>17 DEF RecordServer, Alive
<1>18. CASE AwaitReady(c)
  BY <1>18 DEF AwaitReady, InForeground
<1>19. CASE Launching(c)
  BY <1>19 DEF Launching, StaleCleared, Running, Fails
<1>20. CASE Term(c)
  BY <1>20 DEF Term, Terminated
<1>21. CASE ProvenGone(c)
  BY <1>21 DEF ProvenGone, Alive
<1>22. CASE TakeAuthority(c)
  BY <1>22 DEF TakeAuthority, ServerGoes
<1>23. CASE BecomeReady(c)
  BY <1>23 DEF BecomeReady, ServerGoes
<1>24. CASE BootFails(c)
  BY <1>24 DEF BootFails, ServerGoes
<1> QED BY <1>1, <1>2, <1>3, <1>4, <1>5, <1>6, <1>7, <1>8, <1>9, <1>10, <1>11, <1>12,
   <1>13, <1>14, <1>15, <1>16, <1>17, <1>18, <1>19, <1>20, <1>21, <1>22, <1>23, <1>24
   DEF LauncherStep, Acquire, Launch, StopServer, ServerStep


\* A launcher spawns one server, and waits for or clears only what was spawned.
LEMMA SpawningStays ==
  ASSUME LauncherAssumption, Based, NEW c \in Launchers, LauncherStep(c)
  PROVE  Spawning'
<1>1. CASE Release(c)
  BY <1>1, ReleaseMoves
     DEF Release, At, Based, Shapes, Files, ServerShape, Spawning, Prelaunch, Launched, Starts,
         OthersStay, Serves, ServerStages
<1>2. CASE CleanFailedLaunch(c)
  <2>1. CmdShape /\ ServerShape /\ Starts(c) /\ server[c] # "none" /\ server' = Terminated(c)
    BY <1>2 DEF CleanFailedLaunch, At, Based, Shapes, Spawning, Launched
  <2>2. \A d \in Launchers : /\ server'[d] = "none" <=> server[d] = "none"
                             /\ server'[d] = "gone" <=> server[d] = "gone"
    BY <2>1, TerminatedFits
  <2>3. CmdShape'
    BY <1>2, <2>1, CleanMoves
  <2> QED BY <1>2, <2>1, <2>2, <2>3, CleanMoves
     DEF Based, Spawning, Prelaunch, Launched, Starts, OthersStay, CmdShape, Command
<1>3. CASE StopUnderLock(c)
  <2>1. Running => record.of \in Launchers /\ Alive(record.of)
    BY DEF Running, Based, Shapes, Files
  <2>2. cmd[c].at = "locked" /\ ~Starts(c) /\ server' = server
    BY <1>3 DEF StopUnderLock, At, Based, Spawning
  <2>3. CmdShape /\ Files
    BY DEF Based, Shapes
  <2> QED BY <1>3, <2>1, <2>2, <2>3, StopMoves
     DEF Based, Spawning, Prelaunch, Launched, Starts, OthersStay, Alive
<1>4. CASE ForceKill(c)
  <2>1. cmd[c].seen \in Launchers
    BY <1>4 DEF ForceKill, At, Based, Shapes, CmdShape, Command, Spawning
  <2> QED BY <1>4, <2>1, DiesMoves
     DEF ForceKill, At, ServerGoes, Alive, Based, Shapes, ServerShape, Spawning, Prelaunch, Launched,
         Starts
<1>5. CASE ClearRecord(c)
  BY <1>5, ClearMoves
     DEF ClearRecord, At, Based, Shapes, Files, ServerShape, Spawning, Prelaunch, Launched, Starts,
         OthersStay, Serves, ServerStages
<1>6. CASE ServerExits(c)
  BY <1>6, DiesMoves
     DEF ServerExits, At, ServerGoes, Alive, Based, Shapes, ServerShape, Spawning, Prelaunch, Launched,
         Starts
<1>7. CASE ServerCrashes(c)
  BY <1>7, DiesMoves
     DEF ServerCrashes, At, ServerGoes, Alive, Based, Shapes, ServerShape, Spawning, Prelaunch, Launched,
         Starts
<1>8. CASE LauncherCrashes(c)
  BY <1>8, CrashMoves
     DEF LauncherCrashes, At, Based, Shapes, Files, ServerShape, Spawning, Prelaunch, Launched, Starts,
         OthersStay, Serves, ServerStages
<1> USE DEF At, Goes, Based, Shapes, CmdShape, ServerShape, Files, Spawning,
   Prelaunch, Launched, Command, Starts, Alive, NewCommand
<1>9. CASE Begin(c)
  BY <1>9 DEF Begin
<1>10. CASE Look(c)
  BY <1>10 DEF Look, StaleCleared, Running, Fails
<1>11. CASE Open(c)
  BY <1>11 DEF Open
<1>12. CASE WriteLock(c)
  BY <1>12 DEF WriteLock
<1>13. CASE ReadLock(c) \/ Probe(c)
  BY <1>13 DEF ReadLock, Probe, NextRound, Busy, Fails
<1>14. CASE Unlink(c)
  BY <1>14 DEF Unlink, NextRound, Fails
<1>15. CASE Recheck(c)
  BY <1>15 DEF Recheck, StaleCleared, Running
<1>16. CASE SpawnServer(c)
  BY <1>16 DEF SpawnServer
<1>17. CASE RecordServer(c)
  BY <1>17 DEF RecordServer
<1>18. CASE AwaitReady(c)
  BY <1>18 DEF AwaitReady, InForeground
<1>19. CASE Launching(c)
  BY <1>19 DEF Launching, StaleCleared, Running, Fails
<1>20. CASE Term(c)
  BY <1>20 DEF Term, Terminated
<1>21. CASE ProvenGone(c)
  BY <1>21 DEF ProvenGone
<1>22. CASE TakeAuthority(c)
  BY <1>22 DEF TakeAuthority, ServerGoes
<1>23. CASE BecomeReady(c)
  BY <1>23 DEF BecomeReady, ServerGoes
<1>24. CASE BootFails(c)
  BY <1>24 DEF BootFails, ServerGoes
<1> QED BY <1>1, <1>2, <1>3, <1>4, <1>5, <1>6, <1>7, <1>8, <1>9, <1>10, <1>11, <1>12,
   <1>13, <1>14, <1>15, <1>16, <1>17, <1>18, <1>19, <1>20, <1>21, <1>22, <1>23, <1>24
   DEF LauncherStep, Acquire, Launch, StopServer, ServerStep


\* Nobody takes the lock from a launcher that relies on it.
LEMMA LockStaysHeld ==
  ASSUME LauncherAssumption, Guarded, NEW c \in Launchers, LauncherStep(c), ~stolen'
  PROVE  LockIsHeld'
<1>1. CASE Release(c)
  BY <1>1, ReleaseMoves
     DEF Release, At, Guarded, Based, Shapes, Files, LockIsHeld, HasLock, StopsLocked, Starts, OthersStay,
         NoLock, Spawning
<1>2. CASE CleanFailedLaunch(c)
  <2>1. Starts(c) /\ lock' = lock /\ CmdShape
    BY <1>2 DEF CleanFailedLaunch, At, Guarded, Based, Shapes, Spawning, Launched
  <2> QED BY <1>2, <2>1, CleanMoves DEF Guarded, Based, LockIsHeld, HasLock, StopsLocked, Starts, OthersStay
<1>3. CASE StopUnderLock(c)
  <2>1. HasLock(c) /\ lock' = lock /\ CmdShape /\ Files
    BY <1>3 DEF StopUnderLock, At, Guarded, Based, Shapes, Spawning, HasLock, StopsLocked
  <2>2. lock.holder = c
    BY <2>1 DEF Guarded, Based, LockIsHeld
  <2> QED BY <1>3, <2>1, <2>2, StopMoves
    DEF Guarded, Based, LockIsHeld, HasLock, StopsLocked, Starts, OthersStay
<1>4. CASE ForceKill(c)
  <2>1. cmd[c].seen \in Launchers
    BY <1>4 DEF ForceKill, At, Guarded, Based, Shapes, CmdShape, Command, Spawning
  <2> QED BY <1>4, <2>1, DiesMoves
     DEF ForceKill, Guarded, Based, Shapes, LockIsHeld, HasLock, StopsLocked, Starts
<1>5. CASE ClearRecord(c)
  BY <1>5, ClearMoves
     DEF ClearRecord, At, Guarded, Based, Shapes, Files, LockIsHeld, HasLock, StopsLocked, Starts, OthersStay,
         NoLock, Spawning
<1>6. CASE ServerExits(c)
  BY <1>6, DiesMoves DEF ServerExits, Guarded, Based, Shapes, LockIsHeld, HasLock, StopsLocked, Starts
<1>7. CASE ServerCrashes(c)
  BY <1>7, DiesMoves DEF ServerCrashes, Guarded, Based, Shapes, LockIsHeld, HasLock, StopsLocked, Starts
<1>8. CASE LauncherCrashes(c)
  BY <1>8, CrashMoves
     DEF LauncherCrashes, At, Guarded, Based, Shapes, Files, LockIsHeld, HasLock, StopsLocked, Starts, OthersStay,
         NoLock, Spawning
<1> USE DEF At, Goes, Guarded, Based, Shapes, CmdShape, Files, LockIsHeld, HasLock,
   StopsLocked, Spawning, Command, Starts, NewCommand, NoLock
<1>9. CASE Begin(c)
  BY <1>9 DEF Begin
<1>10. CASE Look(c)
  BY <1>10 DEF Look, StaleCleared, Running, Fails
<1>11. CASE Open(c)
  BY <1>11 DEF Open
<1>12. CASE WriteLock(c)
  BY <1>12 DEF WriteLock
<1>13. CASE ReadLock(c) \/ Probe(c)
  BY <1>13 DEF ReadLock, Probe, NextRound, Busy, Fails
<1>14. CASE Unlink(c)
  <2>1. \A d \in Launchers : HasLock(d)' => HasLock(d)
    BY <1>14 DEF Unlink, NextRound, Fails
  <2>2. ASSUME NEW d \in Launchers, HasLock(d) PROVE FALSE
    <3>1. lock.holder = d /\ AtWork(d) /\ d # Nobody
      BY <2>2, LauncherAssumption DEF AtWork, LauncherAssumption
    <3>2. ~(lock # NoLock /\ AtWork(lock.holder))
      BY <1>14, ZenonT(20) DEF Unlink
    <3>3. lock # NoLock
      BY <3>1
    <3> QED BY <3>1, <3>2, <3>3
  <2> QED BY <2>1, <2>2
<1>15. CASE Recheck(c)
  BY <1>15 DEF Recheck, StaleCleared, Running
<1>16. CASE SpawnServer(c)
  BY <1>16 DEF SpawnServer
<1>17. CASE RecordServer(c)
  BY <1>17 DEF RecordServer, Alive
<1>18. CASE AwaitReady(c)
  BY <1>18 DEF AwaitReady, InForeground, Launched
<1>19. CASE Launching(c)
  BY <1>19 DEF Launching, StaleCleared, Running, Fails
<1>20. CASE Term(c)
  BY <1>20 DEF Term, Terminated
<1>21. CASE ProvenGone(c)
  BY <1>21 DEF ProvenGone, Alive
<1>22. CASE TakeAuthority(c)
  BY <1>22 DEF TakeAuthority, ServerGoes
<1>23. CASE BecomeReady(c)
  BY <1>23 DEF BecomeReady, ServerGoes
<1>24. CASE BootFails(c)
  BY <1>24 DEF BootFails, ServerGoes
<1> QED BY <1>1, <1>2, <1>3, <1>4, <1>5, <1>6, <1>7, <1>8, <1>9, <1>10, <1>11, <1>12,
   <1>13, <1>14, <1>15, <1>16, <1>17, <1>18, <1>19, <1>20, <1>21, <1>22, <1>23, <1>24
   DEF LauncherStep, Acquire, Launch, StopServer, ServerStep


\* Nothing overwrites or removes the record of a server that serves.
LEMMA RecordStaysNamed ==
  ASSUME LauncherAssumption, Guarded, NEW c \in Launchers, LauncherStep(c)
  PROVE  RecordNamesServer'
<1> USE DEF At, Goes, Guarded, Based, Shapes, CmdShape, ServerShape, Files,
   RecordNamesServer, NothingRecorded, Spawning, Prelaunch, Launched, Command, Starts,
   Alive, NewCommand, NoRecord, Serves
<1>1. CASE Begin(c)
  BY <1>1 DEF Begin
<1>2. CASE Look(c)
  BY <1>2 DEF Look, StaleCleared, Running, Fails
<1>3. CASE Open(c)
  BY <1>3 DEF Open
<1>4. CASE WriteLock(c)
  BY <1>4 DEF WriteLock
<1>5. CASE ReadLock(c) \/ Probe(c)
  BY <1>5 DEF ReadLock, Probe, NextRound, Busy, Fails
<1>6. CASE Unlink(c)
  BY <1>6 DEF Unlink, NextRound, Fails
<1>7. CASE Release(c)
  BY <1>7 DEF Release
<1>8. CASE Recheck(c)
  BY <1>8 DEF Recheck, StaleCleared, Running
<1>9. CASE SpawnServer(c)
  BY <1>9 DEF SpawnServer
<1>10. CASE RecordServer(c)
  BY <1>10 DEF RecordServer
<1>11. CASE AwaitReady(c)
  BY <1>11 DEF AwaitReady, InForeground
<1>12. CASE CleanFailedLaunch(c)
  BY <1>12 DEF CleanFailedLaunch, Terminated
<1>13. CASE Launching(c)
  BY <1>13 DEF Launching, StaleCleared, Running, Fails
<1>14. CASE StopUnderLock(c)
  BY <1>14 DEF StopUnderLock, StaleCleared, Running
<1>15. CASE Term(c)
  BY <1>15 DEF Term, Terminated
<1>16. CASE ForceKill(c)
  BY <1>16 DEF ForceKill
<1>17. CASE ProvenGone(c)
  BY <1>17 DEF ProvenGone
<1>18. CASE ClearRecord(c)
  BY <1>18 DEF ClearRecord, Without
<1>19. CASE TakeAuthority(c)
  BY <1>19 DEF TakeAuthority, ServerGoes
<1>20. CASE BecomeReady(c)
  BY <1>20 DEF BecomeReady, ServerGoes
<1>21. CASE BootFails(c)
  BY <1>21 DEF BootFails, ServerGoes
<1>22. CASE ServerExits(c)
  BY <1>22 DEF ServerExits, ServerGoes, Without
<1>23. CASE ServerCrashes(c)
  BY <1>23 DEF ServerCrashes, ServerGoes
<1>24. CASE LauncherCrashes(c)
  BY <1>24 DEF LauncherCrashes
<1> QED BY <1>1, <1>2, <1>3, <1>4, <1>5, <1>6, <1>7, <1>8, <1>9, <1>10, <1>11, <1>12,
   <1>13, <1>14, <1>15, <1>16, <1>17, <1>18, <1>19, <1>20, <1>21, <1>22, <1>23, <1>24
   DEF LauncherStep, Acquire, Launch, StopServer, ServerStep


\* What a launcher that has the lock has seen of the record stays true.
LEMMA NothingStaysRecorded ==
  ASSUME LauncherAssumption, Guarded, NEW c \in Launchers, LauncherStep(c)
  PROVE  NothingRecorded'
<1>1. CASE CleanFailedLaunch(c)
  <2>1. CmdShape /\ Starts(c) /\ record' = record
    BY <1>1 DEF CleanFailedLaunch, At, Guarded, Based, Shapes, Spawning, Launched
  <2> QED BY <1>1, <2>1, CleanMoves
     DEF Guarded, Based, NothingRecorded, StopsLocked, Starts, OthersStay
<1>2. CASE ForceKill(c)
  <2>1. cmd[c].seen \in Launchers /\ CmdShape /\ record' = record
    BY <1>2 DEF ForceKill, At, Guarded, Based, Shapes, CmdShape, Command, Spawning
  <2> QED BY <1>2, <2>1, DiesMoves DEF ForceKill, Guarded, Based, NothingRecorded, StopsLocked, Starts
<1>3. CASE ServerExits(c)
  <2>1. CmdShape /\ record' \in {record, NoRecord} /\ NoRecord.of = Nobody
    BY <1>3 DEF ServerExits, Without, NoRecord, Guarded, Based, Shapes
  <2> QED BY <1>3, <2>1, DiesMoves DEF ServerExits, Guarded, Based, NothingRecorded, StopsLocked, Starts
<1>4. CASE ServerCrashes(c)
  <2>1. CmdShape /\ record' = record
    BY <1>4 DEF ServerCrashes, Guarded, Based, Shapes
  <2> QED BY <1>4, <2>1, DiesMoves DEF ServerCrashes, Guarded, Based, NothingRecorded, StopsLocked, Starts
<1> USE DEF At, Goes, Guarded, Based, Shapes, CmdShape, ServerShape, Files,
   RecordNamesServer, NothingRecorded, Spawning, LockIsHeld, HasLock, StopsLocked,
   Command, Starts, Alive, NewCommand, NoRecord, Serves
<1>5. CASE Begin(c)
  BY <1>5 DEF Begin
<1>6. CASE Look(c)
  BY <1>6 DEF Look, StaleCleared, Running, Fails
<1>7. CASE Open(c)
  BY <1>7 DEF Open
<1>8. CASE WriteLock(c)
  BY <1>8 DEF WriteLock
<1>9. CASE ReadLock(c) \/ Probe(c)
  BY <1>9 DEF ReadLock, Probe, NextRound, Busy, Fails
<1>10. CASE Unlink(c)
  BY <1>10 DEF Unlink, NextRound, Fails
<1>11. CASE Release(c)
  BY <1>11 DEF Release
<1>12. CASE Recheck(c)
  BY <1>12 DEF Recheck, StaleCleared, Running
<1>13. CASE SpawnServer(c)
  BY <1>13 DEF SpawnServer
<1>14. CASE RecordServer(c)
  BY <1>14 DEF RecordServer
<1>15. CASE AwaitReady(c)
  BY <1>15 DEF AwaitReady, InForeground, Launched
<1>16. CASE Launching(c)
  BY <1>16 DEF Launching, StaleCleared, Running, Fails
<1>17. CASE StopUnderLock(c)
  BY <1>17 DEF StopUnderLock, StaleCleared, Running
<1>18. CASE Term(c)
  BY <1>18 DEF Term, Terminated
<1>19. CASE ProvenGone(c)
  BY <1>19 DEF ProvenGone
<1>20. CASE ClearRecord(c)
  BY <1>20 DEF ClearRecord, Without
<1>21. CASE TakeAuthority(c)
  BY <1>21 DEF TakeAuthority, ServerGoes
<1>22. CASE BecomeReady(c)
  BY <1>22 DEF BecomeReady, ServerGoes
<1>23. CASE BootFails(c)
  BY <1>23 DEF BootFails, ServerGoes
<1>24. CASE LauncherCrashes(c)
  BY <1>24 DEF LauncherCrashes
<1> QED BY <1>1, <1>2, <1>3, <1>4, <1>5, <1>6, <1>7, <1>8, <1>9, <1>10, <1>11, <1>12,
   <1>13, <1>14, <1>15, <1>16, <1>17, <1>18, <1>19, <1>20, <1>21, <1>22, <1>23, <1>24
   DEF LauncherStep, Acquire, Launch, StopServer, ServerStep


-----------------------------------------------------------------------------
(* The theorems.                                                           *)

LEMMA LauncherStarts ==
  ASSUME LauncherAssumption, LauncherInit
  PROVE  LauncherInv
<1>1. Shapes
  BY DEF LauncherInit, LauncherAssumption, Shapes, Files, ServerShape, CmdShape, NoLock, NoRecord,
         NewCommand, Command, Steps, ServerStages
<1>2. /\ \A c \in Launchers : /\ cmd[c].at = "idle" /\ cmd[c].part = "start"
                              /\ server[c] = "none"
      /\ record.of = Nobody
  BY DEF LauncherInit, NewCommand, NoRecord
<1> QED BY <1>1, <1>2 DEF LauncherInv, Based, Guarded, Spawning, LockIsHeld, HasLock, StopsLocked,
  RecordNamesServer, NothingRecorded, Starts, At, Prelaunch, Launched, Serves

LEMMA LauncherSteps ==
  ASSUME LauncherAssumption, LauncherInv, [LauncherNext]_lvars
  PROVE  LauncherInv'
<1>1. CASE LauncherNext
  <2>1. PICK c \in Launchers : LauncherStep(c) /\ (UNCHANGED stolen \/ Unlink(c))
    BY <1>1 DEF LauncherNext, LauncherStep
  <2>2. Based'
    BY <2>1, FilesStay, ServersStay, CommandsStay, SpawningStays DEF LauncherInv, Based, Shapes
  <2>3. ASSUME ~stolen' PROVE Guarded'
    <3>1. ~stolen
      BY <2>1, <2>3 DEF Unlink
    <3>2. Guarded
      BY <3>1 DEF LauncherInv
    <3> QED BY <2>1, <2>2, <2>3, <3>2, LockStaysHeld, RecordStaysNamed, NothingStaysRecorded
      DEF Guarded
  <2> QED BY <2>2, <2>3 DEF LauncherInv
<1>2. CASE UNCHANGED lvars
  BY <1>2 DEF lvars, LauncherInv, Based, Guarded, Shapes, Files, ServerShape, CmdShape, Spawning,
    LockIsHeld, HasLock, StopsLocked, RecordNamesServer, NothingRecorded, Starts, At, Serves,
    NoLock, NoRecord
<1> QED BY <1>1, <1>2

\* Two servers never have one database open, for any set of launchers and any number of
\* crashes: acquireStartLock, start and serve keep them apart until a recovery, acting on
\* what it found out before, removes the lock of a launcher at work.
THEOREM OneServerPerDirectory == LauncherSpec => []OneServer
<1>1. LauncherInit => LauncherInv
  BY LauncherStarts, LauncherAssumption
<1>2. LauncherInv /\ [LauncherNext]_lvars => LauncherInv'
  BY LauncherSteps, LauncherAssumption
<1>3. LauncherInv => OneServer
  BY DEF LauncherInv, Guarded, RecordNamesServer, OneServer
<1> QED BY <1>1, <1>2, <1>3, PTL DEF LauncherSpec

\* A stop that reports success leaves no server, and none that could still come to serve,
\* likewise until a lock is removed under a launcher at work.
THEOREM StopIsFinal == LauncherSpec => []StopLeavesNothing
<1>1. LauncherInit => LauncherInv
  BY LauncherStarts, LauncherAssumption
<1>2. LauncherInv /\ [LauncherNext]_lvars => LauncherInv'
  BY LauncherSteps, LauncherAssumption
<1>3. LauncherInv => StopLeavesNothing
  <2> SUFFICES ASSUME LauncherInv, ~stolen,
                      NEW c \in Launchers, At(c, "release"), ~Starts(c), cmd[c].ok
               PROVE  record = NoRecord /\ \A s \in Launchers : ~Serves(s)
    BY DEF StopLeavesNothing
  <2>1. record = NoRecord
    BY DEF LauncherInv, Guarded, NothingRecorded, At
  <2>2. \A s \in Launchers : record.of # s
    BY <2>1, LauncherAssumption DEF NoRecord, LauncherAssumption
  <2> QED BY <2>1, <2>2 DEF LauncherInv, Guarded, RecordNamesServer
<1> QED BY <1>1, <1>2, <1>3, PTL DEF LauncherSpec
=============================================================================
