------------------------ MODULE DaemonControlProofs ------------------------
(***************************************************************************)
(* One daemon per machine, for any set of pids and connections and any     *)
(* number of processes that die and whose pids are used again, as long as  *)
(* an owner gives one command at a time: there is no lock.                 *)
(*                                                                         *)
(* What takes the place of the lock is the record.  A daemon that runs is  *)
(* in the pid file; a process that starts, and a command that clears the   *)
(* file or starts a process, has found nobody there, and nothing else can  *)
(* start meanwhile, since a process that starts belongs to the command.    *)
(* For the same reason a poll that a start takes for readiness is its own. *)
(***************************************************************************)
EXTENDS DaemonControl, TLAPS

Sole == \A c, d \in Clis : c = d

NoneActive == \A n \in Procs : ~Active(n)
Checked(n) == proc[n].at \in {"stale", "write"}
Booting(n) == proc[n].at = "boot" \/ Checked(n)
Bound(n) == proc[n].at \in {"stale", "write", "written", "up"}

\* A process that starts is the one a command waits for.
BootsHaveACommand ==
  \A n \in Procs : Booting(n) =>
    \E c \in Clis : cli[c].at \in {"ready", "foreground"} /\ cli[c].child = n

\* One that has looked for another daemon is alone.
BootsAreAlone == \A n \in Procs : Checked(n) => NoneActive

\* What a command relies on at each of its steps.
CommandsKnow ==
  \A c \in Clis :
    /\ cli[c].at \in {"stale-stop", "stale-start", "before", "spawn", "clear"} => NoneActive
    /\ cli[c].at \in {"term", "gone", "kill"} => pidfile \in {0, cli[c].rec}
    /\ cli[c].at = "save" => cli[c].server = active \/ NoneActive

\* The connection a daemon has read is still the active one.
BoundProcsFollow == \A n \in Procs : Bound(n) => proc[n].server = active

Handover == /\ DaemonIsVisible /\ BootsHaveACommand /\ BootsAreAlone /\ CommandsKnow
            /\ BoundProcsFollow
ControlInv == TypeOK /\ Handover

-----------------------------------------------------------------------------
(* Pieces of a step.                                                       *)

Steps == {"idle", "save"} \cup StopSteps \cup StartSteps

\* A row of the process table changes.
LEMMA Moved ==
  ASSUME TypeOK, NEW n \in Procs, NEW at \in Stages, Move(n, at)
  PROVE  /\ proc' \in [Procs -> Process]
         /\ \A m \in Procs : m # n => proc'[m] = proc[m]
         /\ proc'[n].at = at /\ proc'[n].server = proc[n].server
         /\ proc'[n].pid = proc[n].pid
<1> DEFINE x == proc[n]
           row == [x EXCEPT !.at = at]
<1>1. x \in Process /\ proc' = [proc EXCEPT ![n] = row] /\ proc \in [Procs -> Process]
  BY DEF TypeOK, Move
<1> HIDE DEF x
<1>2. /\ row \in Process
      /\ row.at = at /\ row.server = x.server /\ row.pid = x.pid
  BY <1>1 DEF Process
<1> HIDE DEF row
<1> QED
  BY <1>1, <1>2 DEF x

\* A process comes into being.
LEMMA Created ==
  ASSUME TypeOK, NEW n, NEW at \in Stages, Create(n, at)
  PROVE  /\ n \in Procs /\ proc[n].at = "unborn"
         /\ proc' \in [Procs -> Process]
         /\ \A m \in Procs : m # n => proc'[m] = proc[m]
         /\ proc'[n].at = at
<1>1. n \in Procs /\ proc[n].at = "unborn" /\ proc[n] \in Process
  BY DEF Create, Unborn, TypeOK
<1>2. PICK p \in Pids : proc' = [proc EXCEPT ![n].pid = p, ![n].at = at]
  BY DEF Create
<1> DEFINE x == proc[n]
           row == [x EXCEPT !.pid = p, !.at = at]
<1>3. proc' = [proc EXCEPT ![n] = row]
  BY <1>1, <1>2 DEF TypeOK
<1>4. x \in Process
  BY <1>1
<1> HIDE DEF x
<1>5. row \in Process /\ row.at = at
  BY <1>4 DEF Process
<1> HIDE DEF row
<1> QED
  BY <1>1, <1>3, <1>5 DEF TypeOK

\* SIGTERM ends a process, or has it stop.
LEMMA Signalled ==
  ASSUME TypeOK, NEW p, Sigterm(p)
  PROVE  /\ proc' \in [Procs -> Process] /\ parked' \subseteq Servers
         /\ \A m \in Procs : /\ proc'[m].server = proc[m].server
                             /\ IF Live(m) /\ proc[m].pid = p
                                THEN proc'[m].at = AfterTerm(m) ELSE proc'[m] = proc[m]
<1>1. ASSUME NEW m \in Procs
      PROVE  /\ proc'[m] \in Process /\ proc'[m].server = proc[m].server
             /\ IF Live(m) /\ proc[m].pid = p
                THEN proc'[m].at = AfterTerm(m) ELSE proc'[m] = proc[m]
  <2> DEFINE x == proc[m]
  <2>1. x \in Process /\ AfterTerm(m) \in Stages
    BY DEF TypeOK, AfterTerm, Stages
  <2>2. proc'[m] = IF Live(m) /\ x.pid = p THEN [x EXCEPT !.at = AfterTerm(m)] ELSE x
    BY DEF Sigterm, Holder
  <2> HIDE DEF x
  <2>3. /\ [x EXCEPT !.at = AfterTerm(m)] \in Process
        /\ [x EXCEPT !.at = AfterTerm(m)].at = AfterTerm(m)
        /\ [x EXCEPT !.at = AfterTerm(m)].server = x.server
    BY <2>1 DEF Process
  <2> QED
    BY <2>1, <2>2, <2>3 DEF x
<1>2. proc' = [m \in Procs |-> proc'[m]]
  BY DEF Sigterm
<1>3. \A m \in Procs : Abandon(m) \subseteq Servers
  BY DEF Abandon, TypeOK, Process
<1>4. parked' \subseteq Servers
  BY <1>3 DEF Sigterm, Holder, TypeOK
<1>5. proc' \in [Procs -> Process]
  BY <1>1, <1>2
<1> QED
  BY <1>1, <1>4, <1>5

\* What a command row keeps when it steps.
SameRest(x, y) == x.rec = y.rec /\ x.child = y.child /\ x.server = y.server

\* The other commands stand while one moves.
OneRow(c) == cli' \in [Clis -> Command] /\ \A d \in Clis : d # c => cli'[d] = cli[d]

LEMMA Stepped ==
  ASSUME TypeOK, NEW c \in Clis, NEW at \in Steps, Step(c, at)
  PROVE  OneRow(c) /\ cli'[c].at = at /\ SameRest(cli'[c], cli[c])
<1> DEFINE x == cli[c]
           row == [x EXCEPT !.at = at]
<1>1. x \in Command /\ cli' = [cli EXCEPT ![c] = row] /\ cli \in [Clis -> Command]
  BY DEF TypeOK, Step
<1> HIDE DEF x
<1>2. row \in Command /\ row.at = at /\ SameRest(row, x)
  BY <1>1 DEF Command, Steps, SameRest
<1> HIDE DEF row
<1> QED
  BY <1>1, <1>2 DEF x, OneRow

LEMMA Returned ==
  ASSUME TypeOK, NEW c \in Clis, Return(c)
  PROVE  OneRow(c) /\ cli'[c].at = "idle"
<1>1. NoCommand \in Command /\ NoCommand.at = "idle"
  BY DEF NoCommand, Command, Verbs, TypeOK
<1> QED
  BY <1>1 DEF Return, TypeOK, OneRow

LEMMA StopReturned ==
  ASSUME TypeOK, NEW c \in Clis, StopReturns(c)
  PROVE  OneRow(c) /\ cli'[c].at \in {"idle", "look", "save"}
<1>1. AfterStop(c) \in {"idle", "look", "save"}
  BY DEF AfterStop
<1>2. CASE Return(c)
  BY <1>2, Returned
<1>3. CASE cli' = [cli EXCEPT ![c].at = AfterStop(c), ![c].rec = 0]
  <2> DEFINE x == cli[c]
             at == AfterStop(c)
             row == [x EXCEPT !.at = at, !.rec = 0]
  <2>1. x \in Command /\ cli' = [cli EXCEPT ![c] = row] /\ cli \in [Clis -> Command]
    BY <1>3 DEF TypeOK
  <2>2. at \in {"idle", "look", "save"}
    BY <1>1
  <2> HIDE DEF x, at
  <2>3. row \in Command /\ row.at = at
    BY <2>1, <2>2 DEF Command, StartSteps
  <2> HIDE DEF row
  <2> QED
    BY <2>1, <2>2, <2>3 DEF OneRow
<1> QED
  BY <1>2, <1>3 DEF StopReturns

\* A stop takes the record it has verified.
LEMMA RecordTaken ==
  ASSUME TypeOK, NEW c \in Clis, cli' = [cli EXCEPT ![c].at = "term", ![c].rec = pidfile]
  PROVE  OneRow(c) /\ cli'[c].at = "term" /\ cli'[c].rec = pidfile
<1> DEFINE x == cli[c]
           row == [x EXCEPT !.at = "term", !.rec = pidfile]
<1>1. x \in Command /\ cli' = [cli EXCEPT ![c] = row] /\ cli \in [Clis -> Command]
      /\ pidfile \in Procs \cup {0}
  BY DEF TypeOK
<1> HIDE DEF x
<1>2. row \in Command /\ row.at = "term" /\ row.rec = pidfile
  BY <1>1 DEF Command, StopSteps
<1> HIDE DEF row
<1> QED
  BY <1>1, <1>2 DEF OneRow

\* A start takes the process it has created.
LEMMA ChildTaken ==
  ASSUME TypeOK, NEW c \in Clis, NEW n \in Procs, NEW at \in {"ready", "foreground"},
         cli' = [cli EXCEPT ![c].at = at, ![c].child = n]
  PROVE  OneRow(c) /\ cli'[c].at = at /\ cli'[c].child = n
<1> DEFINE x == cli[c]
           row == [x EXCEPT !.at = at, !.child = n]
<1>1. x \in Command /\ cli' = [cli EXCEPT ![c] = row] /\ cli \in [Clis -> Command]
  BY DEF TypeOK
<1> HIDE DEF x
<1>2. row \in Command /\ row.at = at /\ row.child = n
  BY <1>1 DEF Command, StartSteps
<1> HIDE DEF row
<1> QED
  BY <1>1, <1>2 DEF OneRow

\* A start learns the baseline before it spawns, ...
LEMMA BaselineTaken ==
  ASSUME TypeOK, NEW c \in Clis, NEW seen \in {"unknown", "known"},
         cli' = [cli EXCEPT ![c].at = "spawn", ![c].seen = seen]
  PROVE  OneRow(c) /\ cli'[c].at = "spawn"
<1> DEFINE x == cli[c]
           row == [x EXCEPT !.at = "spawn", !.seen = seen]
<1>1. x \in Command /\ cli' = [cli EXCEPT ![c] = row] /\ cli \in [Clis -> Command]
  BY DEF TypeOK
<1> HIDE DEF x
<1>2. row \in Command /\ row.at = "spawn"
  BY <1>1 DEF Command, StartSteps
<1> HIDE DEF row
<1> QED
  BY <1>1, <1>2 DEF OneRow

\* ... or from the first answer while it waits.
LEMMA BaselineSeen ==
  ASSUME TypeOK, NEW c \in Clis, cli' = [cli EXCEPT ![c].seen = "known"]
  PROVE  OneRow(c) /\ cli'[c].at = cli[c].at /\ SameRest(cli'[c], cli[c])
<1> DEFINE x == cli[c]
           row == [x EXCEPT !.seen = "known"]
<1>1. x \in Command /\ cli' = [cli EXCEPT ![c] = row] /\ cli \in [Clis -> Command]
  BY DEF TypeOK
<1> HIDE DEF x
<1>2. row \in Command /\ row.at = x.at /\ SameRest(row, x)
  BY <1>1 DEF Command, SameRest
<1> HIDE DEF row
<1> QED
  BY <1>1, <1>2 DEF x, OneRow

LEMMA Begun ==
  ASSUME TypeOK, NEW c \in Clis, Begin(c)
  PROVE  /\ OneRow(c) /\ cli'[c].at \in {"look", "save", "read"}
         /\ cli'[c].at = "save" => cli'[c].server = active
<1>1. PICK verb \in Verbs, s \in Servers :
        cli' = [cli EXCEPT ![c] = [@ EXCEPT !.verb = verb, !.server = s,
          !.at = CASE verb = "start" -> "look"
                   [] verb = "connect" /\ s = active -> "save"
                   [] OTHER -> "read"]]
  BY DEF Begin
<1> DEFINE x == cli[c]
           at == CASE verb = "start" -> "look"
                   [] verb = "connect" /\ s = active -> "save"
                   [] OTHER -> "read"
           row == [x EXCEPT !.verb = verb, !.server = s, !.at = at]
<1>2. x \in Command /\ cli' = [cli EXCEPT ![c] = row] /\ cli \in [Clis -> Command]
  BY <1>1 DEF TypeOK
<1>3. at \in {"look", "save", "read"} /\ (at = "save" => s = active)
  OBVIOUS
<1> HIDE DEF x, at
<1>4. row \in Command /\ row.at = at /\ row.server = s
  BY <1>2, <1>3 DEF Command, StartSteps, StopSteps
<1> HIDE DEF row
<1> QED
  BY <1>2, <1>3, <1>4 DEF OneRow

\* The server stamps the machine: what a command has seen changes, not where it is.
LEMMA StampedRows ==
  ASSUME TypeOK, NEW s \in Servers, NEW seen \in {"later", "lingering"}, cli' = Stamped(s, seen)
  PROVE  /\ cli' \in [Clis -> Command]
         /\ \A c \in Clis : cli'[c].at = cli[c].at /\ SameRest(cli'[c], cli[c])
<1>1. ASSUME NEW c \in Clis
      PROVE  cli'[c] \in Command /\ cli'[c].at = cli[c].at /\ SameRest(cli'[c], cli[c])
  <2> DEFINE x == cli[c]
  <2>1. x \in Command /\ cli'[c] \in {x, [x EXCEPT !.seen = seen]}
    BY DEF Stamped, TypeOK
  <2> HIDE DEF x
  <2>2. [x EXCEPT !.seen = seen] \in Command
    BY <2>1 DEF Command
  <2>3. [x EXCEPT !.seen = seen].at = x.at /\ SameRest([x EXCEPT !.seen = seen], x)
    BY <2>1 DEF Command, SameRest
  <2>4. SameRest(x, x)
    BY DEF SameRest
  <2> QED
    BY <2>1, <2>2, <2>3, <2>4 DEF x
<1> QED
  BY <1>1 DEF Stamped

-----------------------------------------------------------------------------
(* Types.                                                                  *)

\* What TypeOK asks of one command beside its shape.
Knows(r) == /\ r.at \in {"term", "gone", "kill"} => r.rec # 0
            /\ r.at \in {"ready", "online", "foreground"} => r.child # 0

LEMMA InitTypes == Init => TypeOK
<1> SUFFICES ASSUME Init PROVE TypeOK
  OBVIOUS
<1>1. (CHOOSE p \in Pids : TRUE) \in Pids
  BY ControlAssumption
<1>2. proc \in [Procs -> Process]
  BY <1>1 DEF Init, Process, Stages
<1>3. NoCommand \in Command /\ NoCommand.at = "idle"
  BY DEF Init, NoCommand, Command, Verbs
<1> QED
  BY <1>2, <1>3 DEF Init, TypeOK

LEMMA DaemonTypes ==
  ASSUME TypeOK, NEW n \in Procs, DaemonStep(n) \/ Die(n) \/ Stranger(n)
  PROVE  TypeOK'
<1>0. /\ {"unborn", "boot", "stale", "write", "written", "up", "stopping", "closed",
          "stranger", "gone"} = Stages
      /\ \A m \in Procs : proc[m] \in Process /\ Abandon(m) \subseteq Servers
  BY DEF Stages, TypeOK, Process, Abandon
<1>1. CASE Boot(n)
  <2> DEFINE x == proc[n]
             at == IF Verified # 0 THEN "gone" ELSE IF Stale THEN "stale" ELSE "write"
             row == [x EXCEPT !.server = active, !.at = at]
  <2>1. x \in Process /\ at \in Stages /\ proc' = [proc EXCEPT ![n] = row]
    BY <1>0, <1>1 DEF Boot, TypeOK
  <2> HIDE DEF x, at
  <2>2. row \in Process
    BY <2>1 DEF Process, TypeOK
  <2> HIDE DEF row
  <2> QED
    BY <1>1, <2>1, <2>2 DEF Boot, TypeOK
<1>2. CASE ClearStale(n)
  BY <1>0, <1>2, Moved DEF ClearStale, TypeOK
<1>3. CASE WritePidFile(n)
  BY <1>0, <1>3, Moved DEF WritePidFile, TypeOK
<1>4. CASE Handlers(n)
  BY <1>0, <1>4, Moved DEF Handlers, TypeOK
<1>5. CASE Poll(n)
  <2> DEFINE x == proc[n]
             row == [x EXCEPT !.polled = TRUE]
  <2>1. x \in Process /\ proc' = [proc EXCEPT ![n] = row] /\ x.server \in Servers
    BY <1>0, <1>5 DEF Poll, TypeOK, Process
  <2>2. /\ cli' \in [Clis -> Command]
        /\ \A c \in Clis : cli'[c].at = cli[c].at /\ SameRest(cli'[c], cli[c])
    BY <1>5, <2>1, StampedRows DEF Poll
  <2> HIDE DEF x
  <2>3. row \in Process
    BY <2>1 DEF Process
  <2> HIDE DEF row
  <2>4. proc' \in [Procs -> Process] /\ UNCHANGED <<pidfile, active, parked>>
    BY <1>5, <2>1, <2>3 DEF Poll, TypeOK
  <2>5. ASSUME NEW c \in Clis
        PROVE  /\ cli'[c].at \in {"term", "gone", "kill"} => cli'[c].rec # 0
               /\ cli'[c].at \in {"ready", "online", "foreground"} => cli'[c].child # 0
    BY <2>2, <1>0 DEF TypeOK, SameRest
  <2> QED
    BY <2>2, <2>4, <2>5 DEF TypeOK
<1>6. CASE Close(n)
  BY <1>0, <1>6, Moved DEF Close, TypeOK
<1>7. CASE Die(n)
  BY <1>0, <1>7, Moved DEF Die, TypeOK
<1>8. CASE Stranger(n)
  BY <1>0, <1>8, Created DEF Stranger, TypeOK
<1> QED
  BY <1>1, <1>2, <1>3, <1>4, <1>5, <1>6, <1>7, <1>8 DEF DaemonStep

\* A command's row moves, the rest has its shape.
LEMMA RowTypes ==
  ASSUME TypeOK, NEW c \in Clis, OneRow(c), Knows(cli'[c]),
         proc' \in [Procs -> Process], pidfile' \in Procs \cup {0},
         active' \in Servers, parked' \subseteq Servers
  PROVE  TypeOK'
BY DEF TypeOK, OneRow, Knows

LEMMA CommandTypes ==
  ASSUME TypeOK, NEW c \in Clis, Begin(c) \/ Foreground(c) \/ Proceed(c)
  PROVE  TypeOK'
<1>0. /\ {"idle", "save", "read", "stale-stop", "term", "gone", "kill", "clear", "look",
          "stale-start", "before", "spawn", "ready", "online", "foreground"} = Steps
      /\ {"boot", "gone"} \subseteq Stages /\ 0 \notin Procs
      /\ proc \in [Procs -> Process] /\ pidfile \in Procs \cup {0}
      /\ active \in Servers /\ parked \subseteq Servers
      /\ cli[c] \in Command /\ Knows(cli[c])
      /\ \A m \in Procs : Abandon(m) \subseteq Servers
  BY DEF Steps, StopSteps, StartSteps, Stages, Procs, TypeOK, Process, Abandon, Knows
<1>1. ASSUME OneRow(c), cli'[c].at \in {"idle", "save", "look", "read"}
      PROVE  Knows(cli'[c])
  BY <1>1 DEF Knows
<1>2. ASSUME Return(c) PROVE OneRow(c) /\ Knows(cli'[c])
  BY <1>1, <1>2, Returned
<1>3. ASSUME StopReturns(c) PROVE OneRow(c) /\ Knows(cli'[c])
  BY <1>1, <1>3, StopReturned
<1>4. ASSUME NEW at \in Steps, Step(c, at),
             \/ at \notin {"term", "gone", "kill", "ready", "online", "foreground"}
             \/ at \in {"gone", "kill"} /\ cli[c].at \in {"term", "gone", "kill"}
             \/ at = "online" /\ cli[c].at = "ready"
      PROVE  OneRow(c) /\ Knows(cli'[c])
  BY <1>0, <1>4, Stepped DEF Knows, SameRest
<1>5. CASE Begin(c)
  BY <1>0, <1>1, <1>5, Begun, RowTypes DEF Begin
<1>6. CASE Foreground(c)
  <2>1. PICK n \in Procs : Create(n, "boot")
                           /\ cli' = [cli EXCEPT ![c].at = "foreground", ![c].child = n]
    BY <1>6 DEF Foreground
  <2>2. proc' \in [Procs -> Process]
    BY <1>0, <2>1, Created
  <2>3. OneRow(c) /\ cli'[c].at = "foreground" /\ cli'[c].child = n
    BY <2>1, ChildTaken
  <2> QED
    BY <1>0, <1>6, <2>2, <2>3, RowTypes DEF Foreground, Knows
<1>7. CASE ReadRecord(c)
  <2>1. CASE Verified # 0
    BY <1>0, <1>7, <2>1, RecordTaken, RowTypes DEF ReadRecord, Knows, Verified
  <2>2. CASE Verified = 0 /\ Stale
    BY <1>0, <1>4, <1>7, <2>2, RowTypes DEF ReadRecord
  <2>3. CASE Verified = 0 /\ ~Stale
    BY <1>0, <1>3, <1>7, <2>3, RowTypes DEF ReadRecord
  <2> QED
    BY <2>1, <2>2, <2>3
<1>8. CASE ClearStaleRecord(c)
  <2>1. OneRow(c) /\ Knows(cli'[c])
    BY <1>0, <1>3, <1>4, <1>8 DEF ClearStaleRecord
  <2> QED
    BY <1>0, <1>8, <2>1, RowTypes DEF ClearStaleRecord
<1>9. CASE Terminate(c)
  <2>1. OneRow(c) /\ Knows(cli'[c])
    BY <1>0, <1>4, <1>9 DEF Terminate
  <2>2. proc' \in [Procs -> Process] /\ parked' \subseteq Servers
    BY <1>0, <1>9, Signalled DEF Terminate
  <2> QED
    BY <1>0, <1>9, <2>1, <2>2, RowTypes DEF Terminate
<1>10. CASE WaitGone(c)
  BY <1>0, <1>4, <1>10, RowTypes DEF WaitGone
<1>11. CASE GiveUp(c)
  BY <1>0, <1>4, <1>11, RowTypes DEF GiveUp
<1>12. CASE Kill(c)
  <2>1. OneRow(c) /\ Knows(cli'[c])
    BY <1>0, <1>2, <1>4, <1>12 DEF Kill
  <2>2. cli[c].rec \in Procs
    BY <1>0, <1>12 DEF Kill, Knows, Command
  <2>3. proc' \in [Procs -> Process] /\ parked' \subseteq Servers
    BY <1>0, <1>12, <2>2, Moved DEF Kill
  <2> QED
    BY <1>0, <1>12, <2>1, <2>3, RowTypes DEF Kill
<1>13. CASE ClearPid(c)
  BY <1>0, <1>3, <1>13, RowTypes DEF ClearPid
<1>14. CASE Save(c)
  <2>1. cli[c].server \in Servers
    BY <1>0 DEF Command
  <2> QED
    BY <1>0, <1>4, <1>14, <2>1, RowTypes DEF Save
<1>15. CASE Look(c)
  BY <1>0, <1>2, <1>4, <1>15, RowTypes DEF Look
<1>16. CASE Before(c)
  <2>1. OneRow(c) /\ Knows(cli'[c])
    BY <1>2, <1>16, BaselineTaken DEF Before, Knows
  <2> QED
    BY <1>0, <1>16, <2>1, RowTypes DEF Before
<1>17. CASE SpawnDaemon(c)
  <2>1. CASE Return(c) /\ UNCHANGED proc
    BY <1>0, <1>2, <1>17, <2>1, RowTypes DEF SpawnDaemon
  <2>2. ASSUME NEW n \in Procs, Create(n, "boot"),
               cli' = [cli EXCEPT ![c].at = "ready", ![c].child = n]
        PROVE  TypeOK'
    <3>1. proc' \in [Procs -> Process]
      BY <1>0, <2>2, Created
    <3>2. OneRow(c) /\ Knows(cli'[c])
      BY <1>0, <2>2, ChildTaken DEF Knows
    <3> QED
      BY <1>0, <1>17, <3>1, <3>2, RowTypes DEF SpawnDaemon
  <2> QED
    BY <1>17, <2>1, <2>2 DEF SpawnDaemon
<1>18. CASE Ready(c)
  <2>1. OneRow(c) /\ Knows(cli'[c])
    BY <1>0, <1>4, <1>18, BaselineSeen DEF Ready, Knows, SameRest
  <2> QED
    BY <1>0, <1>18, <2>1, RowTypes DEF Ready
<1>19. CASE Attached(c) \/ Announce(c)
  BY <1>0, <1>2, <1>19, RowTypes DEF Attached, Announce
<1>20. CASE NotReady(c)
  BY <1>0, <1>2, <1>20, Signalled, RowTypes DEF NotReady
<1> QED
  BY <1>5, <1>6, <1>7, <1>8, <1>9, <1>10, <1>11, <1>12, <1>13, <1>14, <1>15, <1>16, <1>17,
     <1>18, <1>19, <1>20 DEF Proceed

\* A command moves its own row only.
LEMMA CommandMovesOneRow ==
  ASSUME TypeOK, NEW c \in Clis, Begin(c) \/ Foreground(c) \/ Proceed(c)
  PROVE  OneRow(c)
<1>0. {"idle", "save", "read", "stale-stop", "term", "gone", "kill", "clear", "look",
       "stale-start", "before", "spawn", "ready", "online", "foreground"} = Steps
  BY DEF Steps, StopSteps, StartSteps
<1>1. ASSUME NEW at \in Steps, Step(c, at) PROVE OneRow(c)
  BY <1>1, Stepped
<1>2. CASE Begin(c) \/ Foreground(c) \/ Before(c) \/ SpawnDaemon(c)
  BY <1>2, Begun, Returned, BaselineTaken, ChildTaken DEF Foreground, Before, SpawnDaemon
<1>3. CASE ReadRecord(c) \/ ClearStaleRecord(c) \/ ClearPid(c)
  BY <1>0, <1>1, <1>3, StopReturned, RecordTaken DEF ReadRecord, ClearStaleRecord, ClearPid
<1>4. CASE Terminate(c) \/ WaitGone(c) \/ GiveUp(c) \/ Kill(c) \/ Save(c) \/ Look(c)
  BY <1>0, <1>1, <1>4, Returned DEF Terminate, WaitGone, GiveUp, Kill, Save, Look
<1>5. CASE Ready(c) \/ Attached(c) \/ Announce(c) \/ NotReady(c)
  BY <1>0, <1>1, <1>5, Returned, BaselineSeen DEF Ready, Attached, Announce, NotReady
<1> QED
  BY <1>2, <1>3, <1>4, <1>5 DEF Proceed

LEMMA NextTypes == TypeOK /\ [Next]_cvars => TypeOK'
<1> SUFFICES ASSUME TypeOK, [Next]_cvars PROVE TypeOK'
  OBVIOUS
<1>1. CASE UNCHANGED cvars
  BY <1>1 DEF cvars, TypeOK
<1>2. CASE \E n \in Procs : DaemonStep(n) \/ Die(n) \/ Stranger(n)
  BY <1>2, DaemonTypes
<1>3. ASSUME NEW s \in Servers, LatePoll(s) PROVE TypeOK'
  <2>1. /\ cli' \in [Clis -> Command]
        /\ \A c \in Clis : cli'[c].at = cli[c].at /\ SameRest(cli'[c], cli[c])
    BY <1>3, StampedRows DEF LatePoll
  <2> QED
    BY <1>3, <2>1 DEF LatePoll, TypeOK, SameRest
<1>4. CASE \E c \in Clis : Begin(c) \/ Foreground(c) \/ Proceed(c)
  BY <1>4, CommandTypes
<1> QED
  BY <1>1, <1>2, <1>3, <1>4 DEF Next

\* What the fairness of the commands does not change.
LEMMA SpecSteps == Spec => Init /\ [][Next]_cvars
BY PTL DEF Spec

\* Processes, pid file and commands keep their shapes, and a command that signals or
\* waits names a process, however many commands run at once.
THEOREM ControlTypeCorrect == Spec => []TypeOK
BY InitTypes, NextTypes, SpecSteps, PTL
-----------------------------------------------------------------------------
(* The handover.                                                           *)

\* What a step leaves that starts nothing: no process comes nearer to running.
Calm ==
  \A n \in Procs :
    /\ proc'[n].at \in {"written", "up", "stopping"} => Active(n)
    /\ proc'[n].at \in {"stale", "write"} => Checked(n)
    /\ proc'[n].at = "boot" => Booting(n)
    /\ proc'[n].at \in {"stale", "write", "written", "up"} =>
         Bound(n) /\ proc'[n].server = proc[n].server
RecordStands == pidfile' = pidfile \/ (pidfile' = 0 /\ NoneActive')

LEMMA CalmStep ==
  ASSUME TypeOK, Handover, Calm, RecordStands, active' = active,
         BootsHaveACommand', CommandsKnow'
  PROVE  Handover'
<1>1. DaemonIsVisible'
  BY DEF Handover, DaemonIsVisible, Calm, RecordStands, NoneActive, Active
<1>2. BootsAreAlone'
  BY DEF Handover, BootsAreAlone, Calm, NoneActive, Active, Checked
<1>3. BoundProcsFollow'
  BY DEF Handover, BoundProcsFollow, Calm, Bound
<1> QED
  BY <1>1, <1>2, <1>3 DEF Handover

LEMMA CalmBoots ==
  ASSUME Calm, NEW n \in Procs, Booting(n)'
  PROVE  Booting(n)
BY DEF Calm, Booting, Checked

LEMMA CalmAlone ==
  ASSUME Calm, NoneActive
  PROVE  NoneActive'
BY DEF Calm, NoneActive, Active

\* The commands stand where they are.
SameCommands == \A c \in Clis : cli'[c].at = cli[c].at /\ SameRest(cli'[c], cli[c])

LEMMA CalmDaemon ==
  ASSUME TypeOK, Handover, Calm, RecordStands, active' = active, SameCommands
  PROVE  Handover'
<1>1. BootsHaveACommand'
  BY CalmBoots DEF Handover, BootsHaveACommand, SameCommands, SameRest
<1>2. CommandsKnow'
  <2> SUFFICES ASSUME NEW c \in Clis
               PROVE  /\ cli'[c].at \in {"stale-stop", "stale-start", "before", "spawn", "clear"}
                           => NoneActive'
                      /\ cli'[c].at \in {"term", "gone", "kill"} => pidfile' \in {0, cli'[c].rec}
                      /\ cli'[c].at = "save" => (cli'[c].server = active' \/ NoneActive')
    BY DEF CommandsKnow
  <2> QED
    BY CalmAlone DEF Handover, CommandsKnow, SameCommands, SameRest, RecordStands
<1> QED
  BY <1>1, <1>2, CalmStep

\* Whoever finds no daemon in the pid file is right: there is none.
LEMMA NobodyFound ==
  ASSUME TypeOK, DaemonIsVisible, Verified = 0
  PROVE  NoneActive
<1>1. 0 \notin Procs
  BY DEF Procs
<1> QED
  BY <1>1 DEF TypeOK, DaemonIsVisible, Verified, NoneActive, Active, Live

\* The one a command has named is gone: there is none.
LEMMA NamedIsGone ==
  ASSUME TypeOK, Handover, NEW c \in Clis, cli[c].at \in {"term", "gone", "kill"},
         ~Live(cli[c].rec)
  PROVE  NoneActive
<1>1. 0 \notin Procs /\ pidfile \in {0, cli[c].rec}
  BY DEF Procs, Handover, CommandsKnow
<1> QED
  BY <1>1 DEF Handover, DaemonIsVisible, NoneActive, Active, Live

LEMMA DaemonHandover ==
  ASSUME Sole, TypeOK, Handover, NEW n \in Procs, DaemonStep(n) \/ Die(n) \/ Stranger(n)
  PROVE  Handover'
<1>0. /\ {"stale", "write", "written", "up", "closed", "stranger", "gone"} \subseteq Stages
      /\ proc \in [Procs -> Process] /\ 0 \notin Procs /\ n # 0
  BY DEF Stages, TypeOK, Procs
<1>1. CASE Boot(n)
  <2> DEFINE x == proc[n]
             at == IF Verified # 0 THEN "gone" ELSE IF Stale THEN "stale" ELSE "write"
             row == [x EXCEPT !.server = active, !.at = at]
  <2>1. /\ x \in Process /\ proc' = [proc EXCEPT ![n] = row] /\ x.at = "boot"
        /\ at \in {"gone", "stale", "write"} /\ (at # "gone" => Verified = 0)
    BY <1>0, <1>1 DEF Boot
  <2> HIDE DEF at
  <2>2. row.at = at /\ row.server = active
    BY <2>1 DEF Process
  <2>3. /\ \A m \in Procs : m # n => proc'[m] = proc[m]
        /\ proc'[n].at = at /\ proc'[n].server = active /\ proc[n].at = "boot"
    BY <1>0, <2>1, <2>2
  <2>4. at # "gone" => NoneActive
    BY <2>1, NobodyFound DEF Handover
  <2>5. pidfile' = pidfile /\ active' = active /\ cli' = cli
    BY <1>1 DEF Boot
  <2>6. DaemonIsVisible'
    BY <2>1, <2>3, <2>5 DEF Handover, DaemonIsVisible, Active
  <2>7. BootsHaveACommand'
    BY <2>3, <2>5 DEF Handover, BootsHaveACommand, Booting, Checked
  <2>8. NoneActive => NoneActive'
    BY <2>1, <2>3 DEF NoneActive, Active
  <2>9. BootsAreAlone'
    BY <2>1, <2>3, <2>4, <2>8 DEF Handover, BootsAreAlone, Checked
  <2>10. CommandsKnow'
    BY <2>5, <2>8 DEF Handover, CommandsKnow
  <2>11. BoundProcsFollow'
    BY <2>1, <2>3, <2>5 DEF Handover, BoundProcsFollow, Bound
  <2> QED
    BY <2>6, <2>7, <2>9, <2>10, <2>11 DEF Handover
<1>2. CASE ClearStale(n)
  <2>1. /\ \A m \in Procs : m # n => proc'[m] = proc[m]
        /\ proc'[n].at = "write" /\ proc'[n].server = proc[n].server /\ proc[n].at = "stale"
        /\ pidfile' = 0 /\ active' = active /\ cli' = cli
    BY <1>0, <1>2, Moved DEF ClearStale
  <2>2. Calm /\ SameCommands
    BY <2>1 DEF Calm, Active, Checked, Booting, Bound, SameCommands, SameRest
  <2>3. NoneActive
    BY <2>1 DEF Handover, BootsAreAlone, Checked
  <2> QED
    BY <2>1, <2>2, <2>3, CalmAlone, CalmDaemon DEF RecordStands
<1>3. CASE WritePidFile(n)
  <2>1. /\ \A m \in Procs : m # n => proc'[m] = proc[m]
        /\ proc'[n].at = "written" /\ proc'[n].server = proc[n].server /\ proc[n].at = "write"
        /\ pidfile' = n /\ active' = active /\ cli' = cli
    BY <1>0, <1>3, Moved DEF WritePidFile
  <2>2. NoneActive
    BY <2>1 DEF Handover, BootsAreAlone, Checked
  <2>3. PICK c \in Clis : cli[c].at \in {"ready", "foreground"} /\ cli[c].child = n
    BY <2>1 DEF Handover, BootsHaveACommand, Booting, Checked
  <2>4. \A d \in Clis : d = c
    BY DEF Sole
  <2>5. \A m \in Procs : Booting(m) => m = n
    BY <2>3, <2>4 DEF Handover, BootsHaveACommand
  <2>6. DaemonIsVisible'
    BY <2>1, <2>2 DEF DaemonIsVisible, NoneActive, Active
  <2>7. BootsHaveACommand'
    BY <2>1 DEF Handover, BootsHaveACommand, Booting, Checked
  <2>8. BootsAreAlone'
    BY <2>1, <2>5 DEF BootsAreAlone, Booting, Checked
  <2>9. CommandsKnow'
    BY <2>1, <2>3, <2>4 DEF CommandsKnow
  <2>10. BoundProcsFollow'
    BY <2>1 DEF Handover, BoundProcsFollow, Bound
  <2> QED
    BY <2>6, <2>7, <2>8, <2>9, <2>10 DEF Handover
<1>4. CASE Handlers(n)
  <2>1. /\ \A m \in Procs : m # n => proc'[m] = proc[m]
        /\ proc'[n].at = "up" /\ proc'[n].server = proc[n].server /\ proc[n].at = "written"
        /\ pidfile' = pidfile /\ active' = active /\ cli' = cli
    BY <1>0, <1>4, Moved DEF Handlers
  <2>2. Calm /\ SameCommands
    BY <2>1 DEF Calm, Active, Checked, Booting, Bound, SameCommands, SameRest
  <2> QED
    BY <2>1, <2>2, CalmDaemon DEF RecordStands
<1>5. CASE Poll(n)
  <2> DEFINE x == proc[n]
             row == [x EXCEPT !.polled = TRUE]
  <2>1. x \in Process /\ proc' = [proc EXCEPT ![n] = row] /\ x.server \in Servers
    BY <1>0, <1>5 DEF Poll, Process
  <2>2. SameCommands
    BY <1>5, <2>1, StampedRows DEF Poll, SameCommands
  <2> HIDE DEF x
  <2>3. row.at = x.at /\ row.server = x.server
    BY <2>1 DEF Process
  <2>4. \A m \in Procs : proc'[m].at = proc[m].at /\ proc'[m].server = proc[m].server
    BY <1>0, <2>1, <2>3 DEF x
  <2>5. Calm
    BY <2>4 DEF Calm, Active, Checked, Booting, Bound
  <2> QED
    BY <1>5, <2>2, <2>5, CalmDaemon DEF RecordStands, Poll
<1>6. CASE Close(n)
  <2>1. /\ \A m \in Procs : m # n => proc'[m] = proc[m]
        /\ proc'[n].at = "closed" /\ proc'[n].server = proc[n].server /\ proc[n].at = "stopping"
        /\ pidfile' \in {0, pidfile} /\ active' = active /\ cli' = cli
    BY <1>0, <1>6, Moved DEF Close
  <2>2. Calm /\ SameCommands
    BY <2>1 DEF Calm, Active, Checked, Booting, Bound, SameCommands, SameRest
  <2>3. NoneActive'
    BY <2>1 DEF Handover, DaemonIsVisible, NoneActive, Active
  <2> QED
    BY <2>1, <2>2, <2>3, CalmDaemon DEF RecordStands
<1>7. CASE Die(n)
  <2>1. /\ \A m \in Procs : m # n => proc'[m] = proc[m]
        /\ proc'[n].at = "gone"
        /\ pidfile' = pidfile /\ active' = active /\ cli' = cli
    BY <1>0, <1>7, Moved DEF Die
  <2>2. Calm /\ SameCommands
    BY <2>1 DEF Calm, Active, Checked, Booting, Bound, SameCommands, SameRest
  <2> QED
    BY <2>1, <2>2, CalmDaemon DEF RecordStands
<1>8. CASE Stranger(n)
  <2>1. /\ \A m \in Procs : m # n => proc'[m] = proc[m]
        /\ proc'[n].at = "stranger"
        /\ pidfile' = pidfile /\ active' = active /\ cli' = cli
    BY <1>0, <1>8, Created DEF Stranger
  <2>2. Calm /\ SameCommands
    BY <2>1 DEF Calm, Active, Checked, Booting, Bound, SameCommands, SameRest
  <2> QED
    BY <2>1, <2>2, CalmDaemon DEF RecordStands
<1> QED
  BY <1>1, <1>2, <1>3, <1>4, <1>5, <1>6, <1>7, <1>8 DEF DaemonStep

\* With one command in progress, its own row says it all.
LEMMA OneCommand ==
  ASSUME Sole, NEW c \in Clis,
         \A n \in Procs : Booting(n)' => cli'[c].at \in {"ready", "foreground"}
                                         /\ cli'[c].child = n,
         cli'[c].at \in {"stale-stop", "stale-start", "before", "spawn", "clear"} => NoneActive',
         cli'[c].at \in {"term", "gone", "kill"} => pidfile' \in {0, cli'[c].rec},
         cli'[c].at = "save" => (cli'[c].server = active' \/ NoneActive')
  PROVE  BootsHaveACommand' /\ CommandsKnow'
<1>1. \A d \in Clis : d = c
  BY DEF Sole
<1> QED
  BY <1>1 DEF BootsHaveACommand, CommandsKnow

\* What a command that starts nothing leaves to show.
LEMMA CalmCommand ==
  ASSUME Sole, TypeOK, Handover, Calm, RecordStands, active' = active, NEW c \in Clis,
         cli[c].at \in {"ready", "foreground"} =>
           \/ cli'[c].at = cli[c].at /\ cli'[c].child = cli[c].child
           \/ proc'[cli[c].child].at \notin {"boot", "stale", "write"},
         cli'[c].at \in {"stale-stop", "stale-start", "before", "spawn", "clear"} => NoneActive,
         cli'[c].at \in {"term", "gone", "kill"} => pidfile' \in {0, cli'[c].rec},
         cli'[c].at = "save" => (cli'[c].server = active \/ NoneActive)
  PROVE  Handover'
<1>1. \A d \in Clis : d = c
  BY DEF Sole
<1>2. ASSUME NEW n \in Procs, Booting(n)'
      PROVE  cli'[c].at \in {"ready", "foreground"} /\ cli'[c].child = n
  <2>1. cli[c].at \in {"ready", "foreground"} /\ cli[c].child = n
    BY <1>1, <1>2, CalmBoots DEF Handover, BootsHaveACommand
  <2> QED
    BY <1>2, <2>1 DEF Booting, Checked
<1>3. BootsHaveACommand' /\ CommandsKnow'
  BY <1>2, CalmAlone, OneCommand
<1> QED
  BY <1>3, CalmStep

LEMMA UnchangedIsCalm ==
  ASSUME proc' = proc
  PROVE  Calm
BY DEF Calm, Active, Checked, Booting, Bound

LEMMA SignalIsCalm ==
  ASSUME TypeOK, NEW p, Sigterm(p)
  PROVE  /\ Calm
         /\ \A n \in Procs : proc[n].pid = p => proc'[n].at \notin {"boot", "stale", "write"}
<1>1. ASSUME NEW n \in Procs
      PROVE  /\ proc'[n].server = proc[n].server
             /\ IF Live(n) /\ proc[n].pid = p THEN proc'[n].at = AfterTerm(n)
                ELSE proc'[n] = proc[n]
  BY Signalled
<1>2. ASSUME NEW n \in Procs, Live(n), proc[n].pid = p
      PROVE  proc'[n].at = AfterTerm(n)
  BY <1>1, <1>2
<1>3. ASSUME NEW n \in Procs, ~(Live(n) /\ proc[n].pid = p)
      PROVE  proc'[n] = proc[n]
  BY <1>1, <1>3
<1>4. Calm
  <2> SUFFICES ASSUME NEW n \in Procs
               PROVE  /\ proc'[n].at \in {"written", "up", "stopping"} => Active(n)
                      /\ proc'[n].at \in {"stale", "write"} => Checked(n)
                      /\ proc'[n].at = "boot" => Booting(n)
                      /\ proc'[n].at \in {"stale", "write", "written", "up"} =>
                           Bound(n) /\ proc'[n].server = proc[n].server
    BY DEF Calm
  <2>1. CASE Live(n) /\ proc[n].pid = p
    BY <1>1, <1>2, <2>1 DEF AfterTerm, Active
  <2>2. CASE ~(Live(n) /\ proc[n].pid = p)
    BY <1>3, <2>2 DEF Active, Checked, Booting, Bound
  <2> QED
    BY <2>1, <2>2
<1>5. ASSUME NEW n \in Procs, proc[n].pid = p
      PROVE  proc'[n].at \notin {"boot", "stale", "write"}
  <2>1. CASE Live(n)
    BY <1>2, <1>5, <2>1 DEF AfterTerm
  <2>2. CASE ~Live(n)
    BY <1>3, <2>2 DEF Live
  <2> QED
    BY <2>1, <2>2
<1> QED
  BY <1>4, <1>5

\* A new process starts: nobody ran or was starting.
LEMMA SpawnHandover ==
  ASSUME Sole, TypeOK, Handover, NEW c \in Clis, NEW n \in Procs, Create(n, "boot"),
         NEW at \in {"ready", "foreground"}, cli[c].at \notin {"ready", "foreground"},
         cli' = [cli EXCEPT ![c].at = at, ![c].child = n],
         pidfile' = pidfile, active' = active
  PROVE  Handover'
<1>1. \A d \in Clis : d = c
  BY DEF Sole
<1>2. \A m \in Procs : ~Booting(m)
  BY <1>1 DEF Handover, BootsHaveACommand
<1>3. /\ \A m \in Procs : m # n => proc'[m] = proc[m]
      /\ proc'[n].at = "boot" /\ proc[n].at = "unborn"
  BY Created DEF Stages
<1>4. cli'[c].at = at /\ cli'[c].child = n
  BY ChildTaken
<1>5. BootsHaveACommand' /\ CommandsKnow'
  <2>1. \A m \in Procs : Booting(m)' => m = n
    BY <1>2, <1>3 DEF Booting, Checked
  <2> QED
    BY <1>4, <2>1, OneCommand
<1>6. DaemonIsVisible'
  BY <1>3 DEF Handover, DaemonIsVisible, Active
<1>7. BootsAreAlone'
  BY <1>2, <1>3 DEF BootsAreAlone, Booting, Checked
<1>8. BoundProcsFollow'
  BY <1>3 DEF Handover, BoundProcsFollow, Bound
<1> QED
  BY <1>5, <1>6, <1>7, <1>8 DEF Handover

\* A stop that returns has made sure that no daemon runs.
LEMMA StopHandover ==
  ASSUME Sole, TypeOK, Handover, NEW c \in Clis, StopReturns(c),
         cli[c].at \notin {"ready", "foreground"}, NoneActive,
         proc' = proc, pidfile' \in {0, pidfile}, active' = active
  PROVE  Handover'
<1>1. Calm /\ NoneActive' /\ RecordStands
  BY UnchangedIsCalm, CalmAlone DEF RecordStands
<1>2. cli'[c].at \in {"idle", "look", "save"}
  BY StopReturned
<1> QED
  BY <1>1, <1>2, CalmCommand

LEMMA CommandHandover ==
  ASSUME Sole, TypeOK, Handover, NEW c \in Clis, Begin(c) \/ Foreground(c) \/ Proceed(c)
  PROVE  Handover'
<1>0. /\ {"idle", "save", "read", "stale-stop", "term", "gone", "kill", "clear", "look",
          "stale-start", "before", "spawn", "ready", "online", "foreground"} = Steps
      /\ "gone" \in Stages /\ 0 \notin Procs /\ cli[c] \in Command /\ pidfile \in Procs \cup {0}
  BY DEF Steps, StopSteps, StartSteps, Stages, Procs, TypeOK
<1>1. ASSUME proc' = proc, pidfile' = pidfile
      PROVE  Calm /\ RecordStands
  BY <1>1, UnchangedIsCalm DEF RecordStands
<1>2. ASSUME Return(c) PROVE cli'[c].at = "idle"
  BY <1>2, Returned
<1>3. ASSUME NEW at \in Steps, Step(c, at)
      PROVE  cli'[c].at = at /\ SameRest(cli'[c], cli[c])
  BY <1>3, Stepped
<1>4. /\ cli[c].at \in {"stale-stop", "stale-start", "before", "spawn", "clear"} => NoneActive
      /\ cli[c].at \in {"term", "gone", "kill"} => pidfile \in {0, cli[c].rec}
      /\ cli[c].at = "save" => (cli[c].server = active \/ NoneActive)
  BY DEF Handover, CommandsKnow
<1>5. CASE Begin(c)
  <2>1. /\ cli'[c].at \in {"look", "save", "read"}
        /\ cli'[c].at = "save" => cli'[c].server = active
    BY <1>5, Begun
  <2> QED
    BY <1>1, <1>5, <2>1, CalmCommand DEF Begin
<1>6. CASE Foreground(c)
  BY <1>6, SpawnHandover DEF Foreground
<1>7. CASE ReadRecord(c)
  <2>1. CASE Verified # 0
    <3>1. cli'[c].at = "term" /\ cli'[c].rec = pidfile
      BY <1>7, <2>1, RecordTaken DEF ReadRecord
    <3> QED
      BY <1>1, <1>7, <3>1, CalmCommand DEF ReadRecord
  <2>2. CASE Verified = 0 /\ Stale
    <3>1. cli'[c].at = "stale-stop"
      BY <1>0, <1>3, <1>7, <2>2 DEF ReadRecord
    <3>2. NoneActive
      BY <2>2, NobodyFound DEF Handover
    <3> QED
      BY <1>1, <1>7, <3>1, <3>2, CalmCommand DEF ReadRecord
  <2>3. CASE Verified = 0 /\ ~Stale
    <3>1. NoneActive
      BY <2>3, NobodyFound DEF Handover
    <3> QED
      BY <1>7, <2>3, <3>1, StopHandover DEF ReadRecord
  <2> QED
    BY <2>1, <2>2, <2>3
<1>8. CASE ClearStaleRecord(c)
  <2>1. CASE cli[c].at = "stale-stop"
    BY <1>4, <1>8, <2>1, StopHandover DEF ClearStaleRecord
  <2>2. CASE cli[c].at = "stale-start"
    <3>1. cli'[c].at = "before"
      BY <1>0, <1>3, <1>8, <2>2 DEF ClearStaleRecord
    <3>2. Calm /\ RecordStands
      BY <1>4, <1>8, <2>2, UnchangedIsCalm, CalmAlone DEF ClearStaleRecord, RecordStands
    <3> QED
      BY <1>4, <1>8, <2>2, <3>1, <3>2, CalmCommand DEF ClearStaleRecord
  <2> QED
    BY <1>8, <2>1, <2>2 DEF ClearStaleRecord
<1>9. CASE Terminate(c)
  <2>1. CASE Live(cli[c].rec)
    <3>1. cli'[c].at = "gone" /\ SameRest(cli'[c], cli[c])
      BY <1>0, <1>3, <1>9, <2>1 DEF Terminate
    <3>2. Calm
      BY <1>9, <2>1, SignalIsCalm DEF Terminate
    <3> QED
      BY <1>4, <1>9, <3>1, <3>2, CalmCommand DEF Terminate, SameRest, RecordStands
  <2>2. CASE ~Live(cli[c].rec)
    <3>1. cli'[c].at = "clear"
      BY <1>0, <1>3, <1>9, <2>2 DEF Terminate
    <3>2. NoneActive
      BY <1>9, <2>2, NamedIsGone DEF Terminate
    <3> QED
      BY <1>1, <1>9, <2>2, <3>1, <3>2, CalmCommand DEF Terminate
  <2> QED
    BY <2>1, <2>2
<1>10. CASE WaitGone(c)
  <2>1. cli'[c].at = "clear"
    BY <1>0, <1>3, <1>10 DEF WaitGone
  <2>2. NoneActive
    BY <1>10, NamedIsGone DEF WaitGone
  <2> QED
    BY <1>1, <1>10, <2>1, <2>2, CalmCommand DEF WaitGone
<1>11. CASE GiveUp(c)
  <2>1. cli'[c].at = "kill" /\ SameRest(cli'[c], cli[c])
    BY <1>0, <1>3, <1>11 DEF GiveUp
  <2> QED
    BY <1>1, <1>4, <1>11, <2>1, CalmCommand DEF GiveUp, SameRest
<1>12. CASE Kill(c)
  <2>1. CASE Live(cli[c].rec)
    <3> DEFINE n == cli[c].rec
    <3>1. n \in Procs
      BY <1>0, <1>12 DEF Kill, TypeOK, Command
    <3>2. cli'[c].at = "gone" /\ SameRest(cli'[c], cli[c])
      BY <1>0, <1>3, <1>12, <2>1 DEF Kill
    <3>3. Move(n, "gone")
      BY <1>12, <2>1 DEF Kill
    <3>4. proc'[n].at = "gone" /\ \A m \in Procs : m # n => proc'[m] = proc[m]
      BY <1>0, <3>1, <3>3, Moved
    <3>5. Calm
      BY <3>4 DEF Calm, Active, Checked, Booting, Bound
    <3> QED
      BY <1>4, <1>12, <3>2, <3>5, CalmCommand DEF Kill, SameRest, RecordStands
  <2>2. CASE ~Live(cli[c].rec)
    BY <1>1, <1>2, <1>12, <2>2, CalmCommand DEF Kill
  <2> QED
    BY <2>1, <2>2
<1>13. CASE ClearPid(c)
  BY <1>4, <1>13, StopHandover DEF ClearPid
<1>14. CASE Save(c)
  <2>1. cli'[c].at = "look"
    BY <1>0, <1>3, <1>14 DEF Save
  <2>2. \A n \in Procs : ~Booting(n)
    BY <1>14 DEF Save, Sole, Handover, BootsHaveACommand
  <2>3. proc' = proc /\ pidfile' = pidfile /\ (active' = active \/ NoneActive)
    BY <1>4, <1>14 DEF Save
  <2>4. BootsHaveACommand' /\ CommandsKnow'
    BY <2>1, <2>2, <2>3, OneCommand DEF Booting, Checked
  <2>5. BoundProcsFollow'
    BY <2>2, <2>3 DEF Handover, BoundProcsFollow, Bound, NoneActive, Active, Booting, Checked
  <2>6. DaemonIsVisible' /\ BootsAreAlone'
    BY <2>2, <2>3 DEF Handover, DaemonIsVisible, BootsAreAlone, Active, Booting, Checked
  <2> QED
    BY <2>4, <2>5, <2>6 DEF Handover
<1>15. CASE Look(c)
  <2>1. CASE Verified # 0
    BY <1>1, <1>2, <1>15, <2>1, CalmCommand DEF Look
  <2>2. CASE Verified = 0
    <3>1. cli'[c].at \in {"stale-start", "before"}
      BY <1>0, <1>3, <1>15, <2>2 DEF Look
    <3>2. NoneActive
      BY <2>2, NobodyFound DEF Handover
    <3> QED
      BY <1>1, <1>15, <3>1, <3>2, CalmCommand DEF Look
  <2> QED
    BY <2>1, <2>2
<1>16. CASE Before(c)
  <2>1. cli'[c].at \in {"idle", "spawn"}
    BY <1>2, <1>16, BaselineTaken DEF Before
  <2> QED
    BY <1>1, <1>4, <1>16, <2>1, CalmCommand DEF Before
<1>17. CASE SpawnDaemon(c)
  <2>1. CASE Return(c) /\ UNCHANGED proc
    BY <1>1, <1>2, <1>17, <2>1, CalmCommand DEF SpawnDaemon
  <2>2. ASSUME NEW n \in Procs, Create(n, "boot"),
               cli' = [cli EXCEPT ![c].at = "ready", ![c].child = n]
        PROVE  Handover'
    BY <1>17, <2>2, SpawnHandover DEF SpawnDaemon
  <2> QED
    BY <1>17, <2>1, <2>2 DEF SpawnDaemon
<1>18. CASE Ready(c)
  <2>1. proc' = proc /\ pidfile' = pidfile /\ active' = active /\ cli[c].at = "ready"
    BY <1>18 DEF Ready
  <2>2. proc'[cli[c].child].at \notin {"boot", "stale", "write"}
    BY <1>18, <2>1 DEF Ready, Claimed
  <2>3. cli'[c].at \in {"ready", "online"}
    BY <1>0, <1>3, <1>18, BaselineSeen DEF Ready
  <2> QED
    BY <1>1, <2>1, <2>2, <2>3, CalmCommand
<1>19. CASE Attached(c)
  <2>1. proc'[cli[c].child].at \notin {"boot", "stale", "write"}
    BY <1>19 DEF Attached, Claimed
  <2> QED
    BY <1>1, <1>2, <1>19, <2>1, CalmCommand DEF Attached
<1>20. CASE Announce(c)
  BY <1>1, <1>2, <1>20, CalmCommand DEF Announce
<1>21. CASE NotReady(c)
  <2>1. cli[c].child \in Procs
    BY <1>0, <1>21 DEF NotReady, TypeOK, Command
  <2>2. Calm /\ proc'[cli[c].child].at \notin {"boot", "stale", "write"}
    BY <1>21, <2>1, SignalIsCalm DEF NotReady
  <2> QED
    BY <1>2, <1>21, <2>2, CalmCommand DEF NotReady, RecordStands
<1> QED
  BY <1>5, <1>6, <1>7, <1>8, <1>9, <1>10, <1>11, <1>12, <1>13, <1>14, <1>15, <1>16, <1>17,
     <1>18, <1>19, <1>20, <1>21 DEF Proceed

LEMMA InitHandover == Init => Handover
<1> SUFFICES ASSUME Init PROVE Handover
  OBVIOUS
<1>1. \A n \in Procs : proc[n].at = "unborn"
  BY DEF Init
<1>2. \A c \in Clis : cli[c].at = "idle"
  BY DEF Init, NoCommand
<1> QED
  BY <1>1, <1>2 DEF Handover, DaemonIsVisible, BootsHaveACommand, BootsAreAlone, CommandsKnow,
     BoundProcsFollow, Active, Booting, Checked, Bound

LEMMA ControlSteps ==
  ASSUME Sole
  PROVE  ControlInv /\ [Next]_cvars => ControlInv'
<1> SUFFICES ASSUME ControlInv, [Next]_cvars PROVE ControlInv'
  OBVIOUS
<1>1. TypeOK /\ Handover /\ TypeOK'
  BY NextTypes DEF ControlInv
<1>2. CASE UNCHANGED cvars
  <2>1. SameCommands /\ Calm /\ RecordStands /\ active' = active
    BY <1>2, UnchangedIsCalm DEF cvars, SameCommands, SameRest, RecordStands
  <2> QED
    BY <1>1, <2>1, CalmDaemon DEF ControlInv
<1>3. CASE \E n \in Procs : DaemonStep(n) \/ Die(n) \/ Stranger(n)
  BY <1>1, <1>3, DaemonHandover DEF ControlInv
<1>4. ASSUME NEW s \in Servers, LatePoll(s) PROVE ControlInv'
  <2>1. SameCommands /\ Calm /\ RecordStands /\ active' = active
    BY <1>1, <1>4, StampedRows, UnchangedIsCalm DEF LatePoll, SameCommands, RecordStands
  <2> QED
    BY <1>1, <2>1, CalmDaemon DEF ControlInv
<1>5. CASE \E c \in Clis : Begin(c) \/ Foreground(c) \/ Proceed(c)
  BY <1>1, <1>5, CommandHandover DEF ControlInv
<1> QED
  BY <1>2, <1>3, <1>4, <1>5 DEF Next

LEMMA ControlAlways ==
  ASSUME Sole
  PROVE  Spec => []ControlInv
<1>1. Init => ControlInv
  BY InitTypes, InitHandover DEF ControlInv
<1> QED
  BY <1>1, ControlSteps, SpecSteps, PTL

\* Whatever dies meanwhile and whatever pids are used again, two daemons never run
\* for one machine while an owner gives one command at a time.
THEOREM OneDaemonRuns ==
  ASSUME Sole
  PROVE  Spec => []OneDaemon
<1>1. ControlInv => OneDaemon
  BY DEF ControlInv, Handover, DaemonIsVisible, OneDaemon
<1> QED
  BY <1>1, ControlAlways, PTL

\* No command, and no exit of another daemon, takes away the record by which a daemon
\* that runs is found and stopped.
THEOREM RecordsNameTheDaemon ==
  ASSUME Sole
  PROVE  Spec => []DaemonIsVisible
<1>1. ControlInv => DaemonIsVisible
  BY DEF ControlInv, Handover
<1> QED
  BY <1>1, ControlAlways, PTL

\* The connection changes only while nobody has read the one before.
THEOREM DaemonsFollow ==
  ASSUME Sole
  PROVE  Spec => []DaemonFollowsConnection
<1>1. ControlInv => DaemonFollowsConnection
  BY DEF ControlInv, Handover, BoundProcsFollow, Bound, DaemonFollowsConnection
<1> QED
  BY <1>1, ControlAlways, PTL

\* The steps by which a stop may return: it has read a file that names nobody, or it
\* has waited for the process that the file named.
StopEnds(c) == /\ cli[c].at \in {"read", "stale-stop", "term", "clear"}
               /\ cli'[c].at \in {"idle", "save", "look"}

LEMMA StopEndsAlone ==
  ASSUME ControlInv, [Next]_cvars, NEW c \in Clis, StopEnds(c)
  PROVE  NoneActive
<1>0. /\ cli \in [Clis -> Command] /\ TypeOK /\ Handover
      /\ {"idle", "save", "read", "stale-stop", "term", "gone", "kill", "clear", "look",
          "stale-start", "before", "spawn", "ready", "online", "foreground"} = Steps
  BY DEF ControlInv, TypeOK, Steps, StopSteps, StartSteps
<1>1. CASE cli[c].at \in {"stale-stop", "clear"}
  BY <1>0, <1>1 DEF Handover, CommandsKnow
<1>2. ASSUME cli'[c] = cli[c] PROVE FALSE
  BY <1>2 DEF StopEnds
<1>3. CASE cli[c].at \in {"read", "term"}
  <2>1. ASSUME NEW d \in Clis, d # c, OneRow(d) PROVE FALSE
    BY <1>2, <2>1 DEF OneRow
  <2>2. ASSUME NEW d \in Clis, Begin(d) \/ Foreground(d) \/ Proceed(d)
        PROVE  d = c /\ (ReadRecord(c) \/ Terminate(c))
    <3>1. OneRow(d)
      BY <1>0, <2>2, CommandMovesOneRow
    <3>2. d = c
      BY <2>1, <3>1
    <3> QED
      BY <1>3, <2>2, <3>2 DEF Proceed, Begin, Foreground, ClearStaleRecord, WaitGone, GiveUp,
         Kill, ClearPid, Save, Look, Before, SpawnDaemon, Ready, Attached, Announce, NotReady
  <2>3. ASSUME SameCommands PROVE FALSE
    BY <1>3, <2>3 DEF SameCommands, StopEnds
  <2>4. ASSUME NEW n \in Procs, DaemonStep(n) \/ Die(n) \/ Stranger(n) PROVE FALSE
    <3>1. CASE cli' = cli
      BY <1>2, <3>1
    <3>2. CASE Poll(n)
      <4>1. proc[n].server \in Servers
        BY <1>0 DEF TypeOK, Process
      <4> QED
        BY <1>0, <2>3, <3>2, <4>1, StampedRows DEF Poll, SameCommands
    <3> QED
      BY <2>4, <3>1, <3>2 DEF DaemonStep, Boot, ClearStale, WritePidFile, Handlers, Close, Die,
         Stranger
  <2>5. ASSUME NEW s \in Servers, LatePoll(s) PROVE FALSE
    BY <1>0, <2>3, <2>5, StampedRows DEF LatePoll, SameCommands
  <2>6. ReadRecord(c) \/ Terminate(c)
    BY <1>2, <2>2, <2>4, <2>5 DEF Next, cvars
  <2>7. CASE ReadRecord(c)
    <3>1. Verified = 0
      BY <1>0, <2>7, RecordTaken DEF ReadRecord, StopEnds
    <3> QED
      BY <1>0, <3>1, NobodyFound DEF Handover
  <2>8. CASE Terminate(c)
    BY <1>0, <2>8, Stepped DEF Terminate, StopEnds
  <2> QED
    BY <2>6, <2>7, <2>8
<1> QED
  BY <1>1, <1>3 DEF StopEnds

\* A stop that has returned leaves no daemon, so that a restart and a switch of the
\* connection may go on.
THEOREM StopsAreOver ==
  ASSUME Sole
  PROVE  Spec => StopMeansStopped
<1>1. ASSUME ControlInv, [Next]_cvars
      PROVE  [\A c \in Clis : cli[c].at \in {"read", "stale-stop", "term", "clear"}
                /\ cli'[c].at \in {"idle", "save", "look"} => \A n \in Procs : ~Active(n)]_cvars
  BY <1>1, StopEndsAlone DEF StopEnds, NoneActive
<1> QED
  BY <1>1, ControlAlways, SpecSteps, PTL DEF StopMeansStopped
-----------------------------------------------------------------------------
(* Readiness.                                                              *)

\* A command that waits for a heartbeat is alone with its child, and what it has seen
\* is of the child's own making or lingered.
Waits(c) == cli[c].at \in {"spawn", "ready", "online"}
Own(c) ==
  /\ cli[c].seen # "unknown" => Waits(c)
  /\ cli[c].seen = "later" => cli[c].at # "spawn" /\ proc[cli[c].child].polled
  /\ cli[c].at \in {"ready", "online"} => \A n \in Procs : Active(n) => n = cli[c].child
  /\ cli[c].at = "online" => cli[c].seen \in {"later", "lingering"}
Ownership == \A c \in Clis : Own(c)

\* No process forgets its poll, and the only one that begins to run claims the file.
Nearer ==
  \A n \in Procs : /\ proc[n].polled => proc'[n].polled
                   /\ Active(n)' => Active(n) \/ proc[n].at = "write"

LEMMA MovedNearer ==
  ASSUME TypeOK, NEW n \in Procs, NEW at \in Stages, Move(n, at),
         at \in {"written", "up", "stopping"} => Active(n) \/ proc[n].at = "write"
  PROVE  Nearer
<1> DEFINE x == proc[n]
           row == [x EXCEPT !.at = at]
<1>1. x \in Process /\ proc' = [proc EXCEPT ![n] = row] /\ proc \in [Procs -> Process]
  BY DEF TypeOK, Move
<1> HIDE DEF x
<1>2. row.at = at /\ row.polled = x.polled
  BY <1>1 DEF Process
<1> HIDE DEF row
<1> QED
  BY <1>1, <1>2 DEF x, Nearer, Active

LEMMA CreatedNearer ==
  ASSUME TypeOK, NEW n \in Procs, NEW at \in {"boot", "stranger"}, Create(n, at)
  PROVE  Nearer
<1>1. PICK p \in Pids : proc' = [proc EXCEPT ![n].pid = p, ![n].at = at]
  BY DEF Create
<1> DEFINE x == proc[n]
           row == [x EXCEPT !.pid = p, !.at = at]
<1>2. x \in Process /\ proc' = [proc EXCEPT ![n] = row] /\ proc \in [Procs -> Process]
  BY <1>1 DEF TypeOK
<1> HIDE DEF x
<1>3. row.at = at /\ row.polled = x.polled
  BY <1>2 DEF Process
<1> HIDE DEF row
<1> QED
  BY <1>2, <1>3 DEF x, Nearer, Active

LEMMA SignalledNearer ==
  ASSUME TypeOK, NEW p, Sigterm(p)
  PROVE  Nearer
<1>1. ASSUME NEW m \in Procs
      PROVE  /\ proc[m].polled => proc'[m].polled
             /\ Active(m)' => Active(m)
  <2> DEFINE x == proc[m]
  <2>1. x \in Process
    BY DEF TypeOK
  <2>2. proc'[m] = IF Live(m) /\ x.pid = p THEN [x EXCEPT !.at = AfterTerm(m)] ELSE x
    BY DEF Sigterm, Holder
  <2>3. AfterTerm(m) = IF x.at \in {"up", "stopping"} THEN "stopping" ELSE "gone"
    BY DEF AfterTerm
  <2> HIDE DEF x
  <2> QED
    BY <2>1, <2>2, <2>3 DEF x, Process, Active
<1> QED
  BY <1>1 DEF Nearer

LEMMA StepNearer ==
  ASSUME ControlInv, [Next]_cvars
  PROVE  Nearer
<1>0. TypeOK /\ {"gone", "stale", "write", "written", "up", "closed"} \subseteq Stages
  BY DEF ControlInv, Stages
<1>1. CASE proc' = proc
  BY <1>1 DEF Nearer, Active
<1>2. ASSUME NEW n \in Procs, DaemonStep(n) \/ Die(n) \/ Stranger(n) PROVE Nearer
  <2>1. CASE Boot(n)
    <3> DEFINE x == proc[n]
               at == IF Verified # 0 THEN "gone" ELSE IF Stale THEN "stale" ELSE "write"
               row == [x EXCEPT !.server = active, !.at = at]
    <3>1. x \in Process /\ proc' = [proc EXCEPT ![n] = row] /\ proc \in [Procs -> Process]
      BY <1>0, <2>1 DEF TypeOK, Boot
    <3>2. at \in {"gone", "stale", "write"}
      OBVIOUS
    <3> HIDE DEF x, at
    <3>3. row.at = at /\ row.polled = x.polled
      BY <3>1 DEF Process
    <3> HIDE DEF row
    <3> QED
      BY <3>1, <3>2, <3>3 DEF x, Nearer, Active
  <2>2. CASE Poll(n)
    <3> DEFINE x == proc[n]
               row == [x EXCEPT !.polled = TRUE]
    <3>1. x \in Process /\ proc' = [proc EXCEPT ![n] = row] /\ proc \in [Procs -> Process]
      BY <1>0, <2>2 DEF TypeOK, Poll
    <3> HIDE DEF x
    <3>2. row.at = x.at /\ row.polled
      BY <3>1 DEF Process
    <3> HIDE DEF row
    <3> QED
      BY <3>1, <3>2 DEF x, Nearer, Active
  <2>3. CASE ClearStale(n) \/ WritePidFile(n) \/ Handlers(n) \/ Close(n) \/ Die(n)
    BY <1>0, <2>3, MovedNearer DEF ClearStale, WritePidFile, Handlers, Close, Die, Active
  <2>4. CASE Stranger(n)
    BY <1>0, <2>4, CreatedNearer DEF Stranger
  <2> QED
    BY <1>2, <2>1, <2>2, <2>3, <2>4 DEF DaemonStep
<1>3. ASSUME NEW c \in Clis, Begin(c) \/ Foreground(c) \/ Proceed(c) PROVE Nearer
  <2>1. CASE Terminate(c) \/ NotReady(c)
    BY <1>0, <1>1, <2>1, SignalledNearer DEF Terminate, NotReady
  <2>2. CASE Kill(c)
    <3>1. Live(cli[c].rec) => cli[c].rec \in Procs
      BY <1>0, <2>2 DEF Kill, TypeOK, Command
    <3> QED
      BY <1>0, <1>1, <2>2, <3>1, MovedNearer DEF Kill
  <2>3. CASE SpawnDaemon(c) \/ Foreground(c)
    BY <1>0, <1>1, <2>3, CreatedNearer DEF SpawnDaemon, Foreground
  <2> QED
    BY <1>1, <1>3, <2>1, <2>2, <2>3 DEF Begin, Proceed, ReadRecord, ClearStaleRecord, WaitGone,
       GiveUp, ClearPid, Save, Look, Before, Ready, Attached, Announce
<1> QED
  BY <1>1, <1>2, <1>3 DEF Next, LatePoll, cvars

\* While a command waits for its child, nobody else comes to run.
LEMMA ChildIsAlone ==
  ASSUME Sole, ControlInv, Ownership, Nearer, NEW c \in Clis, cli[c].at \in {"ready", "online"}
  PROVE  \A n \in Procs : Active(n)' => n = cli[c].child
<1> SUFFICES ASSUME NEW n \in Procs, Active(n)' PROVE n = cli[c].child
  OBVIOUS
<1>1. CASE Active(n)
  BY <1>1 DEF Ownership, Own
<1>2. CASE proc[n].at = "write"
  BY <1>2 DEF Sole, ControlInv, Handover, BootsHaveACommand, Booting, Checked
<1> QED
  BY <1>1, <1>2 DEF Nearer

\* A command that waits for a heartbeat names a process.
LEMMA ChildIsKnown ==
  ASSUME ControlInv, NEW c \in Clis, cli[c].at \in {"ready", "online"}
  PROVE  cli[c].child \in Procs
BY DEF ControlInv, TypeOK, Command

\* The server stamps a command that waits, for a daemon or for a poll that lingers.
LEMMA StampedOwn ==
  ASSUME Sole, ControlInv, Ownership, Nearer, NEW c \in Clis, NEW s \in Servers,
         NEW seen \in {"later", "lingering"}, cli' = Stamped(s, seen),
         seen = "later" => \E n \in Procs : Active(n) /\ proc'[n].polled
  PROVE  Own(c)'
<1> DEFINE x == cli[c]
           y == cli'[c]
<1>1. x \in Command /\ cli' \in [Clis -> Command]
  BY StampedRows DEF ControlInv, TypeOK
<1>2. y.at = x.at /\ y.child = x.child
  BY StampedRows DEF ControlInv, SameRest
<1>3. y = x \/ (x.seen = "known" /\ y = [x EXCEPT !.seen = seen])
  BY DEF Stamped
<1> HIDE DEF x, y
<1>4. y.seen = x.seen \/ (x.seen = "known" /\ y.seen = seen)
  BY <1>1, <1>3 DEF Command
<1>5. /\ y.seen # "unknown" => Waits(c)
      /\ y.at = "online" => y.seen \in {"later", "lingering"}
  BY <1>2, <1>4 DEF Ownership, Own, x
<1>6. ASSUME y.seen = "later" PROVE y.at # "spawn" /\ proc'[y.child].polled
  <2>1. CASE x.seen = "later"
    BY <1>2, <2>1, ChildIsKnown DEF Ownership, Own, Waits, Nearer, x
  <2>2. CASE x.seen = "known" /\ seen = "later"
    <3>1. PICK n \in Procs : Active(n) /\ proc'[n].polled
      BY <2>2
    <3>2. x.at # "spawn"
      BY <3>1 DEF ControlInv, Handover, CommandsKnow, NoneActive, x
    <3>3. n = x.child
      BY <2>2, <3>1, <3>2 DEF Ownership, Own, Waits, x
    <3> QED
      BY <1>2, <3>1, <3>2, <3>3
  <2> QED
    BY <1>4, <1>6, <2>1, <2>2
<1>7. y.at \in {"ready", "online"} => \A n \in Procs : Active(n)' => n = y.child
  BY <1>2, ChildIsAlone DEF x
<1> QED
  BY <1>2, <1>5, <1>6, <1>7 DEF Own, Waits, x, y

\* A command that goes on keeps what it has seen, ...
LEMMA SeenStays ==
  ASSUME TypeOK, NEW c \in Clis, NEW at, NEW n, NEW verb, NEW server,
         \/ Step(c, at)
         \/ cli' = [cli EXCEPT ![c].at = at, ![c].rec = n]
         \/ cli' = [cli EXCEPT ![c].at = at, ![c].child = n]
         \/ cli' = [cli EXCEPT ![c] = [@ EXCEPT !.verb = verb, !.server = server, !.at = at]]
  PROVE  cli'[c].seen = cli[c].seen /\ cli'[c].at = at
<1> DEFINE x == cli[c]
<1>1. x \in Command /\ cli \in [Clis -> Command]
  BY DEF TypeOK
<1>2. \/ cli'[c] = [x EXCEPT !.at = at]
      \/ cli'[c] = [x EXCEPT !.at = at, !.rec = n]
      \/ cli'[c] = [x EXCEPT !.at = at, !.child = n]
      \/ cli'[c] = [x EXCEPT !.verb = verb, !.server = server, !.at = at]
  BY <1>1 DEF Step
<1> HIDE DEF x
<1>3. /\ [x EXCEPT !.at = at].seen = x.seen /\ [x EXCEPT !.at = at].at = at
      /\ [x EXCEPT !.at = at, !.rec = n].seen = x.seen
      /\ [x EXCEPT !.at = at, !.rec = n].at = at
      /\ [x EXCEPT !.at = at, !.child = n].seen = x.seen
      /\ [x EXCEPT !.at = at, !.child = n].at = at
      /\ [x EXCEPT !.verb = verb, !.server = server, !.at = at].seen = x.seen
      /\ [x EXCEPT !.verb = verb, !.server = server, !.at = at].at = at
  BY <1>1 DEF Command
<1> QED
  BY <1>2, <1>3 DEF x

\* ... and one that returns forgets it.
LEMMA ReturnForgets ==
  ASSUME TypeOK, NEW c \in Clis, Return(c)
  PROVE  cli'[c].seen = "unknown" /\ cli'[c].at = "idle"
BY DEF Return, NoCommand, TypeOK

\* A command that waits for no heartbeat has seen none.
LEMMA QuietOwn ==
  ASSUME NEW c \in Clis, cli'[c].seen = "unknown", cli'[c].at \notin {"spawn", "ready", "online"}
  PROVE  Own(c)'
BY DEF Own, Waits

LEMMA StopReturnsQuiet ==
  ASSUME TypeOK, NEW c \in Clis, Own(c), StopReturns(c),
         cli[c].at \notin {"spawn", "ready", "online"}
  PROVE  Own(c)'
<1>1. cli[c].seen = "unknown"
  BY DEF Own, Waits
<1>2. CASE Return(c)
  BY <1>2, ReturnForgets, QuietOwn
<1>3. CASE cli' = [cli EXCEPT ![c].at = AfterStop(c), ![c].rec = 0]
  <2>1. AfterStop(c) \in {"idle", "save", "look"}
    BY DEF AfterStop
  <2>2. cli'[c].seen = "unknown" /\ cli'[c].at = AfterStop(c)
    BY <1>1, <1>3, SeenStays
  <2> QED
    BY <2>1, <2>2, QuietOwn
<1> QED
  BY <1>2, <1>3 DEF StopReturns

\* What a command of the owner does leaves it with its own.
LEMMA CommandOwn ==
  ASSUME Sole, ControlInv, Ownership, Nearer, NEW c \in Clis,
         Begin(c) \/ Foreground(c) \/ Proceed(c)
  PROVE  Own(c)'
<1> DEFINE quiet == cli[c].at \notin {"spawn", "ready", "online"}
<1>0. TypeOK /\ Own(c) /\ cli[c].at \in Steps
  BY DEF ControlInv, Ownership, TypeOK, Command, Steps
<1>1. quiet => cli[c].seen = "unknown"
  BY <1>0 DEF Own, Waits
<1>2. ASSUME quiet, NEW at, Step(c, at), at \notin {"spawn", "ready", "online"} PROVE Own(c)'
  BY <1>0, <1>1, <1>2, SeenStays, QuietOwn
<1>3. ASSUME Return(c) PROVE Own(c)'
  BY <1>0, <1>3, ReturnForgets, QuietOwn
<1>4. CASE Begin(c)
  <2>1. PICK verb \in Verbs, server \in Servers :
          cli' = [cli EXCEPT ![c] = [@ EXCEPT !.verb = verb, !.server = server,
            !.at = CASE verb = "start" -> "look"
                     [] verb = "connect" /\ server = active -> "save"
                     [] OTHER -> "read"]]
    BY <1>4 DEF Begin
  <2> DEFINE at == CASE verb = "start" -> "look"
                     [] verb = "connect" /\ server = active -> "save"
                     [] OTHER -> "read"
  <2>2. at \in {"look", "save", "read"}
    OBVIOUS
  <2>3. cli' = [cli EXCEPT ![c] = [@ EXCEPT !.verb = verb, !.server = server, !.at = at]]
    BY <2>1
  <2> HIDE DEF at
  <2>4. cli'[c].seen = cli[c].seen /\ cli'[c].at = at
    BY <1>0, <2>3, SeenStays
  <2> QED
    BY <1>1, <1>4, <2>2, <2>4, QuietOwn DEF Begin
<1>5. CASE Foreground(c)
  <2>1. PICK n \in Procs : cli' = [cli EXCEPT ![c].at = "foreground", ![c].child = n]
    BY <1>5 DEF Foreground
  <2>2. cli'[c].seen = cli[c].seen /\ cli'[c].at = "foreground"
    BY <1>0, <2>1, SeenStays
  <2> QED
    BY <1>1, <1>5, <2>2, QuietOwn DEF Foreground
<1>6. CASE ReadRecord(c)
  <2>1. CASE cli' = [cli EXCEPT ![c].at = "term", ![c].rec = pidfile]
    <3>1. cli'[c].seen = cli[c].seen /\ cli'[c].at = "term"
      BY <1>0, <2>1, SeenStays
    <3> QED
      BY <1>1, <1>6, <3>1, QuietOwn DEF ReadRecord
  <2> QED
    BY <1>0, <1>2, <1>6, <2>1, StopReturnsQuiet DEF ReadRecord
<1>7. CASE ClearStaleRecord(c) \/ ClearPid(c)
  BY <1>0, <1>2, <1>7, StopReturnsQuiet DEF ClearStaleRecord, ClearPid
<1>8. CASE Terminate(c) \/ WaitGone(c) \/ GiveUp(c) \/ Kill(c)
  BY <1>2, <1>3, <1>8 DEF Terminate, WaitGone, GiveUp, Kill
<1>9. CASE Save(c) \/ Look(c)
  BY <1>2, <1>3, <1>9 DEF Save, Look
<1>10. CASE Before(c)
  <2>1. ASSUME NEW seen \in {"unknown", "known"},
               cli' = [cli EXCEPT ![c].at = "spawn", ![c].seen = seen]
        PROVE  Own(c)'
    <3> DEFINE x == cli[c]
               row == [x EXCEPT !.at = "spawn", !.seen = seen]
    <3>1. x \in Command /\ cli'[c] = row
      BY <1>0, <2>1 DEF TypeOK
    <3> HIDE DEF x
    <3>2. row.at = "spawn" /\ row.seen = seen
      BY <3>1 DEF Command
    <3> QED
      BY <3>1, <3>2 DEF Own, Waits
  <2> QED
    BY <1>3, <1>10, <2>1 DEF Before
<1>11. CASE SpawnDaemon(c)
  <2>1. ASSUME NEW n \in Procs, Create(n, "boot"), cli[c].at = "spawn",
               cli' = [cli EXCEPT ![c].at = "ready", ![c].child = n]
        PROVE  Own(c)'
    <3>1. cli'[c].seen = cli[c].seen /\ cli'[c].at = "ready"
      BY <1>0, <2>1, SeenStays
    <3>2. cli[c].seen # "later"
      BY <1>0, <2>1 DEF Own
    <3>3. NoneActive /\ \A m \in Procs : proc[m].at # "write"
      <4>1. \A m \in Procs : ~Booting(m)
        BY <2>1 DEF Sole, ControlInv, Handover, BootsHaveACommand
      <4> QED
        BY <2>1, <4>1 DEF ControlInv, Handover, CommandsKnow, Booting, Checked
    <3>4. \A m \in Procs : ~Active(m)'
      BY <3>3 DEF Nearer, NoneActive
    <3> QED
      BY <3>1, <3>2, <3>4 DEF Own, Waits
  <2> QED
    BY <1>3, <1>11, <2>1 DEF SpawnDaemon
<1>12. CASE Ready(c)
  <2>1. cli[c].at = "ready"
    BY <1>12 DEF Ready
  <2>2. \A n \in Procs : Active(n)' => n = cli[c].child
    BY <2>1, ChildIsAlone
  <2>3. CASE cli' = [cli EXCEPT ![c].seen = "known"]
    <3> DEFINE x == cli[c]
               row == [x EXCEPT !.seen = "known"]
    <3>1. x \in Command /\ cli'[c] = row
      BY <1>0, <2>3 DEF TypeOK
    <3>2. x.at = "ready"
      BY <2>1
    <3> HIDE DEF x
    <3>3. row.at = "ready" /\ row.seen = "known" /\ row.child = x.child
      BY <3>1, <3>2 DEF Command
    <3> QED
      BY <2>2, <3>1, <3>3 DEF Own, Waits, x
  <2>4. CASE cli[c].seen \in {"later", "lingering"} /\ Step(c, "online")
    <3>1. /\ cli'[c].at = "online" /\ cli'[c].child = cli[c].child
          /\ cli'[c].seen = cli[c].seen
      BY <1>0, <2>4, SeenStays, Stepped DEF Steps, StartSteps, SameRest
    <3>2. cli[c].seen = "later" => proc'[cli[c].child].polled
      BY <1>0, <2>1, ChildIsKnown DEF Own, Nearer
    <3> QED
      BY <2>2, <2>4, <3>1, <3>2 DEF Own, Waits
  <2> QED
    BY <1>12, <2>3, <2>4 DEF Ready
<1>13. CASE Attached(c) \/ Announce(c) \/ NotReady(c)
  BY <1>3, <1>13 DEF Attached, Announce, NotReady
<1> QED
  BY <1>4, <1>5, <1>6, <1>7, <1>8, <1>9, <1>10, <1>11, <1>12, <1>13 DEF Proceed

LEMMA OwnershipSteps ==
  ASSUME Sole, ControlInv, Ownership, [Next]_cvars
  PROVE  Ownership'
<1> SUFFICES ASSUME NEW c \in Clis PROVE Own(c)'
  BY DEF Ownership
<1>0. Nearer /\ TypeOK /\ Own(c)
  BY StepNearer DEF ControlInv, Ownership
<1>1. ASSUME cli' = cli PROVE Own(c)'
  <2>1. cli[c].seen = "later" => proc'[cli[c].child].polled
    BY <1>0, ChildIsKnown DEF Own, Waits, Nearer
  <2>2. cli[c].at \in {"ready", "online"} => \A n \in Procs : Active(n)' => n = cli[c].child
    BY <1>0, ChildIsAlone
  <2> QED
    BY <1>0, <1>1, <2>1, <2>2 DEF Own, Waits
<1>2. ASSUME NEW n \in Procs, Poll(n) PROVE Own(c)'
  <2> DEFINE x == proc[n]
             row == [x EXCEPT !.polled = TRUE]
  <2>1. x \in Process /\ proc'[n] = row /\ x.server \in Servers /\ x.at = "up"
    BY <1>0, <1>2 DEF TypeOK, Poll, Process
  <2>2. row.polled
    BY <2>1 DEF Process
  <2>3. cli' = Stamped(proc[n].server, "later") /\ Active(n)
    BY <1>2 DEF Poll, Active
  <2> QED
    BY <1>0, <2>1, <2>2, <2>3, StampedOwn
<1>3. ASSUME NEW s \in Servers, LatePoll(s) PROVE Own(c)'
  BY <1>0, <1>3, StampedOwn DEF LatePoll
<1>4. ASSUME NEW d \in Clis, Begin(d) \/ Foreground(d) \/ Proceed(d) PROVE Own(c)'
  BY <1>0, <1>4, CommandOwn DEF Sole
<1> QED
  BY <1>1, <1>2, <1>3, <1>4 DEF Next, cvars, DaemonStep, Boot, ClearStale, WritePidFile, Handlers,
     Close, Die, Stranger

\* A start that reports a daemon online has seen a poll of the one it has spawned, or the
\* end of a wait that began before it: it never takes another daemon's poll for its own.
THEOREM StartsSeeTheirOwn ==
  ASSUME Sole
  PROVE  Spec => []ReadinessIsOwn
<1>1. Init => Ownership
  BY DEF Init, NoCommand, Ownership, Own, Waits
<1>2. ControlInv /\ Ownership /\ [Next]_cvars => Ownership'
  BY OwnershipSteps
<1>3. Ownership => ReadinessIsOwn
  BY DEF Ownership, Own, ReadinessIsOwn
<1> QED
  BY <1>1, <1>2, <1>3, ControlAlways, SpecSteps, PTL
=============================================================================
