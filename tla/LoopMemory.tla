----------------------------- MODULE LoopMemory -----------------------------
(***************************************************************************)
(* The memory of a loop: the text every run reads first and may replace.   *)
(*                                                                         *)
(* The server owns it (loops.memory).  A claim delivers the text of that   *)
(* moment; the daemon writes it into a private file; the agent edits the   *)
(* file while the owner may edit the server's copy; the terminal report    *)
(* carries the text back together with the hash of what was delivered, and *)
(* the transaction that closes the run applies it if that hash still       *)
(* matches.  Everything that can delay, repeat or lose the report is in    *)
(* Daemon, which this module extends with the texts.                       *)
(*                                                                         *)
(* Every version written is a text of its own, so texts and hashes are     *)
(* told apart alike.                                                       *)
(***************************************************************************)
EXTENDS Daemon

CONSTANT MaxEdits        \* writes of the owner (bound)

ASSUME MemoryAssumption == MaxEdits \in Nat

VARIABLES
  memory,    \* loops.memory
  base,      \* the text delivered with a run
  file,      \* what the agent made of it
  sent,      \* the memory in the report of a run
  blamed,    \* runs whose report got the notice that the owner changed the memory
  edits,     \* writes of the owner so far
  editedAt   \* history: the number of writes when the run was claimed

mvars == <<memory, base, file, sent, blamed, edits, editedAt>>
memVars == <<sysVars, mvars>>

\* by: the run that wrote it, or NoRun for the owner's n-th write; left: whether it
\* is whole, or what an agent had only begun to write when it was killed, by a cancel
\* or the timeout, or by a stop of the daemon.
Text == [by : Runs \cup {NoRun}, n : Nat, left : {"whole", "killed", "stopped", "none"}]
OwnersText(n) == [by |-> NoRun, n |-> n, left |-> "whole"]
RunsText(r, left) == [by |-> r, n |-> 0, left |-> left]
NoText == [by |-> NoRun, n |-> 0, left |-> "none"]

Files == {"none", "same", "half", "whole", "unfit"}     \* unfit: binary, too long, ...

MemoryOf(r) == memory[run[r].loop]

-----------------------------------------------------------------------------
(* The steps of Daemon that touch texts.                                   *)

\* A run is delivered with the memory read in the transaction that claims it.
DeliverMemory(p) ==
  /\ Claim(p)
  /\ LET r == poll'[p].delivery
     IN  IF r = NoRun THEN UNCHANGED mvars
         ELSE /\ base' = [base EXCEPT ![r] = MemoryOf(r)]
              /\ editedAt' = [editedAt EXCEPT ![r] = edits]
              /\ UNCHANGED <<memory, file, sent, blamed, edits>>

\* prepareMemory, just before the agent is spawned.
PrepareMemory(r) ==
  /\ Spawn(r)
  /\ file' = [file EXCEPT ![r] = "same"]
  /\ UNCHANGED <<memory, base, sent, blamed, edits, editedAt>>

WriteFile(r) ==
  /\ agent[r] = "alive"
  /\ \/ file[r] \in {"same", "unfit"} /\ file' = [file EXCEPT ![r] = "half"]
     \/ file[r] = "half" /\ file' = [file EXCEPT ![r] = "whole"]
     \/ file[r] = "half" /\ file' = [file EXCEPT ![r] = "unfit"]
  /\ UNCHANGED <<sysVars, memory, base, sent, blamed, edits, editedAt>>

\* An agent killed at a cancel or a timeout was killed while it wrote.  (The server
\* tells by the result, terminalMemory, what the daemon tells by the error here.)  An
\* error event, as in Daemon, is left out: after one, neither takes the agent for killed.
KilledMidEdit(r, timedOut) == aborted[r] = "cancel" \/ timedOut

\* collectMemory: what goes into the report.
CollectMemory(r, discard) ==
  CASE file[r] = "whole" /\ ~discard -> RunsText(r, "whole")
    [] file[r] = "half" /\ ~discard ->
         RunsText(r, IF aborted[r] = "shutdown" THEN "stopped" ELSE "killed")
    [] OTHER -> NoText

\* The timeout has the result of a failure.
TimesOut(r) ==
  /\ r \in Executing /\ agent[r] = "alive" /\ aborted[r] = "none"
  /\ agent' = [agent EXCEPT ![r] = "failure"]
  /\ UNCHANGED <<vars, daemon, held, aborted, outbox, poll, silent, swept, faults>>

\* An agent that is left alone ends when it has written what it wanted to write; one
\* that is terminated ends anywhere.
ExitWithMemory(r) ==
  /\ \E timedOut \in BOOLEAN :
       /\ IF timedOut THEN TimesOut(r)
          ELSE Exit(r) /\ (aborted[r] = "none" => file[r] # "half")
       /\ sent' = IF r \in Executing
                  THEN [sent EXCEPT ![r] = CollectMemory(r, KilledMidEdit(r, timedOut))] ELSE sent
  /\ file' = [file EXCEPT ![r] = "none"]
  /\ UNCHANGED <<memory, base, blamed, edits, editedAt>>

\* applyMemoryUpdateTx, within the transaction that closes a run.
AppliesAlways(r) == sent[r] # NoText
AppliesToItself(r) == sent[r] # NoText /\ MemoryOf(r) = sent[r]
Applies(r) == sent[r] # NoText /\ MemoryOf(r) = base[r]
Discards(r) == sent[r] # NoText /\ sent[r] # MemoryOf(r) /\ ~Applies(r)

ReportMemory(r) ==
  /\ Report(r)
  /\ IF receipt'[r].status = 200
     THEN /\ memory' = IF Applies(r) THEN [memory EXCEPT ![run[r].loop] = sent[r]] ELSE memory
          /\ blamed' = IF Discards(r) THEN blamed \cup {r} ELSE blamed
     ELSE UNCHANGED <<memory, blamed>>
  /\ UNCHANGED <<base, file, sent, edits, editedAt>>

\* memory set: no version is compared.
OwnerWrites(l) ==
  /\ Present(l) /\ edits < MaxEdits /\ edits' = edits + 1
  /\ memory' = [memory EXCEPT ![l] = OwnersText(edits + 1)]
  /\ UNCHANGED <<sysVars, base, file, sent, blamed, editedAt>>

\* Every other step of Daemon leaves the texts alone.
OtherServe(p) == Heartbeat(p) \/ Release(p) \/ Advance(p) \/ Respond(p) \/ PollAgain(p)
OtherRun(r) == \/ SkipSpawn(r) \/ Persist(r) \/ Acknowledge(r) \/ GoesSilent(r)
               \/ SweepReclaims(r) \/ GraceElapses(r) \/ Prune(r)
OtherSteps ==
  /\ \/ Send \/ Receive \/ Discard \/ LosePoll \/ Terminate \/ Stopped \/ Kill \/ Start
     \/ ServerRestarts \/ SweepReads \/ Owner
     \/ \E p \in Requests : OtherServe(p)
     \/ \E r \in Runs : OtherRun(r)
     \/ \E l \in Loops : CadenceDue(l) \/ Delete(l)
  /\ UNCHANGED mvars

-----------------------------------------------------------------------------
MemoryInit ==
  /\ DaemonInit
  /\ memory = [l \in Loops |-> OwnersText(0)]
  /\ base = [r \in Runs |-> NoText]
  /\ file = [r \in Runs |-> "none"]
  /\ sent = [r \in Runs |-> NoText]
  /\ blamed = {} /\ edits = 0
  /\ editedAt = [r \in Runs |-> 0]

MemoryNext ==
  \/ \E p \in Requests : DeliverMemory(p)
  \/ \E r \in Runs : PrepareMemory(r) \/ WriteFile(r) \/ ExitWithMemory(r) \/ ReportMemory(r)
  \/ \E l \in Loops : OwnerWrites(l)
  \/ OtherSteps

MemorySpec == MemoryInit /\ [][MemoryNext]_memVars

-----------------------------------------------------------------------------
(* Properties.                                                             *)

\* Texts, files and notices have their shapes.
MemoryTypeOK ==
  /\ memory \in [Loops -> Text] /\ base \in [Runs -> Text] /\ sent \in [Runs -> Text]
  /\ file \in [Runs -> Files]
  /\ blamed \subseteq Runs /\ edits \in 0..MaxEdits /\ editedAt \in [Runs -> 0..MaxEdits]

\* A run is told that the owner changed the memory under it only if the owner did:
\* late, repeated and reconciled reports of other runs of the loop never cost a run
\* what it learned.
OnlyTheOwnerIsBlamed == \A r \in blamed : editedAt[r] < edits

\* What an owner writes stands until a run replaces it that was claimed afterwards
\* and so has read it.
OwnersWriteStands ==
  [][\A l \in Loops : memory'[l] # memory[l] /\ memory'[l].by # NoRun /\ memory[l].by = NoRun
       => editedAt[memory'[l].by] >= memory[l].n]_memVars

\* The memory is never a text that an agent had only begun to write when it was
\* killed.
MemoryIsWhole == \A l \in Loops : memory[l].left = "whole"
=============================================================================
