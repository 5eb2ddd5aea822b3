----------------------------- MODULE RunLedger -----------------------------
(***************************************************************************)
(* What the Pievo server promises about the runs of its loops, whatever    *)
(* tables, leases and receipts it keeps for that purpose.                  *)
(*                                                                         *)
(* A run is queued for a loop, executes on the machine, and ends.  A run   *)
(* the server lost contact with is SUSPECT: its end is provisional and it  *)
(* may still be executing.  Once the daemon says that it does not hold the *)
(* run it is DISOWNED: its end is still provisional, but it executes no    *)
(* more.  Deleting a loop erases its runs.                                 *)
(***************************************************************************)
EXTENDS Integers

CONSTANTS Loops, NoLoop, MaxRuns

VARIABLES
  owner,   \* the loop of each run
  stage    \* how far each run has come

Runs == 1..MaxRuns
Stages == {"unborn", "queued", "executing", "suspect", "disowned",
           "done", "error", "canceled", "deleted"}

Busy(l) == \E r \in Runs : owner[r] = l /\ stage[r] \in {"executing", "suspect"}

Submit(r, l) ==
  /\ stage[r] = "unborn"
  /\ owner' = [owner EXCEPT ![r] = l]
  /\ stage' = [stage EXCEPT ![r] = "queued"]

Start(r) ==
  /\ stage[r] = "queued" /\ ~Busy(owner[r])
  /\ stage' = [stage EXCEPT ![r] = "executing"]
  /\ UNCHANGED owner

\* The directions in which a run may end.
Outcomes == {"done", "error", "canceled"}
Ends(s) == CASE s = "queued" -> {"canceled"}
             [] s = "executing" -> {"suspect"} \cup Outcomes
             [] s = "suspect" -> {"disowned"} \cup Outcomes
             [] s = "disowned" -> Outcomes
             [] OTHER -> {}

\* Runs end together when one result switches the loop off.
End ==
  /\ stage' \in [Runs -> Stages]
  /\ \A r \in Runs : stage'[r] = stage[r] \/ stage'[r] \in Ends(stage[r])
  /\ UNCHANGED owner

Erase(S) ==
  /\ stage' = [r \in Runs |-> IF owner[r] \in S THEN "deleted" ELSE stage[r]]
  /\ UNCHANGED owner

Init == /\ owner = [r \in Runs |-> NoLoop]
        /\ stage = [r \in Runs |-> "unborn"]

Next == \/ \E r \in Runs : Start(r) \/ \E l \in Loops : Submit(r, l)
        \/ End
        \/ \E S \in SUBSET Loops : Erase(S)

Spec == Init /\ [][Next]_<<owner, stage>>
=============================================================================
