----------------------------- MODULE MCRunStore -----------------------------
(* Small instances of RunStore for TLC.                                    *)
EXTENDS RunStore, TLC

LoopSymmetry == Permutations(ReportIds) \cup Permutations(Loops)

\* The third run is that of a continuous loop that nobody deletes, and comes before any
\* lease has expired.
ThirdRunIsContinuous ==
  \/ run[MaxRuns].phase = "unborn"
  \/ /\ \A l \in Loops : loop[l].mode = "continuous" /\ Present(l) /\ ~loop[l].deleting
     /\ \A r \in Runs : ~lease[r].elapsed

\* Evidence has nothing to do with the switch of a loop.
SwitchedOn == \A l \in Loops : Present(l) => loop[l].enabled \/ loop[l].deleting
=============================================================================
