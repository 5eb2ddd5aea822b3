------------------------------- MODULE MCHints -------------------------------
(* Small instances of three parts that share nothing, checked in one run:   *)
(* in each behaviour one of them moves.  The others stay in a state in       *)
(* which none of their fair actions is enabled.                              *)
EXTENDS Wakeups, ReportDrain, RunProcess, TLC

VARIABLE part

\* A poll is waited for that the server does not have.
Asleep ==
  /\ row = [enabled |-> FALSE, mode |-> "cron", overlap |-> "skip", cadence |-> "none"]
  /\ slot = "none" /\ busy = "no" /\ firing = "idle" /\ waking = FALSE
  /\ req = [q \in Connections |-> NoRequest]
  /\ waiter = NoConnection /\ listening = (CHOOSE q \in Connections : TRUE)
  /\ expiry = "none" /\ before = {}

\* A cron loop that queues one run, and a continuous one, which skips occurrences.  Expiry
\* meets the queue, not the waiters: it is looked at beside one request and no timer.
MCInit ==
  /\ part \in {"polls", "expiry", "reports", "process"}
  /\ IF part \in {"polls", "expiry"} THEN WakeupInit /\ row.overlap = "queue-one" ELSE Asleep
  /\ DrainInit /\ ProcessInit

MCNext ==
  /\ \/ part = "polls" /\ WakeupNext /\ expiry' = "none" /\ UNCHANGED <<rvars, pvars>>
     \/ /\ part = "expiry" /\ WakeupNext /\ firing' = "idle" /\ Cardinality(InHand') <= 1
        /\ UNCHANGED <<rvars, pvars>>
     \/ part = "reports" /\ DrainNext /\ UNCHANGED <<wvars, pvars>>
     \/ part = "process" /\ ProcessNext /\ UNCHANGED <<wvars, rvars>>
  /\ UNCHANGED part

MCSpec ==
  /\ MCInit /\ [][MCNext]_<<part, wvars, rvars, pvars>>
  /\ WakeupFairness /\ DrainFairness /\ ProcessFairness
=============================================================================
