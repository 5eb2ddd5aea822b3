---------------------------- MODULE MCLoopMemory ----------------------------
(* Two small instances of the composed system, checked in one run: with    *)
(* every stimulus and two faults but no memory, and with memory and agents *)
(* that write it, one fault and the schedule alone.                        *)
EXTENDS LoopMemory, TLC

VARIABLE instance

MCInit == MemoryInit /\ instance \in {"faults", "memory"}

MCNext ==
  /\ \/ instance = "faults" /\ DaemonNext /\ UNCHANGED mvars
     \/ instance = "memory" /\ MemoryNext
  /\ UNCHANGED instance

\* A poll waits and looks again only before the first fault.  Where memories are written,
\* no request outlives the daemon's patience (what it claims is executed by nobody) and no
\* report is later than the grace period (its memory is not read).
Undisturbed ==
  /\ faults > 0 => \A p \in Requests : ~poll[p].again
  /\ instance = "memory" => /\ faults <= 1
                            /\ \A r \in Runs : ~run[r].cancel /\ ~lease[r].elapsed
                            /\ \A l \in Loops : loop[l].state = "present"
                            /\ poll["abandoned"] = NoPoll
=============================================================================
