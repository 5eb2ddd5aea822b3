---------------------------- MODULE ReportDrain ----------------------------
(***************************************************************************)
(* How the daemon gets its reports off its hands: the rows of the outbox   *)
(* (daemon/report-outbox.ts) and the drain that sends them                 *)
(* (ConcurrentRuntime.sendPending, daemon/daemon.ts).                      *)
(*                                                                         *)
(* One drain at a time takes a snapshot of the rows and works it off with  *)
(* a few workers; polls, which start the next one, go on meanwhile.  The   *)
(* composed system of Daemon sends each row on its own; here is what the   *)
(* code has instead.  What an answer is, ReportWire says.                 *)
(***************************************************************************)
EXTENDS Naturals, Sequences, SequencesExt

CONSTANTS
  Reports,
  Answered,    \* those the server has a definitive answer for
  Workers,     \* REPORT_SEND_CONCURRENCY of them
  NoReport,
  MaxEnds      \* stops and kills of the daemon (bound)

ASSUME DrainAssumption ==
  Answered \subseteq Reports /\ NoReport \notin Reports /\ MaxEnds \in Nat

VARIABLES
  rows,        \* pending_reports, ORDER BY created_at
  due,         \* the rows whose next_attempt_at has come
  reachable,   \* does the server answer again
  queue,       \* what the drain has yet to send
  sending,     \* what each worker sends
  draining,    \* reportDrain
  stage,       \* of the daemon
  ends

rvars == <<rows, due, reachable, queue, sending, draining, stage, ends>>

Pending == ToSet(rows)
Idle(w) == sending[w] = NoReport
NothingSent == [w \in Workers |-> NoReport]

\* sendPending: a snapshot of what is ready, of everything when it is forced.
Drain(snapshot) ==
  IF snapshot = <<>> THEN UNCHANGED <<queue, draining>>
  ELSE queue' = snapshot /\ draining' = TRUE
Ready == SelectSeq(rows, LAMBDA r : r \in due)

-----------------------------------------------------------------------------
\* accept: the report of an execution, also of one that ends while the daemon stops.
PutReport(r) ==
  /\ stage # "down" /\ r \notin Pending
  /\ rows' = Append(rows, r) /\ due' = due \cup {r}
  /\ UNCHANGED <<reachable, queue, sending, draining, stage, ends>>

BackoffEnds(r) ==
  /\ r \in Pending \ due /\ due' = due \cup {r}
  /\ UNCHANGED <<rows, reachable, queue, sending, draining, stage, ends>>

\* A poll was answered; while a drain runs it starts none.
PollTick ==
  /\ stage = "up" /\ ~draining
  /\ Drain(Ready)
  /\ UNCHANGED <<rows, due, reachable, sending, stage, ends>>

Send(w) ==
  /\ draining /\ stage = "up" /\ Idle(w) /\ queue # <<>>
  /\ sending' = [sending EXCEPT ![w] = Head(queue)] /\ queue' = Tail(queue)
  /\ UNCHANGED <<rows, due, reachable, draining, stage, ends>>

\* A failure is the failure of one row; the worker goes on with the next.
QueueGivenUp == <<>>
QueueAfterFailure == queue

\* applyAck, or an exception (a row that could not be written stays due); an answer that
\* comes when the daemon is stopping is not looked at.
SendEnds(w) ==
  LET r == sending[w]
      definitive == reachable /\ r \in Answered
  IN /\ ~Idle(w)
     /\ sending' = [sending EXCEPT ![w] = NoReport]
     /\ \/ /\ stage = "up" /\ definitive
           /\ rows' = SelectSeq(rows, LAMBDA q : q # r) /\ due' = due \ {r}
           /\ UNCHANGED queue
        \/ /\ stage = "up" /\ ~definitive
           /\ due' \in {due, due \ {r}} /\ queue' = QueueAfterFailure
           /\ UNCHANGED rows
        \/ stage = "stopping" /\ UNCHANGED <<rows, due, queue>>
     /\ UNCHANGED <<reachable, draining, stage, ends>>

DrainEnds ==
  /\ draining /\ (\A w \in Workers : Idle(w))
  /\ queue = <<>> \/ stage = "stopping"
  /\ draining' = FALSE /\ queue' = <<>>
  /\ UNCHANGED <<rows, due, reachable, sending, stage, ends>>

\* shutdown aborts what is being sent; runDaemon waits for the drain.
StopDaemon ==
  /\ stage = "up" /\ ends < MaxEnds
  /\ stage' = "stopping" /\ ends' = ends + 1
  /\ UNCHANGED <<rows, due, reachable, queue, sending, draining>>

DaemonExits ==
  /\ stage = "stopping" /\ ~draining /\ stage' = "down"
  /\ UNCHANGED <<rows, due, reachable, queue, sending, draining, ends>>

DaemonKilled ==
  /\ stage # "down" /\ ends < MaxEnds
  /\ stage' = "down" /\ ends' = ends + 1
  /\ queue' = <<>> /\ sending' = NothingSent /\ draining' = FALSE
  /\ UNCHANGED <<rows, due, reachable>>

\* The next daemon replays all of the outbox at once.
DaemonStarts ==
  /\ stage = "down" /\ stage' = "up"
  /\ Drain(rows)
  /\ UNCHANGED <<rows, due, reachable, sending, ends>>

ServerReturns ==
  /\ ~reachable /\ reachable' = TRUE
  /\ UNCHANGED <<rows, due, queue, sending, draining, stage, ends>>

-----------------------------------------------------------------------------
DrainInit ==
  /\ rows = <<>> /\ due = {} /\ reachable = FALSE
  /\ queue = <<>> /\ sending = NothingSent /\ draining = FALSE
  /\ stage = "up" /\ ends = 0

DaemonStep == PollTick \/ StopDaemon \/ DaemonExits \/ DaemonKilled \/ DaemonStarts

DrainNext ==
  \/ \E r \in Reports : PutReport(r) \/ BackoffEnds(r)
  \/ \E w \in Workers : Send(w) \/ SendEnds(w)
  \/ DrainEnds \/ DaemonStep \/ ServerReturns

\* Polls are answered, sends end (at the latest after REPORT_TIMEOUT_MS), time passes, and a
\* stopped daemon is started again.
DrainFairness ==
  /\ \A r \in Reports : WF_rvars(BackoffEnds(r))
  /\ \A w \in Workers : WF_rvars(Send(w) \/ SendEnds(w))
  /\ WF_rvars(PollTick) /\ WF_rvars(DrainEnds)
  /\ WF_rvars(DaemonExits) /\ WF_rvars(DaemonStarts)

DrainSpec == DrainInit /\ [][DrainNext]_rvars /\ DrainFairness

-----------------------------------------------------------------------------
(* Properties.                                                             *)

\* A report the server has an answer for leaves the outbox, although others that never
\* will are older than it and are tried again and again, and the daemon stops meanwhile.
Waits(r) == reachable /\ r \in Pending
AnswerableReportsLeave == \A r \in Answered : Waits(r) ~> r \notin Pending
=============================================================================
