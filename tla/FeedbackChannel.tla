--------------------------- MODULE FeedbackChannel ---------------------------
(***************************************************************************)
(* The bounded channel from adapters to the runtime: senders on any thread *)
(* and one receiver share a state under a mutex, so each call is one step. *)
(* A sender keeps the channel it was made for; when the receiver is gone   *)
(* or shut down that channel is closed for good, and a runtime that starts *)
(* again makes a new one. epoch tells the channels apart.                  *)
(***************************************************************************)
EXTENDS Integers, SequencesExt

CONSTANTS
  Capacity,              \* of make_feedback_channel
  MaxEpoch               \* bound of the model

ASSUME FeedbackAssumption == Capacity \in Nat \ {0}

VARIABLES
  epoch, reports, observations, shutdown,
  seen,                  \* what the runtime has received
  closedOn               \* what no channel will ever deliver

channelVars == <<epoch, reports, observations, shutdown, seen, closedOn>>

Items(queue) == ToSet(queue)

\* try_send of a sender made for channel sender, when this much is queued.
SendResult(sender, queued) ==
  IF sender # epoch \/ shutdown THEN "Closed"
  ELSE IF queued >= Capacity THEN "Full"
  ELSE "Sent"

Queued == Len(reports) + Len(observations)

\* try_send for a report and for an observation; Full and Closed queue nothing.
TrySendReport(sender, report) ==
  LET result == SendResult(sender, Queued)
  IN  /\ reports' = IF result = "Sent" THEN Append(reports, report) ELSE reports
      /\ closedOn' = IF result = "Closed" THEN closedOn \union {report} ELSE closedOn
      /\ UNCHANGED <<epoch, observations, shutdown, seen>>

TrySendObservation(sender, observation) ==
  LET result == SendResult(sender, Queued)
  IN  /\ observations' = IF result = "Sent" THEN Append(observations, observation) ELSE observations
      /\ closedOn' = IF result = "Closed" THEN closedOn \union {observation} ELSE closedOn
      /\ UNCHANGED <<epoch, reports, shutdown, seen>>

\* The receiver can read what is queued after a shutdown, too.
TryReceive ==
  /\ reports # <<>>
  /\ seen' = seen \union {Head(reports)}
  /\ reports' = Tail(reports)
  /\ UNCHANGED <<epoch, observations, shutdown, closedOn>>

TryReceiveObservation ==
  /\ observations # <<>>
  /\ seen' = seen \union {Head(observations)}
  /\ observations' = Tail(observations)
  /\ UNCHANGED <<epoch, reports, shutdown, closedOn>>

Drain ==
  /\ reports # <<>>
  /\ seen' = seen \union Items(reports)
  /\ reports' = <<>>
  /\ UNCHANGED <<epoch, observations, shutdown, closedOn>>

DrainObservations ==
  /\ observations # <<>>
  /\ seen' = seen \union Items(observations)
  /\ observations' = <<>>
  /\ UNCHANGED <<epoch, reports, shutdown, closedOn>>

Shutdown ==
  /\ ~shutdown
  /\ shutdown' = TRUE
  /\ UNCHANGED <<epoch, reports, observations, seen, closedOn>>

\* The receiver is assigned that of a new channel, or the runtime starts again:
\* what the old one held is gone.
Reconnect ==
  /\ epoch < MaxEpoch
  /\ epoch' = epoch + 1
  /\ reports' = <<>> /\ observations' = <<>> /\ shutdown' = FALSE
  /\ closedOn' = closedOn \union Items(reports) \union Items(observations)
  /\ UNCHANGED seen

ChannelInit ==
  /\ epoch = 1 /\ shutdown = FALSE
  /\ reports = <<>> /\ observations = <<>>
  /\ seen = {} /\ closedOn = {}

Receive == TryReceive \/ TryReceiveObservation \/ Drain \/ DrainObservations
=============================================================================
