--------------------------- MODULE InMemoryAdapter ---------------------------
(***************************************************************************)
(* The simulated device of one target and its adapter: commands change the *)
(* device and are reported after a latency, once or several times, in or   *)
(* out of order; observations report changes that nobody commanded. What   *)
(* is due goes to the feedback channel, and stays while that is full.      *)
(*                                                                         *)
(* The adapter is called by one thread at a time, the receiver of the      *)
(* channel may be another's: deliver_through is a step for each send.      *)
(***************************************************************************)
EXTENDS FeedbackChannel, FiniteSets

CONSTANTS
  Values, Normalize,     \* values, and what the device makes of them
  Behaviors,             \* the AdapterBehaviors the host sets
  NativeIdempotency,
  MaxDuplicateReports, MaxPendingReports, MaxCachedOutcomes,
  MaxTime, MaxDeviceRevision,  \* stand for the largest 64-bit time and revision
  MaxCommand, MaxDispatches    \* bounds of the model

ASSUME AdapterAssumption ==
  /\ NativeIdempotency => MaxCachedOutcomes > 0
  /\ Values \subseteq DOMAIN Normalize
  /\ MaxCommand \in Nat

CommandStatuses ==
  {"Pending", "Applied", "Rejected", "Failed", "TimedOut", "Superseded", "Indeterminate"}

\* An AdapterBehavior, as far as its type constrains it.
ASSUME BehaviorAssumption ==
  \A b \in Behaviors :
    b.latency \in Nat /\ b.duplicates \in Nat /\ b.outcome \in CommandStatuses

VARIABLES
  now, behavior,
  pendingReports, pendingObservations,   \* by due time, then in order of arrival
  cachedOutcomes,        \* command id -> the command and its result
  state, revision,       \* of the device
  commands,              \* the commands the runtime has issued so far
  executions, dispatches,    \* of each command; in all
  delivery               \* the deliver_through in progress

deviceVars == <<state, revision>>
pendingVars == <<pendingReports, pendingObservations>>
vars == <<channelVars, now, behavior, pendingVars, cachedOutcomes, deviceVars, commands,
          executions, dispatches, delivery>>

NoDelivery == [phase |-> "none", through |-> 0]

Pending == Len(pendingReports) + Len(pendingObservations)

\* multimap::emplace, count times: after the items due no later.
Emplaced(queue, item, count) ==
  LET before == Cardinality({i \in DOMAIN queue : queue[i].due <= item.due})
  IN  SubSeq(queue, 1, before) \o [i \in 1..count |-> item]
        \o SubSeq(queue, before + 1, Len(queue))

--------------------------------------------------------------------------------
(* Dispatch *)

\* validate_behavior
ValidBehavior(b) == b.duplicates <= MaxDuplicateReports /\ b.outcome # "Pending"

SetBehavior(b) ==
  /\ delivery = NoDelivery
  /\ ValidBehavior(b)
  /\ behavior' = b
  /\ UNCHANGED <<channelVars, now, pendingVars, cachedOutcomes, deviceVars, commands,
                 executions, dispatches, delivery>>

\* Evidence of the device: a revision with its value; a report without a value
\* has the number of its command.
Evidence(command) ==
  IF behavior.outcome = "Applied"
  THEN [kind |-> "Applied", revision |-> revision + 1, value |-> Normalize[command.value]]
  ELSE [kind |-> behavior.outcome, revision |-> command.id, value |-> command.value]

Insert(outcomes, command, result) ==
  [id \in DOMAIN outcomes \union {command.id} |->
     IF id = command.id THEN [command |-> command, result |-> result] ELSE outcomes[id]]

\* Mutant of CacheOutcome: an outcome without a report is not remembered.
CacheReport(command, result) ==
  IF NativeIdempotency /\ result.reports # {} THEN Insert(cachedOutcomes, command, result)
  ELSE cachedOutcomes

CacheOutcome(command, result) ==
  IF NativeIdempotency THEN Insert(cachedOutcomes, command, result) ELSE cachedOutcomes

\* A result without a report, with the outcome cached.
Concludes(command, disposition) ==
  /\ cachedOutcomes' = CacheOutcome(command, [disposition |-> disposition, reports |-> {}])
  /\ UNCHANGED <<channelVars, pendingVars, deviceVars, executions>>

RoomNeeded == IF behavior.latency = 0 THEN behavior.duplicates ELSE behavior.duplicates + 1

\* The device executes; a latency of zero sends the duplicates at once, and
\* those that do not fit wait, while the report itself is the result.
Executes(command, sender) ==
  LET evidence == Evidence(command)
      room == IF sender = epoch /\ ~shutdown THEN Capacity - Queued ELSE 0
      sent == IF behavior.duplicates < room THEN behavior.duplicates ELSE room
      closed == sender # epoch \/ shutdown
      item == [due |-> command.issuedAt + behavior.latency, item |-> evidence, sender |-> sender]
      immediate == behavior.latency = 0
      waiting == IF ~immediate THEN behavior.duplicates + 1
                 ELSE IF closed THEN 0 ELSE behavior.duplicates - sent
  IN  /\ executions' = [executions EXCEPT ![command.id] =
           IF behavior.outcome = "Applied" THEN @ + 1 ELSE @]
      /\ IF behavior.outcome = "Applied"
         THEN state' = evidence.value /\ revision' = evidence.revision
         ELSE UNCHANGED deviceVars
      /\ reports' = IF immediate THEN reports \o [i \in 1..sent |-> evidence] ELSE reports
      /\ seen' = IF immediate THEN seen \union {evidence} ELSE seen
      /\ pendingReports' = Emplaced(pendingReports, item, waiting)
      /\ cachedOutcomes' = CacheOutcome(command,
           [disposition |-> "Accepted", reports |-> IF immediate THEN {evidence} ELSE {}])
      /\ UNCHANGED <<epoch, observations, shutdown, closedOn, pendingObservations>>

\* The command has an outcome already.
Answered(command) == NativeIdempotency /\ command.id \in DOMAIN cachedOutcomes

\* Its id was given to another command before.
Reused(command) == Answered(command) /\ cachedOutcomes[command.id].command # command

\* The adapter answers from its cache, and the runtime sees the report again.
Repeats(command) ==
  /\ seen' = seen \union cachedOutcomes[command.id].result.reports
  /\ UNCHANGED <<epoch, reports, observations, shutdown, closedOn, pendingVars,
                 cachedOutcomes, deviceVars, executions>>

\* A refusal or an exception that leaves no trace.
Unchanged == UNCHANGED <<channelVars, pendingVars, cachedOutcomes, deviceVars, executions>>

\* dispatch, of a command that routes here.
Dispatch(command) ==
  /\ delivery = NoDelivery
  /\ dispatches < MaxDispatches
  /\ dispatches' = dispatches + 1
  /\ commands' = commands \union {command}
  /\ UNCHANGED <<now, behavior, delivery>>
  /\ CASE Reused(command) -> Unchanged
       [] Answered(command) -> Repeats(command)
       [] NativeIdempotency /\ Cardinality(DOMAIN cachedOutcomes) >= MaxCachedOutcomes -> Unchanged
       [] behavior.crash -> Unchanged
       [] behavior.silent -> Concludes(command, "Accepted")
       [] behavior.latency > MaxTime - command.issuedAt -> Concludes(command, "Failed")
       [] Pending + RoomNeeded > MaxPendingReports -> Concludes(command, "Failed")
       [] behavior.outcome = "Applied" /\ revision = MaxDeviceRevision -> Concludes(command, "Failed")
       [] OTHER -> Executes(command, epoch)

\* The runtime issues a command of its own time, or sends one again as it was.
Issue(id, value) ==
  /\ id = Cardinality(commands) + 1
  /\ Dispatch([id |-> id, value |-> value, issuedAt |-> now])

Retry == \E command \in commands : Dispatch(command)

\* A host that drives the adapter itself gives the id of a command with an
\* outcome to another one.
Confuse ==
  \E command \in commands, value \in Values :
    /\ Reused([command EXCEPT !.value = value])
    /\ Dispatch([command EXCEPT !.value = value])

\* Mutant of ObservedRevision: only commands count as changes.
ObservedAgain == IF revision = 0 THEN 1 ELSE revision

ObservedRevision == revision + 1

\* observe: the device changes by itself, and the evidence waits until due. The
\* host says when it observed the change, at any time up to due.
Observe(value, due) ==
  /\ delivery = NoDelivery
  /\ Pending < MaxPendingReports
  /\ revision < MaxDeviceRevision
  /\ state' = value /\ revision' = ObservedRevision
  /\ pendingObservations' = Emplaced(pendingObservations,
       [due |-> due, sender |-> epoch,
        item |-> [kind |-> "Observed", revision |-> ObservedRevision, value |-> value]], 1)
  /\ UNCHANGED <<channelVars, now, behavior, pendingReports, cachedOutcomes, commands,
                 executions, dispatches, delivery>>

--------------------------------------------------------------------------------
(* Delivery *)

Due(item, through) == item.due <= through

DueItems(queue, through) == Cardinality({i \in DOMAIN queue : Due(queue[i], through)})

\* The item the loop takes next: the first one, or the last one that is due.
Next_(queue) == IF behavior.reverse THEN DueItems(queue, delivery.through) ELSE 1

DeliverThrough ==
  /\ delivery = NoDelivery
  /\ Pending > 0
  /\ delivery' = [phase |-> "reports", through |-> now]
  /\ UNCHANGED <<channelVars, now, behavior, pendingVars, cachedOutcomes, deviceVars,
                 commands, executions, dispatches>>

\* Mutant of Erased: what does not fit is erased as well.
ErasedAlways(queue, sender) == RemoveAt(queue, Next_(queue))

\* A full channel keeps the item pending; a closed one drops it.
Erased(queue, sender) ==
  IF SendResult(sender, Queued) = "Full" THEN queue ELSE RemoveAt(queue, Next_(queue))

\* Mutant of Continues: a closed channel ends the call as well.
ContinuesIfSent(sender) == IF SendResult(sender, Queued) = "Sent" THEN delivery ELSE NoDelivery

\* A full channel ends the call.
Continues(sender) == IF SendResult(sender, Queued) = "Full" THEN NoDelivery ELSE delivery

DeliveryUnchanged ==
  UNCHANGED <<now, behavior, cachedOutcomes, deviceVars, commands, executions, dispatches>>

\* One turn of the loop over reports. It ends the call when none is due, also
\* if observations are; with no report left, the observations follow.
DeliverReport ==
  /\ delivery.phase = "reports"
  /\ IF DueItems(pendingReports, delivery.through) = 0
     THEN /\ delivery' = IF pendingReports = <<>> THEN [delivery EXCEPT !.phase = "observations"]
                         ELSE NoDelivery
          /\ UNCHANGED <<channelVars, pendingVars>>
     ELSE LET next == pendingReports[Next_(pendingReports)]
          IN  /\ TrySendReport(next.sender, next.item)
              /\ pendingReports' = Erased(pendingReports, next.sender)
              /\ delivery' = Continues(next.sender)
              /\ UNCHANGED pendingObservations
  /\ DeliveryUnchanged

DeliverObservation ==
  /\ delivery.phase = "observations"
  /\ IF DueItems(pendingObservations, delivery.through) = 0
     THEN delivery' = NoDelivery /\ UNCHANGED <<channelVars, pendingVars>>
     ELSE LET next == pendingObservations[Next_(pendingObservations)]
          IN  /\ TrySendObservation(next.sender, next.item)
              /\ pendingObservations' = Erased(pendingObservations, next.sender)
              /\ delivery' = Continues(next.sender)
              /\ UNCHANGED pendingReports
  /\ DeliveryUnchanged

--------------------------------------------------------------------------------

\* Time passes, also during a call.
Tick ==
  /\ now < MaxTime
  /\ now' = now + 1
  /\ UNCHANGED <<channelVars, behavior, pendingVars, cachedOutcomes, deviceVars, commands,
                 executions, dispatches, delivery>>

adapterVars == <<now, behavior, pendingVars, cachedOutcomes, deviceVars, commands,
                 executions, dispatches, delivery>>

Init ==
  /\ ChannelInit
  /\ now = 0
  /\ behavior \in {b \in Behaviors : ValidBehavior(b)}
  /\ pendingReports = <<>> /\ pendingObservations = <<>> /\ cachedOutcomes = <<>>
  /\ state = CHOOSE v \in Values : TRUE
  /\ revision = 0
  /\ commands = {} /\ dispatches = 0
  /\ executions = [id \in 1..MaxCommand |-> 0]
  /\ delivery = NoDelivery

Next ==
  \/ \E b \in Behaviors : SetBehavior(b)
  \/ \E id \in 1..MaxCommand, value \in Values : Issue(id, value)
  \/ Retry \/ Confuse
  \/ \E value \in Values, due \in 0..MaxTime : Observe(value, due)
  \/ DeliverThrough \/ DeliverReport \/ DeliverObservation
  \/ Tick
  \/ (Receive \/ Shutdown \/ Reconnect) /\ UNCHANGED adapterVars

Spec == Init /\ [][Next]_vars

\* The host advances the time, delivers what is due, and runs frames, each of
\* which takes what the channel has.
FairSpec ==
  /\ Spec
  /\ WF_vars(Tick)
  /\ WF_vars(DeliverThrough) /\ WF_vars(DeliverReport) /\ WF_vars(DeliverObservation)
  /\ WF_vars((Drain \/ DrainObservations) /\ UNCHANGED adapterVars)

--------------------------------------------------------------------------------
(* Properties *)

InFlight ==
  {q.item : q \in ToSet(pendingReports) \union ToSet(pendingObservations)}
    \union Items(reports) \union Items(observations)

Changes(items) == {e \in items : e.kind \in {"Applied", "Observed"}}

\* Every revision the device went through has evidence on its way to the runtime
\* or received by it, unless the channel of that evidence was closed: a full
\* channel, a duplicate and an early deliver_through lose nothing (dispatch,
\* observe and deliver_through of InMemoryAdapter, try_send of FeedbackSender).
EveryChangeIsReported ==
  \A r \in 1..revision :
    r \in {e.revision : e \in Changes(InFlight \union seen \union closedOn)}

\* Two pieces of evidence for a revision agree on the value, and the newest is
\* the state of the device, whatever was sent again, delayed or answered from
\* the outcome cache (deviceRevisions of InMemoryAdapter).
EvidenceAgrees ==
  \A e, f \in Changes(InFlight \union seen \union closedOn) :
    /\ e.revision = f.revision => e.value = f.value
    /\ e.revision <= revision
    /\ e.revision = revision => e.value = state

\* With native idempotency a command changes the device at most once, however
\* often it is dispatched and whatever became of the first attempt
\* (cache_outcome and its lookup in dispatch).
ExecutedOnce == NativeIdempotency => \A id \in 1..MaxCommand : executions[id] <= 1

\* A call that ends leaves an item behind that was due when it began in two
\* cases only: the channel is full, or the item is an observation and a report
\* that is not due yet is pending.
LeavesOnlyBlocked ==
  delivery # NoDelivery /\ delivery' = NoDelivery =>
    \/ Queued >= Capacity /\ ~shutdown
    \/ /\ DueItems(pendingReports', delivery.through) = 0
       /\ pendingReports' = <<>> => DueItems(pendingObservations', delivery.through) = 0

\* No call of deliver_through forgets an item that is due, whatever is
\* dispatched before and after it and whoever closes, drains or replaces the
\* channel during it. As long as commands with a latency keep coming, the
\* observations may wait; unless dispatches or observations come for ever, what
\* is pending leaves the adapter in the end (deliver_through).
DueIsDelivered ==
  /\ [][LeavesOnlyBlocked]_vars
  /\ []<><<dispatches' # dispatches \/ revision' # revision>>_vars \/ []<>(Pending = 0)
=============================================================================
