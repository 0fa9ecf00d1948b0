--------------------------- MODULE RuntimeEffects ---------------------------
(***************************************************************************)
(* The durable effect outbox of the runtime (class RuntimeEffectsState):   *)
(* commands issued for resolved desires, their dispatch attempts, retries  *)
(* and timeouts, the reports and observations that settle them, and the    *)
(* reconstruction of all of it from the event log after a crash.           *)
(*                                                                         *)
(* The runtime is single threaded (ensure_owner_thread), so the only       *)
(* concurrency is between its frame, the adapters and their devices, and   *)
(* crashes. A frame is split exactly where one of these can intervene: pc  *)
(* says where it stands.                                                   *)
(*                                                                         *)
(* The log. RuntimeEffectsState::restore is a left fold over the records.  *)
(* The log is represented by the results of that fold: journal[1] is what  *)
(* restore rebuilds from the flushed part of the log, journal[i + 1] what  *)
(* it rebuilds with one more appended record. Appending a record extends   *)
(* journal, a flush keeps its last element only, and a crash leaves any    *)
(* prefix. Records restore ignores (frames, reports, evidence of the       *)
(* world) leave the fold unchanged and are not represented; nor is         *)
(* authoritativeByTarget, which only the projection into components reads. *)
(*                                                                         *)
(* The feedback channel is a component of its own: a report or observation *)
(* received here is any one that could have been sent. Mismatched,         *)
(* malformed and cross-session feedback only appends ignored records and   *)
(* is left out. A device keeps a numbered history of values per target.    *)
(***************************************************************************)
EXTENDS Integers, Sequences, FiniteSets

CONSTANTS
  Targets,             \* the (route, target) keys effects address
  Values,              \* canonical values
  NoValue,             \* std::nullopt: no desire, nothing observed
  Cleared,             \* a selected desire that disappeared
  Routes,              \* adapter routes
  RouteOf,             \* the route of every target
  NativeIdempotency,   \* the routes whose adapter declares nativeIdempotency
  ImmediateTiming,     \* TRUE iff options.feedbackTiming is Immediate
  RetryDelays,         \* retry.retryDelays
  OverallTimeout,      \* retry.overallTimeout
  MaxRetainedCommands, \* options.maxRetainedCommands
  FeedbackCapacity,    \* options.feedbackCapacity
  FailureStatuses,     \* the settled statuses but Applied adapters report
  MaxCommands,         \* bound: the last command id (2^64 - 2 in the code)
  MaxTime,             \* bound: the last frame time
  MaxRevision,         \* bound: states a device has per target
  MaxUnknown,          \* bound: commands adapters report as Indeterminate
  MaxRestarts          \* bound: crashes and restarts

CommandIds == 1..MaxCommands
Statuses == {"Pending", "Applied", "Rejected", "Failed", "TimedOut",
             "Superseded", "Indeterminate"}

ASSUME ValueAssumption == {NoValue, Cleared} \cap Values = {} /\ NoValue # Cleared
ASSUME RouteAssumption == RouteOf \in [Targets -> Routes]

\* RetryPolicy::validate and the constructor's checks of its options.
ASSUME PolicyAssumption ==
  /\ OverallTimeout \in Nat \ {0}
  /\ RetryDelays \in Seq(1..(OverallTimeout - 1))
  /\ \A i, j \in DOMAIN RetryDelays : i < j => RetryDelays[i] < RetryDelays[j]
  /\ MaxRetainedCommands \in Nat \ {0}
  /\ FeedbackCapacity \in Nat \ {0}
  /\ FailureStatuses \subseteq Statuses \ {"Pending", "Applied", "Indeterminate"}
ASSUME BoundAssumption ==
  /\ MaxCommands \in Nat \ {0}
  /\ MaxTime \in Nat
  /\ MaxRevision \in Nat \ {0}
  /\ MaxUnknown \in Nat
  /\ MaxRestarts \in Nat

VARIABLES
  commands,             \* id -> command, for the retained ids
  latestByTarget,       \* newest retained command of a target, 0 if none
  terminalOrder,        \* ids in the order they settled
  terminalReports,      \* the terminalReport of every command that has one
  observed,             \* last authoritative value of a target, or NoValue
  observedRevisions,    \* its revision, 0 if none
  deferred,             \* deferredSynchronousReports
  adapters,             \* registered routes
  nextCommand,
  pc, faulted, now,     \* the frame in progress, and its time
  desires,              \* what the frame resolved and has not handled yet
  cursor,               \* the last id retry_due has visited, 0 before
  journal,              \* the event log
  device,               \* per target, the values the device has had
  evidence,             \* the applied and indeterminate reports adapters can send
  sent,                 \* every delivery to an adapter
  restarts

outbox == <<commands, latestByTarget, terminalOrder, terminalReports>>
mirror == <<observed, observedRevisions>>
staging == <<deferred, adapters>>
frame == <<pc, faulted, now, desires, cursor>>
outside == <<device, evidence, sent, restarts>>
vars == <<outbox, mirror, staging, nextCommand, frame, journal, outside>>

Command == [target : Targets, desired : Values, issuedAt : 0..MaxTime,
            status : Statuses, retryIndex : 0..Len(RetryDelays)]
Report == [command : CommandIds, status : Statuses \ {"Pending"},
           value : Values \cup {NoValue}, revision : Nat]
Delivery == [command : CommandIds, attempt : 1..(Len(RetryDelays) + 1),
             target : Targets, value : Values, epoch : 0..MaxRestarts]
CommandMaps == UNION {[S -> Command] : S \in SUBSET CommandIds}
NoDesires == [t \in Targets |-> NoValue]

\* What restore() can rebuild from a log.
Projection == [commands : CommandMaps,
               observed : [Targets -> Values \cup {NoValue}],
               revisions : [Targets -> Nat]]

\* f with k bound to v, and f without the keys in S.
Put(f, k, v) == [x \in DOMAIN f \cup {k} |-> IF x = k THEN v ELSE f[x]]
Without(f, S) == [x \in DOMAIN f \ S |-> f[x]]

Active(status) == status \in {"Pending", "Indeterminate"}

-----------------------------------------------------------------------------
(* The log, as what restore() makes of it *)

\* What restore() rebuilds from every record appended to j.
Rebuilt(j) == j[Len(j)]
Flushed(j) == <<Rebuilt(j)>>

LogCommand(j, id, c) ==
  Append(j, [Rebuilt(j) EXCEPT !.commands = Put(@, id, c)])
LogAttempt(j, id, attempt) ==
  Append(j, [Rebuilt(j) EXCEPT !.commands[id].retryIndex =
               IF @ < attempt - 1 THEN attempt - 1 ELSE @])
LogStatus(j, id, status) ==
  Append(j, [Rebuilt(j) EXCEPT !.commands[id].status = status])
LogObserved(j, t, value, revision) ==
  Append(j, [Rebuilt(j) EXCEPT !.observed[t] = value,
                               !.revisions[t] = revision])

-----------------------------------------------------------------------------
(* Status changes and pruning *)

SetStatus(cmds, id, status) == [cmds EXCEPT ![id].status = status]

\* set_status lists an id in terminalOrder when it stops being active.
SettledOrder(cmds, order, id, status) ==
  IF Active(cmds[id].status) /\ ~Active(status) THEN Append(order, id) ELSE order

\* Mutant of Transition: set_status alone, nothing recorded.
TransitionUnrecorded(id, status) ==
  /\ commands' = SetStatus(commands, id, status)
  /\ terminalOrder' = SettledOrder(commands, terminalOrder, id, status)
  /\ UNCHANGED <<latestByTarget, terminalReports, journal>>

\* transition(): the record is appended before the status is written.
Transition(id, status) ==
  /\ commands' = SetStatus(commands, id, status)
  /\ terminalOrder' = SettledOrder(commands, terminalOrder, id, status)
  /\ journal' = LogStatus(journal, id, status)
  /\ UNCHANGED <<latestByTarget, terminalReports>>

\* The retained settled commands among the first k entries of order.
SettledAmong(cmds, order, k) ==
  {id \in DOMAIN cmds : /\ ~Active(cmds[id].status)
                        /\ \E i \in 1..k : order[i] = id}

\* How many entries prune_terminal_history pops: until the rest fits limit.
Fits(cmds, order, k, limit) ==
  Cardinality(DOMAIN cmds \ SettledAmong(cmds, order, k)) <= limit
Popped(cmds, order, limit) ==
  CHOOSE k \in 0..Len(order) :
    /\ k = Len(order) \/ Fits(cmds, order, k, limit)
    /\ \A j \in 0..(k - 1) : ~Fits(cmds, order, j, limit)

\* prune_terminal_history on the given maps; Pruned are the ids it erases.
Pruned(cmds, order, limit) ==
  SettledAmong(cmds, order, Popped(cmds, order, limit))
Prune(cmds, order, latest, limit) ==
  LET gone == Pruned(cmds, order, limit)
  IN
  /\ commands' = Without(cmds, gone)
  /\ terminalOrder' =
       SubSeq(order, Popped(cmds, order, limit) + 1, Len(order))
  /\ latestByTarget' =
       [t \in Targets |-> IF latest[t] \in gone THEN 0 ELSE latest[t]]
  /\ terminalReports' = {r \in terminalReports : r.command \notin gone}

-----------------------------------------------------------------------------
(* Feedback *)

\* The reports adapters can send of a set of commands.
ReportsOf(ids) ==
  {e \in evidence : e.command \in ids} \cup
  {[command |-> id, status |-> status, value |-> NoValue, revision |-> id] :
     id \in ids, status \in FailureStatuses}

\* apply_report: unknown commands, second reports and stale outcomes of
\* superseded commands are only recorded.
Acceptable(r) ==
  /\ r.command \in DOMAIN commands
  /\ \A other \in terminalReports : other.command # r.command
  /\ commands[r.command].status = "Superseded" => r.status = "Applied"

\* Mutant of CommitAuthoritative: the revision is counted, not the reported one.
CommitCounted(j, t, value, revision) ==
  /\ observed' = [observed EXCEPT ![t] = value]
  /\ observedRevisions' = [observedRevisions EXCEPT ![t] = @ + 1]
  /\ journal' = LogObserved(j, t, value, observedRevisions[t] + 1)

\* commit_authoritative, on top of the log j.
CommitAuthoritative(j, t, value, revision) ==
  /\ observed' = [observed EXCEPT ![t] = value]
  /\ observedRevisions' = [observedRevisions EXCEPT ![t] = revision]
  /\ journal' = LogObserved(j, t, value, revision)

ApplyReport(r) ==
  LET id == r.command
      t == commands[id].target
      fresh == commands[id].status # "Superseded"
      logged == IF fresh THEN LogStatus(journal, id, r.status) ELSE journal
  IN
  \/ /\ ~Acceptable(r)
     /\ UNCHANGED <<outbox, mirror, journal>>
  \/ /\ Acceptable(r)
     /\ commands' = IF fresh THEN SetStatus(commands, id, r.status) ELSE commands
     /\ terminalOrder' =
          IF fresh THEN SettledOrder(commands, terminalOrder, id, r.status)
          ELSE terminalOrder
     /\ terminalReports' = terminalReports \cup {r}
     /\ UNCHANGED latestByTarget
     /\ IF r.status = "Applied" /\ observedRevisions[t] < r.revision
        THEN CommitAuthoritative(logged, t, r.value, r.revision)
        ELSE journal' = logged /\ UNCHANGED mirror

\* Mutant of ApplyObservation: stale revisions count too.
ApplyAnyObservation(t, value, revision) ==
  /\ IF RouteOf[t] \in adapters
     THEN CommitAuthoritative(journal, t, value, revision)
     ELSE UNCHANGED <<mirror, journal>>
  /\ UNCHANGED outbox

\* apply_observation: only a newer revision of a registered route counts.
ApplyObservation(t, value, revision) ==
  /\ IF RouteOf[t] \in adapters /\ observedRevisions[t] < revision
     THEN CommitAuthoritative(journal, t, value, revision)
     ELSE UNCHANGED <<mirror, journal>>
  /\ UNCHANGED outbox

-----------------------------------------------------------------------------
(* The frame: feedback and phases *)

\* run_frame is refused while faulted, and with a time before the last one.
BeginFrame ==
  /\ pc = "idle"
  /\ ~faulted
  /\ now' \in now..MaxTime
  /\ pc' = "reports"
  /\ cursor' = 0
  /\ UNCHANGED <<outbox, mirror, staging, nextCommand, faulted, desires,
                 journal, outside>>

ReceiveDeferred ==
  /\ pc = "reports"
  /\ deferred # <<>>
  /\ ApplyReport(Head(deferred))
  /\ deferred' = Tail(deferred)
  /\ UNCHANGED <<adapters, nextCommand, frame, outside>>

\* try_receive yields a report some adapter has sent: late, repeated, in any
\* order, or never.
ReceiveReport ==
  /\ pc = "reports"
  /\ deferred = <<>>
  /\ \E r \in ReportsOf({s.command : s \in sent}) : ApplyReport(r)
  /\ UNCHANGED <<staging, nextCommand, frame, outside>>

\* Mutant of ReportsDrained: staged reports may wait for a later frame.
ReportsLeft ==
  /\ pc = "reports"
  /\ pc' = "observations"
  /\ UNCHANGED <<outbox, mirror, staging, nextCommand, faulted, now, desires,
                 cursor, journal, outside>>

ReportsDrained ==
  /\ pc = "reports"
  /\ deferred = <<>>
  /\ pc' = "observations"
  /\ UNCHANGED <<outbox, mirror, staging, nextCommand, faulted, now, desires,
                 cursor, journal, outside>>

\* An observation of any state the device has had, likewise.
ReceiveObservation ==
  /\ pc = "observations"
  /\ \E t \in Targets : \E revision \in 1..Len(device[t]) :
       ApplyObservation(t, device[t][revision], revision)
  /\ UNCHANGED <<staging, nextCommand, frame, outside>>

PendingLatest(t) ==
  /\ latestByTarget[t] # 0
  /\ commands[latestByTarget[t]].status = "Pending"

\* The systems ran, intents were resolved and apply_selections has collected
\* the effects. Clearing matters only where a command is pending.
RunPhases ==
  /\ pc = "observations"
  /\ desires' \in [Targets -> Values \cup {NoValue, Cleared}]
  /\ \A t \in Targets : desires'[t] \in Values => RouteOf[t] \in adapters
  /\ \A t \in Targets : desires'[t] = Cleared => PendingLatest(t)
  /\ pc' = "work"
  /\ UNCHANGED <<outbox, mirror, staging, nextCommand, faulted, now, cursor,
                 journal, outside>>

\* The catch block of run_frame on top of the log j: its flush is best effort.
FailFrame(j) ==
  /\ faulted' = TRUE
  /\ pc' = "idle"
  /\ desires' = NoDesires
  /\ journal' \in {j, Flushed(j)}
  /\ UNCHANGED <<now, cursor>>

\* A phase or the recording of the world throws, a resolved effect has no
\* registered route, or the adapter throws EventStoreError.
FrameThrows ==
  /\ pc \in {"observations", "work", "await"}
  /\ FailFrame(journal)
  /\ UNCHANGED <<outbox, mirror, staging, nextCommand, outside>>

-----------------------------------------------------------------------------
(* The frame: issuing *)

\* clear_desire, called by apply_selections for a bound target without a
\* selection.
ClearDesire(t) ==
  /\ pc = "work"
  /\ desires[t] = Cleared
  /\ PendingLatest(t)
  /\ Transition(latestByTarget[t], "Superseded")
  /\ desires' = [desires EXCEPT ![t] = NoValue]
  /\ UNCHANGED <<mirror, staging, nextCommand, pc, faulted, now, cursor, outside>>

\* Mutant of Unneeded: an indeterminate command does not block its target.
UnneededIfPending(t) ==
  /\ PendingLatest(t)
  /\ commands[latestByTarget[t]].desired = desires[t]

\* Blocked by an indeterminate command, or the value is already outstanding.
Unneeded(t) ==
  /\ latestByTarget[t] # 0
  /\ LET prior == commands[latestByTarget[t]]
     IN \/ prior.status = "Indeterminate"
        \/ prior.status = "Pending" /\ prior.desired = desires[t]

\* The maps and the log once a pending prior command has been superseded.
SupersededCommands(t) ==
  IF PendingLatest(t) THEN SetStatus(commands, latestByTarget[t], "Superseded")
  ELSE commands
SupersededOrder(t) ==
  IF PendingLatest(t) THEN Append(terminalOrder, latestByTarget[t])
  ELSE terminalOrder
SupersededJournal(t) ==
  IF PendingLatest(t) THEN LogStatus(journal, latestByTarget[t], "Superseded")
  ELSE journal

\* issue() has an effect to consider once nothing is left to clear.
Issuing(t) ==
  /\ pc = "work"
  /\ \A u \in Targets : desires[u] # Cleared
  /\ desires[t] # NoValue

IssueUnneeded(t) ==
  /\ Issuing(t)
  /\ Unneeded(t)
  /\ desires' = [desires EXCEPT ![t] = NoValue]
  /\ UNCHANGED <<outbox, mirror, staging, nextCommand, pc, faulted, now, cursor,
                 journal, outside>>

\* The target already shows the value: the prior command is still superseded.
IssueAlreadyObserved(t) ==
  /\ Issuing(t)
  /\ ~Unneeded(t)
  /\ observed[t] = desires[t]
  /\ commands' = SupersededCommands(t)
  /\ terminalOrder' = SupersededOrder(t)
  /\ journal' = SupersededJournal(t)
  /\ desires' = [desires EXCEPT ![t] = NoValue]
  /\ UNCHANGED <<latestByTarget, terminalReports, mirror, staging, nextCommand,
                 pc, faulted, now, cursor, outside>>

\* Mutant of CanIssue: the id sequence is not checked for exhaustion.
CanIssueUnchecked(t) ==
  Fits(SupersededCommands(t), SupersededOrder(t), Len(SupersededOrder(t)),
       MaxRetainedCommands - 1)

\* prune_terminal_history(true) leaves a free slot and an id is left.
CanIssue(t) ==
  /\ Fits(SupersededCommands(t), SupersededOrder(t), Len(SupersededOrder(t)),
          MaxRetainedCommands - 1)
  /\ nextCommand \in CommandIds

Issue(t) ==
  LET gone == Pruned(SupersededCommands(t), SupersededOrder(t),
                     MaxRetainedCommands - 1)
      command == [target |-> t, desired |-> desires[t], issuedAt |-> now,
                  status |-> "Pending", retryIndex |-> 0]
  IN
  /\ Issuing(t)
  /\ ~Unneeded(t)
  /\ observed[t] # desires[t]
  /\ CanIssue(t)
  /\ commands' = Put(Without(SupersededCommands(t), gone), nextCommand, command)
  /\ latestByTarget' =
       [u \in Targets |-> IF u = t THEN nextCommand
                          ELSE IF latestByTarget[u] \in gone THEN 0
                          ELSE latestByTarget[u]]
  /\ terminalOrder' =
       SubSeq(SupersededOrder(t),
              Popped(SupersededCommands(t), SupersededOrder(t),
                     MaxRetainedCommands - 1) + 1,
              Len(SupersededOrder(t)))
  /\ terminalReports' = {r \in terminalReports : r.command \notin gone}
  /\ journal' = LogCommand(SupersededJournal(t), nextCommand, command)
  /\ nextCommand' = nextCommand + 1
  /\ pc' = "attempt"
  /\ desires' = [desires EXCEPT ![t] = NoValue]
  /\ UNCHANGED <<mirror, staging, faulted, now, cursor, outside>>

\* Every retained command is active, or the ids are exhausted.
IssueThrows(t) ==
  /\ Issuing(t)
  /\ ~Unneeded(t)
  /\ observed[t] # desires[t]
  /\ ~CanIssue(t)
  /\ Prune(SupersededCommands(t), SupersededOrder(t), latestByTarget,
           MaxRetainedCommands - 1)
  /\ FailFrame(SupersededJournal(t))
  /\ UNCHANGED <<mirror, staging, nextCommand, outside>>

-----------------------------------------------------------------------------
(* The frame: dispatching *)

\* The command dispatch() works on: the one just issued, or the one retry_due
\* stands at.
current == IF cursor = 0 THEN nextCommand - 1 ELSE cursor
Attempt == commands[current].retryIndex + 1

\* Mutant of RecordAttempt: no flush before the adapter is called.
RecordUnflushed ==
  /\ pc = "attempt"
  /\ journal' = LogAttempt(journal, current, Attempt)
  /\ pc' = "call"
  /\ UNCHANGED <<outbox, mirror, staging, nextCommand, faulted, now, desires,
                 cursor, outside>>

\* dispatch(): the attempt is recorded and everything flushed ...
RecordAttempt ==
  /\ pc = "attempt"
  /\ journal' = Flushed(LogAttempt(journal, current, Attempt))
  /\ pc' = "call"
  /\ UNCHANGED <<outbox, mirror, staging, nextCommand, faulted, now, desires,
                 cursor, outside>>

\* ... before the adapter receives the command.
AdapterReceives ==
  /\ pc = "call"
  /\ sent' = sent \cup
       {[command |-> current, attempt |-> Attempt, epoch |-> restarts,
         target |-> commands[current].target,
         value |-> commands[current].desired]}
  /\ pc' = "await"
  /\ UNCHANGED <<outbox, mirror, staging, nextCommand, faulted, now, desires,
                 cursor, journal, device, evidence, restarts>>

DispatchReturns ==
  /\ pc = "await"
  /\ pc' = "work"
  /\ UNCHANGED <<nextCommand, adapters, faulted, now, desires, cursor, outside>>

\* The adapter refuses the command.
DispatchRefused ==
  /\ DispatchReturns
  /\ \E status \in {"Rejected", "Failed"} : Transition(current, status)
  /\ UNCHANGED <<mirror, deferred>>

\* The adapter throws: without native idempotency the outcome is unknown.
DispatchThrows ==
  /\ DispatchReturns
  /\ IF RouteOf[commands[current].target] \in NativeIdempotency
     THEN UNCHANGED <<outbox, journal>>
     ELSE Transition(current, "Indeterminate")
  /\ UNCHANGED <<mirror, deferred>>

\* Accepted without a report: the outcome comes later, or never.
DispatchAccepted ==
  /\ DispatchReturns
  /\ UNCHANGED <<outbox, mirror, deferred, journal>>

\* Accepted with a report, applied now or staged for the next frame by the
\* session's timing; a full stage makes the outcome unknown.
DispatchReported ==
  /\ DispatchReturns
  /\ \E r \in ReportsOf({current}) :
       \/ /\ ImmediateTiming
          /\ ApplyReport(r)
          /\ UNCHANGED deferred
       \/ /\ ~ImmediateTiming
          /\ Len(deferred) < FeedbackCapacity
          /\ deferred' = Append(deferred, r)
          /\ UNCHANGED <<outbox, mirror, journal>>
       \/ /\ ~ImmediateTiming
          /\ Len(deferred) >= FeedbackCapacity
          /\ Transition(current, "Indeterminate")
          /\ UNCHANGED <<mirror, deferred>>

-----------------------------------------------------------------------------
(* The frame: retries and completion *)

Elapsed(c) == IF now >= c.issuedAt THEN now - c.issuedAt ELSE 0
Expired(c) == Elapsed(c) >= OverallTimeout
RetryReady(c) ==
  /\ c.retryIndex < Len(RetryDelays)
  /\ Elapsed(c) >= RetryDelays[c.retryIndex + 1]

\* Mutant of Ready: the retry delay is looked up before the overall timeout.
ReadyToRetry ==
  {id \in DOMAIN commands :
     /\ id > cursor
     /\ commands[id].status = "Pending"
     /\ RouteOf[commands[id].target] \in adapters
     /\ RetryReady(commands[id])}

\* The commands retry_due has still to act on; it visits them in id order.
Ready ==
  {id \in DOMAIN commands :
     /\ id > cursor
     /\ commands[id].status = "Pending"
     /\ RouteOf[commands[id].target] \in adapters
     /\ Expired(commands[id]) \/ RetryReady(commands[id])}
AllIssued == pc = "work" /\ desires = NoDesires
Visits(id) == AllIssued /\ id \in Ready /\ \A other \in Ready : id <= other

TimeOut(id) ==
  /\ Visits(id)
  /\ Expired(commands[id])
  /\ Transition(id, "TimedOut")
  /\ cursor' = id
  /\ UNCHANGED <<mirror, staging, nextCommand, pc, faulted, now, desires, outside>>

\* Mutant of Retry: the attempt is not counted.
RetryUncounted(id) ==
  /\ Visits(id)
  /\ ~Expired(commands[id])
  /\ cursor' = id
  /\ pc' = "attempt"
  /\ UNCHANGED <<outbox, mirror, staging, nextCommand, faulted, now, desires,
                 journal, outside>>

Retry(id) ==
  /\ Visits(id)
  /\ ~Expired(commands[id])
  /\ commands' = [commands EXCEPT ![id].retryIndex = @ + 1]
  /\ cursor' = id
  /\ pc' = "attempt"
  /\ UNCHANGED <<latestByTarget, terminalOrder, terminalReports, mirror, staging,
                 nextCommand, faulted, now, desires, journal, outside>>

\* prune_terminal_history(), FrameCompleted, flush.
CompleteFrame ==
  /\ AllIssued
  /\ Ready = {}
  /\ Prune(commands, terminalOrder, latestByTarget, MaxRetainedCommands)
  /\ journal' = Flushed(journal)
  /\ pc' = "idle"
  /\ UNCHANGED <<mirror, staging, nextCommand, faulted, now, desires, cursor,
                 outside>>

-----------------------------------------------------------------------------
(* The host, between frames *)

\* Mutant of RegisterAdapter: restored commands stay pending.
RegisterBlindly(route) ==
  /\ pc = "idle"
  /\ route \notin adapters
  /\ adapters' = adapters \cup {route}
  /\ UNCHANGED <<outbox, mirror, deferred, nextCommand, frame, journal, outside>>

\* register_adapter: without native idempotency, the commands of the route
\* that survived a restart become indeterminate in one durable batch.
RegisterAdapter(route) ==
  LET uncertain ==
        {id \in DOMAIN commands :
           /\ route \notin NativeIdempotency
           /\ RouteOf[commands[id].target] = route
           /\ commands[id].status = "Pending"}
      Marked(cmds) ==
        [id \in DOMAIN cmds |->
           IF id \in uncertain
           THEN [cmds[id] EXCEPT !.status = "Indeterminate"]
           ELSE cmds[id]]
  IN
  /\ pc = "idle"
  /\ route \notin adapters
  /\ adapters' = adapters \cup {route}
  /\ commands' = Marked(commands)
  /\ journal' = IF uncertain = {} THEN journal
                ELSE <<[Rebuilt(journal) EXCEPT !.commands = Marked(@)]>>
  /\ UNCHANGED <<latestByTarget, terminalOrder, terminalReports, mirror, deferred,
                 nextCommand, frame, outside>>

\* reconcile_indeterminate with the value the host read from the device. The
\* flush is a step of its own: a crash may separate the two records.
Reconcile(t) ==
  LET id == latestByTarget[t]
      value == device[t][Len(device[t])]
      applied == commands[id].desired = value
      status == IF applied THEN "Applied" ELSE "Failed"
      revision == IF observedRevisions[t] = 0 THEN id
                  ELSE observedRevisions[t] + 1
  IN
  /\ pc = "idle"
  /\ id # 0
  /\ commands[id].status = "Indeterminate"
  /\ commands' = SetStatus(commands, id, status)
  /\ terminalOrder' = Append(terminalOrder, id)
  /\ CommitAuthoritative(LogStatus(journal, id, status), t, value, revision)
  /\ terminalReports' = {r \in terminalReports : r.command # id}
       \cup {[command |-> id, status |-> status, revision |-> revision,
              value |-> IF applied THEN value ELSE NoValue]}
  /\ pc' = "flush"
  /\ UNCHANGED <<latestByTarget, staging, nextCommand, faulted, now, desires,
                 cursor, outside>>

ReconcileFlush ==
  /\ pc = "flush"
  /\ journal' = Flushed(journal)
  /\ pc' = "idle"
  /\ UNCHANGED <<outbox, mirror, staging, nextCommand, faulted, now, desires,
                 cursor, outside>>

\* checkpoint(): a durable record restore() rebuilds the same state from.
Checkpoint ==
  /\ pc = "idle"
  /\ journal' = Flushed(journal)
  /\ UNCHANGED <<outbox, mirror, staging, nextCommand, frame, outside>>

-----------------------------------------------------------------------------
(* Crash and restart *)

Settled(cmds) == {id \in DOMAIN cmds : ~Active(cmds[id].status)}

\* The largest of a set of ids, 0 if it is empty.
Newest(ids) ==
  IF ids = {} THEN 0 ELSE CHOOSE id \in ids : \A other \in ids : other <= id

NewestOf(cmds, t) == Newest({id \in DOMAIN cmds : cmds[id].target = t})

\* terminalOrder as restore() rebuilds it: the settled ids in id order.
InIdOrder(order, ids) ==
  /\ \A i, j \in DOMAIN order : i < j => order[i] < order[j]
  /\ \A id \in ids : \E i \in DOMAIN order : order[i] = id

\* The process stops with the first k results of the log surviving, and a new
\* runtime is constructed over it, at any time of its own clock.
Restart(k) ==
  LET p == journal[k]
      settled == Settled(p.commands)
  IN
  /\ restarts < MaxRestarts
  /\ restarts' = restarts + 1
  /\ journal' = SubSeq(journal, 1, k)
  /\ \E order \in [1..Cardinality(settled) -> settled] :
       LET gone == Pruned(p.commands, order, MaxRetainedCommands)
       IN
       /\ InIdOrder(order, settled)
       /\ commands' = Without(p.commands, gone)
       /\ latestByTarget' =
            [t \in Targets |-> IF NewestOf(p.commands, t) \in gone THEN 0
                               ELSE NewestOf(p.commands, t)]
       /\ terminalOrder' =
            SubSeq(order, Popped(p.commands, order, MaxRetainedCommands) + 1,
                   Len(order))
  /\ terminalReports' = {}
  /\ observed' = p.observed
  /\ observedRevisions' = p.revisions
  /\ nextCommand' = Newest(DOMAIN p.commands) + 1
  /\ deferred' = <<>>
  /\ adapters' = {}
  /\ pc' = "idle"
  /\ faulted' = FALSE
  /\ now' \in 0..MaxTime
  /\ desires' = NoDesires
  /\ cursor' = 0
  /\ UNCHANGED <<device, evidence, sent>>

-----------------------------------------------------------------------------
(* The environment *)

\* A device executes a delivery, which the adapter can then report. Only one
\* behind an idempotent adapter is known not to execute a command twice.
DeviceExecutes(s) ==
  /\ Len(device[s.target]) < MaxRevision
  /\ RouteOf[s.target] \in NativeIdempotency =>
       \A e \in evidence : e.command = s.command => e.status # "Applied"
  /\ device' = [device EXCEPT ![s.target] = Append(@, s.value)]
  /\ evidence' = evidence \cup
       {[command |-> s.command, status |-> "Applied", value |-> s.value,
         revision |-> Len(device[s.target]) + 1]}
  /\ UNCHANGED <<outbox, mirror, staging, nextCommand, frame, journal, sent,
                 restarts>>

\* An adapter can no longer tell what became of a command it received, and
\* will report the status Indeterminate of it.
AdapterLosesTrack(s) ==
  /\ Cardinality({e \in evidence : e.status = "Indeterminate"}) < MaxUnknown
  /\ evidence' = evidence \cup
       {[command |-> s.command, status |-> "Indeterminate", value |-> NoValue,
         revision |-> s.command]}
  /\ UNCHANGED <<outbox, mirror, staging, nextCommand, frame, journal, device,
                 sent, restarts>>

\* A device changes by itself.
DeviceChanges(t, value) ==
  /\ Len(device[t]) < MaxRevision
  /\ value # device[t][Len(device[t])]
  /\ device' = [device EXCEPT ![t] = Append(@, value)]
  /\ UNCHANGED <<outbox, mirror, staging, nextCommand, frame, journal, evidence,
                 sent, restarts>>

-----------------------------------------------------------------------------
(* Specification *)

NoCommands == [id \in {} |-> NoValue]

Init ==
  /\ commands = NoCommands
  /\ latestByTarget = [t \in Targets |-> 0]
  /\ terminalOrder = <<>>
  /\ terminalReports = {}
  /\ observed = [t \in Targets |-> NoValue]
  /\ observedRevisions = [t \in Targets |-> 0]
  /\ deferred = <<>>
  /\ adapters = {}
  /\ nextCommand = 1
  /\ pc = "idle"
  /\ faulted = FALSE
  /\ now = 0
  /\ desires = NoDesires
  /\ cursor = 0
  /\ journal = <<[commands |-> NoCommands, observed |-> observed,
                  revisions |-> observedRevisions]>>
  /\ device \in [Targets -> {<<v>> : v \in Values}]
  /\ evidence = {}
  /\ sent = {}
  /\ restarts = 0

Frame ==
  \/ BeginFrame
  \/ ReceiveDeferred
  \/ ReceiveReport
  \/ ReportsDrained
  \/ ReceiveObservation
  \/ RunPhases
  \/ FrameThrows
  \/ \E t \in Targets : \/ ClearDesire(t)
                        \/ IssueUnneeded(t)
                        \/ IssueAlreadyObserved(t)
                        \/ Issue(t)
                        \/ IssueThrows(t)
  \/ RecordAttempt
  \/ AdapterReceives
  \/ DispatchRefused
  \/ DispatchThrows
  \/ DispatchAccepted
  \/ DispatchReported
  \/ \E id \in DOMAIN commands : TimeOut(id) \/ Retry(id)
  \/ CompleteFrame

Host ==
  \/ \E route \in Routes : RegisterAdapter(route)
  \/ \E t \in Targets : Reconcile(t)
  \/ ReconcileFlush
  \/ Checkpoint
  \/ \E k \in 1..Len(journal) : Restart(k)

Environment ==
  \/ \E s \in sent : DeviceExecutes(s) \/ AdapterLosesTrack(s)
  \/ \E t \in Targets, v \in Values : DeviceChanges(t, v)

Next == Frame \/ Host \/ Environment

Spec == Init /\ [][Next]_vars

-----------------------------------------------------------------------------
(* Properties *)

\* Every variable of RuntimeEffectsState, of the frame, of the log and of the
\* environment keeps its type.
TypeOK ==
  /\ commands \in CommandMaps
  /\ latestByTarget \in [Targets -> 0..MaxCommands]
  /\ terminalOrder \in Seq(CommandIds)
  /\ terminalReports \subseteq Report
  /\ observed \in [Targets -> Values \cup {NoValue}]
  /\ observedRevisions \in [Targets -> Nat]
  /\ deferred \in Seq(Report)
  /\ adapters \subseteq Routes
  /\ nextCommand \in 1..(MaxCommands + 1)
  /\ pc \in {"idle", "reports", "observations", "work", "attempt", "call",
             "await", "flush"}
  /\ faulted \in BOOLEAN
  /\ now \in 0..MaxTime
  /\ desires \in [Targets -> Values \cup {NoValue, Cleared}]
  /\ cursor \in 0..MaxCommands
  /\ journal \in Seq(Projection) /\ journal # <<>>
  /\ device \in [Targets -> Seq(Values)]
  /\ \A t \in Targets : device[t] # <<>>
  /\ evidence \subseteq Report
  /\ sent \subseteq Delivery
  /\ restarts \in 0..MaxRestarts

LostTrack(id) == \E e \in evidence : e.command = id /\ e.status = "Indeterminate"

\* Indeterminate, and an adapter has itself said so: apply_report accepts that
\* status of a command that had timed out or failed before, however old it is.
Disowned(cmds, id) == cmds[id].status = "Indeterminate" /\ LostTrack(id)

\* An active command is the newest of its target, in the outbox and in every
\* part of the log that a restart may find, unless it is indeterminate by its
\* adapter's own report. So retry_due never drives two commands against one
\* target, whatever late reports arrive, and reconcile_indeterminate, which
\* looks at the newest command of a target only, reaches every command that
\* the runtime itself made indeterminate.
ActiveIsLatest ==
  /\ \A id \in DOMAIN commands :
       Active(commands[id].status) =>
         \/ latestByTarget[commands[id].target] = id
         \/ Disowned(commands, id)
  /\ \A k \in DOMAIN journal :
       LET cmds == journal[k].commands
       IN \A id, other \in DOMAIN cmds :
            Active(cmds[id].status) /\ cmds[other].target = cmds[id].target =>
              other <= id \/ Disowned(cmds, id)

\* Whatever an adapter has received is on the flushed part of the log: the
\* command with its effect, and the attempt. No crash can lead to another
\* command with the same id.
WriteAhead ==
  \A s \in sent :
    /\ s.command \in DOMAIN journal[1].commands
    /\ LET c == journal[1].commands[s.command]
       IN /\ c.target = s.target
          /\ c.desired = s.value
          /\ s.attempt <= c.retryIndex + 1

\* dispatch() never hands an adapter the same attempt of a command twice, not
\* even when a crash falls between recording the attempt and its outcome.
AttemptsAreFresh ==
  [][pc = "call" /\ pc' = "await" =>
       \A s \in sent : ~(s.command = current /\ s.attempt = Attempt)]_vars

\* A command of a route without native idempotency is never dispatched again
\* by a runtime that was started after its first dispatch.
NoBlindRedispatch ==
  \A r, s \in sent :
    r.command = s.command /\ RouteOf[r.target] \notin NativeIdempotency
      => r.epoch = s.epoch

\* The live state is what restore() would rebuild from the log as written:
\* every retained command, every observation; what was pruned is settled.
\* (A retry advances its index before it records the attempt.)
RestoreIsFaithful ==
  LET p == Rebuilt(journal)
  IN
  /\ DOMAIN commands \subseteq DOMAIN p.commands
  /\ \A id \in DOMAIN p.commands :
       /\ id < nextCommand
       /\ IF id \in DOMAIN commands
          THEN \/ commands[id] = p.commands[id]
               \/ /\ pc = "attempt" /\ id = cursor
                  /\ commands[id] =
                       [p.commands[id] EXCEPT !.retryIndex = @ + 1]
          ELSE ~Active(p.commands[id].status)
  /\ observed = p.observed
  /\ observedRevisions = p.revisions
  /\ \A t \in Targets : latestByTarget[t] \in {NewestOf(p.commands, t), 0}

\* Retained commands never exceed the capacity, every settled one can still
\* be pruned, and restore() never throws for lack of capacity, whatever part
\* of the log survives.
RetentionBounded ==
  /\ Cardinality(DOMAIN commands) <= MaxRetainedCommands
  /\ \A id \in Settled(commands) :
       \E i \in DOMAIN terminalOrder : terminalOrder[i] = id
  /\ \A k \in DOMAIN journal :
       Cardinality(DOMAIN journal[k].commands \ Settled(journal[k].commands))
         <= MaxRetainedCommands

\* A report staged by dispatch() still finds its command when the next frame
\* applies it: neither superseding, a timeout nor pruning loses an outcome. The
\* stage holds one report per command and stays within its capacity.
StagedReportsFindTheirCommand ==
  /\ Len(deferred) <= FeedbackCapacity
  /\ \A i \in DOMAIN deferred : deferred[i].command \in DOMAIN commands
  /\ \A i, j \in DOMAIN deferred :
       deferred[i].command = deferred[j].command => i = j

\* The two limits, of retained commands and of staged reports, lose nothing.
WithinCapacity == RetentionBounded /\ StagedReportsFindTheirCommand

\* Where the host never reconciles, the observed value is one the device had,
\* at the recorded revision.
ObservedIsReal ==
  \A t \in Targets :
    IF observedRevisions[t] = 0 THEN observed[t] = NoValue
    ELSE /\ observedRevisions[t] <= Len(device[t])
         /\ observed[t] = device[t][observedRevisions[t]]

\* Within one run of the process the observed revision of a target never
\* goes back, and the value only changes together with it.
ObservedAdvances ==
  [][restarts' = restarts =>
       \A t \in Targets :
         \/ observedRevisions'[t] > observedRevisions[t]
         \/ /\ observedRevisions'[t] = observedRevisions[t]
            /\ observed'[t] = observed[t]]_vars

-----------------------------------------------------------------------------
(* Liveness *)

FrameStep ==
  \/ ReceiveDeferred \/ ReportsDrained \/ RunPhases
  \/ \E t \in Targets : \/ ClearDesire(t)
                        \/ IssueUnneeded(t)
                        \/ IssueAlreadyObserved(t)
                        \/ Issue(t)
                        \/ IssueThrows(t)
  \/ RecordAttempt \/ AdapterReceives \/ DispatchAccepted
  \/ \E id \in DOMAIN commands : TimeOut(id) \/ Retry(id)
  \/ CompleteFrame

\* A started call runs to its end; the host keeps running frames. Strong
\* fairness for what the host does between its frames: its clock advances from
\* some frame to the next, and it registers its adapters after a restart.
\* Nothing is assumed of devices, and of adapters that a dispatch call returns.
Fairness ==
  /\ WF_vars(FrameStep)
  /\ WF_vars(ReconcileFlush)
  /\ WF_vars(BeginFrame)
  /\ SF_vars(BeginFrame /\ now' > now)
  /\ \A route \in Routes : SF_vars(RegisterAdapter(route))

FairSpec == Spec /\ Fairness

\* If frames keep completing, every pending command whose timeout falls within
\* the bounded clock leaves that status: applied, refused, superseded, timed
\* out or indeterminate. The premise excludes senders that refill the channel
\* as fast as process_feedback drains it, and a runtime that stays faulted.
PendingSettles ==
  []<>(pc = "idle" /\ ~faulted) =>
    \A id \in CommandIds :
      (/\ id \in DOMAIN commands
       /\ commands[id].status = "Pending"
       /\ commands[id].issuedAt + OverallTimeout <= MaxTime)
        ~> ~(id \in DOMAIN commands /\ commands[id].status = "Pending")
=============================================================================
