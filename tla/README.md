# Verification of LiquidLayer

LiquidLayer is a C++ runtime in which *behaviors* state *intents* about
components, the runtime selects one intent per component in every *frame*, and
the selected values are carried to devices as *effect commands* through adapters.
Everything it must not forget is on an append-only event log. This directory
holds TLA+ models of the parts of it that are hard to test, the TLC
configurations that check them on small instances, and TLAPS proofs of the
properties that matter most.

## The system

| Component | Code | State | Operations |
| --- | --- | --- | --- |
| Runtime frame | `src/src/runtime/Runtime.cpp` | fault flag, clock, phase | `run_frame`: feedback, expiration, systems, resolution, application, retries, completion |
| Effect outbox | `src/src/runtime/RuntimeEffects*.cpp`, `RuntimeInternals.hpp` | commands, newest command per target, settled order, observed values and revisions, staged reports | issue, dispatch, retry, time out, apply report or observation, prune, reconcile, checkpoint, restore |
| Bindings and evidence | `src/src/runtime/RuntimeEvidence.cpp` | bindings of components to targets, recorded world | bind, unbind, apply selections, record |
| Idempotent dispatcher | `src/src/effects/IdempotentDispatcher.cpp` | outcomes in memory (least recently used), uncertain keys, dispatches in flight | `dispatch` from many threads, `clear_memory` |
| Feedback channel | `src/src/effects/Feedback.cpp` | one bounded queue for reports and observations, stop flag | send from many threads, receive, drain, shut down, replace |
| File event store | `src/src/events/FileEventStore*.{cpp,hpp}` | records, durable position, session lock | append, append many, flush, retain, recover |
| Memory event store | `src/src/events/MemoryEventStore.cpp` | records | append, read, retain |
| Replay projector | `src/src/events/Replay.cpp` | projected state | project, checkpoint, verify |
| Intent registry | `src/src/IntentRegistry.cpp`, `IntentExpiration.cpp` | intents, indexes by component and owner, free slots, open transaction | create, renew, destroy, expire, transactions, select |
| Behaviors, systems, coordinator, world | `src/src/BehaviorRegistry.cpp`, `SystemRegistry.cpp`, `src/src/world/` | behaviors, systems' memberships, ownership | create, destroy, attach, run systems |
| Component registry | `src/src/ComponentRegistry.cpp` | types, dense storage | add, remove, look up |
| Lua lifecycle | `src/src/scripting/LuaLifecycleSystem.cpp` | selected script, start flag, watches and snapshots per behavior | select, execute a bundle, remember, forget |
| Lua runner | `src/src/scripting/LuaBehaviorRunner.cpp`, `LuaCapabilityManifest.cpp` | exposed types, frozen flag, capability cache | expose, describe, execute, commit, capture a manifest |
| Lua values and schemas | `src/src/scripting/LuaValueSchema.cpp`, conversions in `LuaBehaviorRunner.cpp` | none | build a schema, validate, measure, push, read |
| Authoring session | `src/src/authoring/AuthoringSession.cpp` | scopes, proposals, suites, evaluations, payload counter | create, replace and revoke scopes, discover, submit, evaluate |
| Evaluation | `src/src/authoring/Evaluation.cpp`, `BoundedEvaluationStore.hpp` | the run in progress and its budget | prepare, input, advance, observe, expect, summarize, total |
| In-memory adapter | `src/src/simulation/InMemoryAdapter.cpp` | simulated devices, scheduled deliveries, outcome cache | dispatch, deliver, observe |
| Values, codecs, applications, sensor node | `src/src/Value.cpp`, `src/apps`, `src/atech` | none of interest | encoding, display, signal processing |

How they interact. The runtime is owned by one thread and every public call
checks it. In a frame it drains the feedback channel, runs the systems and the
scripts (which write intents), resolves the intents, and hands the effects of
bound components to the outbox. The outbox appends a record to the event store
for everything it decides and flushes before it calls an adapter. An adapter may
answer at once, later through the feedback channel from any thread, twice, or
never. The dispatcher sits between threads of a host and one adapter that is not
idempotent itself. After a crash, a new runtime rebuilds the outbox from what
the event store kept. Scripts run inside a frame: the lifecycle system selects
one script per behavior and asks the runner to execute it with the capabilities
the behavior has in the world. An authoring session lets outside callers propose
scripts for components the host grants them, and evaluates a proposal in worlds of
its own, frame by frame, with callbacks of the host in between.

What is hard here: a crash between any two records or between a record and the
call it announces; reports and observations that arrive late, repeated or out of
order, through two queues; a clock that starts anew after a restart; a bounded
history in which a command can settle twice; threads that share one execution
per key while outcomes are evicted; one condition variable for two predicates; a
log whose tail is torn; a cache of permissions beside the permissions; bundles
that fail after they were shown a change; budgets that run out in the middle of
what they account for; limits that one function counts in another way than the
next. `PROJECT.json` lists these hazards at the line where each
bites, with the properties that would catch it.

What makes the parts correct:

* outbox: nothing reaches an adapter that is not durable; no attempt is sent
  twice; an adapter that is not idempotent is not asked again after a crash; the
  rebuilt outbox is the live one; at most one command per target is pending;
  bounded retention; stale evidence never wins; commands settle;
* dispatcher: one execution per key as long as the key is remembered, the same
  answer for everyone, bounded caches, no lost wakeup, waiters return;
* event store: the flushed prefix survives any crash, batches are all or
  nothing, recovery only removes a torn tail, positions never repeat;
* feedback channel and adapter: every change of a device is reported unless its
  channel was closed, evidence never contradicts itself, a command is executed
  once, no delivery forgets what is due, and all is delivered once the work ceases;
* intent registry: indexes agree with the intents, stale handles find nothing, a
  rolled back transaction leaves no trace, selection is a function of the set;
* world: intents outlive the write access of their owner only where a full buffer
  stopped the call that took it, memberships and signatures follow the access
  whatever a callback does, the recorded topology is the real one but for changes
  it had no room for, handles never lie to whoever kept them;
* scripts: a script uses only what its behavior may use now, starts once, misses
  no change, can see every value that a schema admits, and can return it as far as
  the byte budget of its execution goes;
* authoring: what is retained is what is charged, a proposal is evaluated against
  what it was made for, a pass is a complete pass, complete totals are true.

## Modules

| Module | Role |
| --- | --- |
| `RuntimeEffects` | the outbox, the frame around it, the log and the crash |
| `MCRuntimeEffects` | its small instances |
| `RuntimeEffectsProofs` | type correctness, faithful recovery, write-ahead, fresh attempts |
| `RuntimeEffectsSafetyProofs` | observations that advance and are real, no blind redispatch, one active command per target, limits that lose nothing |
| `IdempotentDispatcher` | the dispatcher and its threads |
| `MCIdempotentDispatcher` | its small instances |
| `IdempotentDispatcherProofs` | consistency, one execution per remembered key, agreement of answers |
| `EventStore` | what an event store promises: a log, of which a prefix is durable |
| `Replay` | the projection of a sequence of records |
| `FileEventStore` | the event file, its disk and the store object; implements `EventStore` |
| `MCFileEventStore` | its small instances |
| `FileEventStoreProofs` | flushed records survive, memory matches the file, retention keeps the projection, the refinement of `EventStore` |
| `IntentStore` | what the intent registry promises: a set of intents under handles that are never reused |
| `IntentRegistry` | handles, indexes, lifecycle records, transactions, selection; implements `IntentStore` |
| `MCIntentRegistry` | its small instances |
| `IntentRegistryProofs` | consistency, true lifecycle records, selection, the refinement of `IntentStore` |
| `World` | behaviors, components, access, signatures, systems and what they mean for intents |
| `MCWorld` | its small instance |
| `WorldProofs` | authorised intents, fresh handles, true evidence, memberships that follow access |
| `LuaValueSchema` | schemas, validation, limits and the conversion of values to Lua and back |
| `LuaBehaviorRunner` | exposed types, the capability cache, one execution of a script; extends `LuaValueSchema` |
| `LuaLifecycleSystem` | scripts over frames; composes the runner with the frame and the host |
| `MCLuaScripts` | their small instances |
| `Evaluation` | one evaluation: cases, frames, callbacks, budget, totals |
| `AuthoringSession` | scopes, proposals and evaluations; composes the session with `Evaluation` |
| `MCAuthoringSession` | their small instance |
| `AuthoringSessionProofs` | the payload counter, evaluations of what was proposed, what Passed means, totals that are true |
| `FeedbackChannel` | the channel from adapters to the runtime |
| `InMemoryAdapter` | the simulated device; composes the adapter with the channel |
| `MCInMemoryAdapter` | their small instance |
| `InMemoryAdapterProofs` | reported changes, agreeing evidence, no second execution, deliveries that forget nothing |

### RuntimeEffects

The variables carry the names of the members of `RuntimeEffectsState`
(`commands`, `latestByTarget`, `terminalOrder`, `observed`, `observedRevisions`,
`deferred` for `deferredSynchronousReports`, `adapters`, `nextCommand`);
`terminalReports` gathers the `terminalReport` of each command. `pc`, `faulted`,
`now`, `desires` and `cursor` are the frame in progress, and `device`,
`evidence`, `sent` and `restarts` are the world outside.

*Granularity.* The runtime has one thread, so a frame is divided only where
something else can happen: a crash, a report, or a change of a device. Thus
recording an attempt (with its flush), the adapter receiving it, and the
adapter's return are three steps (`RecordAttempt`, `AdapterReceives`,
`Dispatch...`). Issuing is one step per effect up to its attempt; a reconciliation
and its flush are two.

*The log.* `restore` is a left fold over the records, so the log is represented
by the fold's results: `journal[1]` is what `restore` rebuilds from the flushed
records, and every appended record adds one element. A flush keeps the last
element, and a crash keeps any prefix (`Restart(k)`). What is assumed of the
event store is exactly this: the flushed records survive, and of the others a
prefix does. `Restart` then models the rest of `restore`: the order of the
settled commands, the newest command of a target, the next id and the pruning.

*The frame.* `BeginFrame` advances the clock; `ReceiveDeferred`, `ReceiveReport`
and `ReceiveObservation` are `process_feedback`; `RunPhases` stands for
expiration, systems, resolution and the collection of effects, and yields any
desires the bound targets can have; `ClearDesire` and the `Issue...` actions
are the calls of the outbox by `apply_selections` and `issue`; `TimeOut` and
`Retry` are `retry_due`, in id order; `CompleteFrame` prunes, records and
flushes. `FrameThrows` is the catch block of `run_frame`.

*Devices and adapters* are external. A device has a numbered history of values
per target; it may execute a delivery at any later time, more than once unless
its adapter declares native idempotency, or never, and may change by itself.
An adapter may report every execution that happened, in any order and any number
of times, and any failure. It may also lose track of a command it received
(`AdapterLosesTrack`) and report it as `Indeterminate`, late and more than once;
`validate_effect_report` accepts that status.

*Left out.* `authoritativeByTarget`, which only the projection into components
reads; records that `restore` ignores; feedback of another session, malformed or
for an unregistered route, which is only recorded; exceptions of the event store
inside an operation; calls of `register_adapter` and `reconcile_indeterminate`
from within a frame; text limits of ids and diagnostics. The payload of a
checkpoint is taken to decode to what was encoded (`Checkpoint`), and a host that
reconciles gives one of the `Values`.

### IdempotentDispatcher

`memory` and `recency` are the map of outcomes and its recency list, `uncertain`
the map of failed keys, `inFlight` the map of shared entries, and `entries` the
heap of them (a waiter keeps its entry alive after the map has dropped it).
`persisted` is the optional persistent cache, which is external: a call of it
may fail, and a store that fails may have stored. `executed`, `forgotten` and
`answers` record history for the properties.

One step is one critical section of the mutex, one call of the adapter, one call
of the persistent cache, or `notify_all`, which comes after the unlock. A thread
in `wait` is in state `waitEntry` or `waitSlot`; it may wake spuriously.
`FinishFailure` is `finish_failure`, including the eviction of an arbitrary
uncertain key and the swallowed failure to insert one. `Restart` is a new process
over the same persistent cache; `ClearMemory` is `clear_memory`.

### FileEventStore, EventStore and Replay

`file` is what the path leads to: a header (absent, torn, written or whole), the
generation, the batches in file order, each a sequence of records or `Damaged`
(represented by the empty sequence, since no batch is written without records),
and the number of batches that are on stable storage. `records`, `nextSequence`
and `faulted` are the members of the store object; `status` says whether there is
one and whether it is between the rename of a replacement and the flush of the
directory.

*The disk.* A process stop leaves what was written. A power loss keeps the
flushed batches, keeps or damages each of the others, and cuts the file anywhere
behind the flushed ones. A rename or creation is not durable by itself:
`displaced` holds the files the path may still lead to after a power loss.
`NameWithFile` says whether `fsync` of the file settles that too, as it does for
a new file on the common journaling filesystems; `fsync` of the directory always
does.

*The scan* tells two kinds of damage apart. A batch that is cut short, has no
magic or fails its checksum ends the records, and may be dropped if no intact
batch follows (`MidFileCorruption`). A batch that has its magic but a garbage
version, count or size is a hard error, whatever follows (`HeaderFailure`), since
these fields are looked at before the checksum. A write that is cut short leaves a
prefix of a batch and only the first kind; a power loss may leave either
(`MayGarble`), and `garbled` says which the first damaged batch is.

*Ghosts.* `lineage` holds every record of the session by its number, whether or
not retention has pruned it, and `durable` how many of them the store has
promised by returning from a flush, a durable append or the flush of the
directory. `EventStore` is stated over these two: a step extends the log,
promises all of it, or loses a suffix that was not promised. `IsEventStore` is
the refinement. `exposed` remembers how many batches were unflushed at the worst
power loss.

`Create`, `Open`, `Recover` and `Refuse` are the constructor; `AppendBatch` and
`Checkpoint` are `append_many` with either durability; `AppendThrows` and
`FlushThrows` set `faulted`; `Retain(n)` and `Recover` install a replacement and
`DirectoryFlushed` or `DirectoryFlushThrows` follows. A store without
`writableRecovery` throws where `Recover` is enabled and changes nothing.

*Replay.* The five maps of the projected state are one map of entries and its
eleven lists one history, since the projector treats each group alike; merging a
command's fields is setting its entry. A checkpoint is accepted at the start of
the records or when it equals the projection so far. `Project` is a recursive
function; `Fail` stands for the exception.

*Left out.* The session lock and the lock on the file (one process at a time is
assumed), a header of another session or version, the limits on bytes and record
counts, failures while a replacement is built, which remove it again, and payload
bytes that happen to be an intact batch, which the search behind a damaged one would
find.

### IntentRegistry and IntentStore

The variables are the members of `IntentRegistry`; the typed storages are one
map, `records`, which stays apart from `intentTypes` because a transaction copies
the second and not the first. `issued` remembers every handle a caller has seen
and `described` the intents that exist according to the lifecycle records taken so
far.

A call is one step. A transaction (the bundle a script's tick returns) is one
step per `cancel` and per `create`, and `Rollback` may take the place of any of
them, as the destructor of the transaction does when anything throws.
`CreateUnrecorded` is a creation that fails at the full record buffer, after it
took a handle, and `CreateOutOfSlots` one that finds no slot because some have
reached their last generation; both change state. `DestroyOwnedBy` and
`DestroyExpired` stop midway when the buffer is full. Handles are visited by slot, as
the ordered sets and maps of the code do: the handles of a removal and the
cancellations still to make are sets, and `Rank` and `InOrder` give their order.

`IntentStore` knows a set of live intents and the handles ever issued; its steps
add one intent under a new handle, drop some, or exchange some for others at once.
A transaction maps to the state before it until it commits, so that the
refinement (`IsIntentStore`) says it is atomic.

*Left out.* The 64-bit sequence number running out, the size of names, and
`resolve`, which is `DestroyExpired` followed by the selection.

### World

`active`, `availableSlots` and `generations` are the `BehaviorRegistry`;
`componentNames`, `slotGenerations` and `availableComponentSlots` the
`ComponentRegistry` and its storages, by type; `accesses` the access lists of the
storages; the signatures and revisions are in `WorldState`; `systems` and
`registrationOrder` are the `SystemRegistry`. `evidence` is what the recorded
topology says exists, and `issued` the handles callers have seen.

One thread owns a world, but the operations are not atomic: `update_behavior` and
`remove_behavior` call systems back for every membership they change. `call` is
the operation in progress, with the membership changes still to make; these are
known when it starts because a callback may not change the structure
(`ensure_structural_mutation_allowed`). They are a set, made in the order of the
loops of the code (`NextChange`): behaviors by slot, and for each the systems in the
order of their registration. `ChangeMembership` makes the next one and enters the
callback; the callback creates and destroys intents (`HostCode`) and
ends by returning or throwing (`CallbackEnds`); the last step of an operation
(`BehaviorCreated`, `UndoBehavior`, `ComponentRemoved`, ...) is what follows the
loop, with the exception handler of the code. `RunSystems` to `SystemsRun` is the
same for `run_systems`.

*Full buffers.* Destroying an intent takes a lifecycle record, and at the limit of
these records it throws. Where that stops an operation half-way the model has an
action: `IntentsNotDestroyed` (the access is lowered, the intents stay),
`BehaviorNotDestroyed` (the behavior stays, without access and signature, and so do
some intents), `ComponentNotRemoved` and `AccessNotRevoked` (the intents go first, so
the access stays too). `stranded` remembers the behaviors and intents such an
operation left. `record_topology` throws at its limit after the change took effect
(`Recorded`); `unrecorded` remembers the keys of which the last change has no record.
Both buffers may be full at any moment: how they fill is not modelled here, the
lifecycle buffer itself is in `IntentRegistry`.

*Left out.* Types and codecs are registered from the start; the values of
components, evidence of access, the signatures in the evidence of systems (which, like
access, change without a record when a callback throws), the phases of systems, and
the transaction of a script (which holds off structural changes as a callback does)
are not modelled. An intent is its owner and target.

### LuaValueSchema

Pure operators, evaluated by the run `lua_scripts`. A schema and a value are
records with a `kind`. A text is a number in byte order with a length in `Bytes`,
since only lengths, order and equality of texts matter; an optional bound is a set
of at most one number. `FactoryAccepts` and `Finishes` are the factories and
`finish_node`; `Visit`, `Merge` and `VisitArray` are the walk of
`validate_lua_value` with its count of nodes; `WorstCase` and `SchemaFits` are the
registration against the limits of the runner. Measuring, pushing and reading
increase counters and stop at the first that passes its limit, with one status for
all, so each is modelled by the totals it needs. The bytes are those of a whole
execution: `BudgetHolds` starts from what the snapshots and proposals before have
spent, the other limits are of one value. Reading counts the depth of
tables (`Tables`), measuring and pushing that of every value (`Deepest`). `Pushed`
is the Lua value, in which a table made from an array carries a mark, and `Read`
its inverse in the code, which decides between array and object by keys and mark.

The reference is `Conforms`, what a schema stands for, written without an order of
visiting. These definitions are recursive over trees and stay with TLC.

*Left out.* UTF-8, infinite bounds, rendering and digests, integers outside the
range of Lua's, and tables that contain themselves.

### LuaBehaviorRunner and LuaLifecycleSystem

`bindings`, `started`, `cache` and `cachedWorld` are the members of the runner;
`states` is the map of `BehaviorState`; `todo` is the loop over the members of
the system in a frame, and `faulted` an exception that left it. The world is what
the runner asks of it: `active`, `accessRevisions`, `slots`, `values`, `access`,
`intents`. `lastRun` is what the last step executed or registered, and `witness`
remembers what a script saw when it last succeeded; only properties read them.

An execution is one step: it runs on the owner thread and nothing it reads
changes meanwhile. A script is the requests it makes (`Requests`: proposals,
cancellations, watches, or a failure of its own); the first that is refused ends
it, since the environment has no `pcall`. `Outcome` orders the ways to fail as
`Impl::run` does, `Commits` and `Committed` are the transaction, and evidence
follows the commit (`EvidenceThrows`). `EarlyFailures` are the refusals of a source
that come before the capabilities are asked for. `CapabilityManifest` captures the
types with metadata (`DescribedTypes`) and may fail after it has filled the cache. `ReplaceWorld` gives the runner another world whose behaviors
and revisions have the same numbers.

`SkipBehavior`, `RunBehavior`, `EvidenceThrows` and `WatchThrows` are one turn of
the loop of `LuaLifecycleSystem::run` each. Between frames the host changes
the world, the access, the values and the script components (`HostStep`,
`SetScripts`), and uses the runner itself (`HostRuns`).

*Left out.* The interpreter, its instruction and memory counters (any of them may
end a script), the frame time a script is given, diagnostics.

### Evaluation and AuthoringSession

The maps of `AuthoringSession::Impl` are functions from ids: `scopes`,
`proposals`, `suites`, `evaluations`; `sessionPayloadBytes` is the counter and
`run` the evaluation in progress. A call is one step, its checks in the order of
the code (`FirstError`), and a refused call changes nothing. `Evaluate` ends where
the first callback is called. From there `PrepareCase`, `ApplyInput`, `Advance`,
`Observe`, `Expect` and `CaptureFinalState` are the phases of a case, each with the
ways in which a callback can return, throw or tamper; `KeepEvaluation`,
`AbandonEvaluation` and `DropEvaluation` are the ends of `evaluate`, with memory
running out in the last two. Callbacks do not call the session, as their contract
says. A callback that takes the runtime away stops the case, and the final state is
not captured.

`Store` is the event store of a case, charged to the budget of the whole run. A
frame records its start, its work and its end; `truth` remembers what it had to
record and `lost` whether something was refused. `CaseTotals` and `TotalsComplete`
are `world_totals`. Sizes are in units, one for each retained record, grant or
entry, since only sums and limits of them matter.

*Left out.* UTF-8, logical byte sizes, the contents of traces beyond what the
totals count, and calls that only read.

### FeedbackChannel and InMemoryAdapter

A call of the channel is one step (a mutex guards it). Senders keep the channel
they were made for; `epoch` tells channels apart and `Reconnect` is a receiver that
is assigned that of a new channel. `seen` is what the runtime has received and
`closedOn` what no channel will deliver any more.

`pendingReports` and `pendingObservations` are the multimaps of the adapter,
ordered by due time and arrival. `Dispatch` has the order of the code: reused id,
cached outcome, full cache, crash, silence, time, room, revision, execution.
`deliver_through` is a step per send (`DeliverReport`, `DeliverObservation`),
because the receiver may be on another thread. `Issue` and `Retry` are what the
runtime asks of the adapter; when it does so is in `RuntimeEffects`, which allows of
any adapter what this one does. `Confuse` is a host that drives the adapter itself and
gives the id of a command with an outcome to another one.

*Left out.* More than one target: targets share only the limit on pending reports.

## Runs

| Run | Instance | Shows |
| --- | --- | --- |
| `effects_restart` | one target, two values, two commands, a retry, a timeout, a restart at every point, an adapter that is not idempotent and may report `Indeterminate` | `TypeOK`, `ActiveIsLatest`, `RestoreIsFaithful`, `WriteAhead`, `NoBlindRedispatch`, `AttemptsAreFresh` |
| `effects_capacity` | two targets on one route, two retained of three commands, a stage of one report | `WithinCapacity` |
| `effects_immediate` | one target, immediate timing, two device states, one command with a retry and a timeout, a restart with an earlier clock | `ObservedIsReal`, `ObservedAdvances`, `PendingSettles` |
| `dispatcher_volatile` | three threads, two keys, one slot, memory for one outcome, no persistent cache | `ReexecutedOnlyIfForgotten`, `DuplicatesReturn` |
| `dispatcher_durable` | two threads, three commands of which two share a key, two slots, persistent cache, a restart or `clear_memory` | `Consistent`, `AnswersAgree`, `StoredIsNotReexecuted` |
| `event_store` | two bodies of one key, batches of up to two records, four records before retention and recovery add theirs, two stops or power losses, headers of garbage | `Consistent`, `FlushedSurvives`, `RetentionKeepsProjection`, `RefusesOnlyUnflushed`, `IsEventStore` |
| `intents` | two behaviors, one component, two slots of three generations, four creations, a buffer of three records | `Consistent`, `RecordsTellTheTruth`, `SelectsNewestOfHighest`, `IsIntentStore` |
| `world` | two behaviors and two components of one type, two generations of each slot, one system, two intents, four access revisions, buffers full at any moment, one change without evidence | `IntentsAuthorised`, `MembershipFollowsAccess`, `LifeIsRecorded`, `HandlesAreFresh` |
| `lua_scripts` | one behavior (so that the cache is never pruned) and one component with two generations, two worlds, three access revisions, scripts that are edited, doubled and hidden, 284 schemas and 404 values | `CapabilitiesAreGranted`, `SchemasAreSound`, `StartsOnce`, `NoChangeMissed` |
| `authoring` | one scope of two revisions, one proposal, one evaluation, suites of up to two cases or two frames, budgets that run out | `PayloadIsSum`, `EvaluatedAsProposed`, `PassedMeansEverything`, `TotalsAreTrue` |
| `adapter_feedback` | one target, two dispatches, two device revisions, two pending items, a channel of one place, two channels, a silent device, a reused id | `EveryChangeIsReported`, `EvidenceAgrees`, `ExecutedOnce`, `DueIsDelivered` |
| `lua_late_binding` | violated | `CapabilitiesAreCurrent`: see findings |

Some invariants join parts that belong together, each defined by name in its
module. `WithinCapacity`: retention is bounded, and staged reports find their
command. `Consistent` of the dispatcher: types, one leader per key, bounded
caches, waiters find the outcome, no lost wakeup. `Consistent` of the event
store: types, and memory matches the file. `Consistent` of the intent registry:
types, indexes agree, slots are conserved.

*Why the bounds suffice.* The outbox keeps its state per target and per command,
and its targets meet only in the command ids, the capacity and the stage: two
targets and one command more than fit reach every way in which they do. Two
values are enough to tell the desired from another one. One restart reaches every
crash point and lets the restored runtime run on; a crash of a restored runtime is
left to the proofs, which bound nothing. One command that its adapter loses track of
is enough, since only the newest and one older command of a target can meet. A retry and a timeout need a clock of three instants; the runs that do
not ask about time keep it shorter. In the dispatcher a leader, a duplicate
and a thread of another key that evicts the outcome or waits for the slot are all
the roles there are; capacities of one put every bound at its limit.
In the event store, four records make three batches, so
that a batch before, inside and behind a damaged region can differ, with a
checkpoint and something before and after it; two stops reach a power loss during
recovery from another. In the intent registry, two slots put a bundle
beside an intent of another owner, three generations use a slot twice again and
then retire it, and a buffer of three records fills up inside a bundle. In the
world, four revisions create two behaviors and change access twice, or one behavior
and change it three times, so that a behavior keeps one component when it loses
another and the two behaviors meet in the systems; a removal that takes access from
two behaviors at once needs six and is left to the proofs. One change without
evidence is enough, since the keys do not meet.
For scripts, one behavior is enough for the lifecycle, whose state is per behavior.
Behaviors meet only in the cache of capabilities, which a second world empties and one
entry fills; that a full cache is pruned for another behavior is not reached. Two generations of a component, three
revisions and two texts of a script reach a slot used again under a cached
description and a script edited there and back. Exposing a described type depends
on nothing but the runner's limits and a runner that has not started, so it is
tried in the first states only (`FreshWorld`); the schemas are of all kinds, nested
up to the ceiling of three, with values at and past every bound. In the authoring
session every limit is one or two, so that each refusal happens; two cases or two
frames tell the end of one from the end of all; the record budget of eight ends at
any point of the second case or frame, and two whole cases do not fit, so that only
suites of one case pass in the run. In the adapter, two pending items and one
place in the channel make both full, and two dispatches are a command and its
retry or a second command.
`EffectsRestart` uses the symmetry of the values,
`DispatcherDurable` that of the threads, `Intents` that of the owners and
`WorldCalls` that of the names; none of them checks liveness.

The dispatcher's calls are bounded, so its threads may all be idle at the end:
deadlock is not checked there, nor for the event store, whose records and stops
are bounded and which may refuse to open. The scripts end in a faulted runtime,
and the session and the adapter when ids, time and dispatches are used up; these
runs do not check it either. All other passing runs do.

`ActiveIsLatest` excepts the commands an adapter has itself reported as
`Indeterminate` (`Disowned`): a late report of that status makes a timed-out command
active behind a newer one, where `reconcile_indeterminate` does not reach it.
`IntentsAuthorised`, `MembershipFollowsAccess` and `LifeIsRecorded` except what a full
buffer left (`stranded`, `unrecorded`), and nothing else; `RefusesOnlyUnflushed` names
the garbage header of an unflushed batch as a third reason to refuse a file.
`SchemasAreSound` says that a value the schema admits can be shown, and proposed back
if and only if the budget holds it twice. `ObservedIsReal` is checked where the host does not
reconcile, since a reconciliation makes up its revision.

## Fairness

`PendingSettles` assumes that a started call of the runtime runs to its end, the
host keeps running frames, an adapter's `dispatch` returns, the host's clock
advances from some frame to the next (strong fairness: between frames the clock
may stand still, but not forever), and the host registers its adapters after a
restart. All of this is what the loop of a host does; nothing is assumed of
devices, reports or observations. The property's premise, that frames keep
completing, excludes senders that refill the channel as fast as
`process_feedback` drains it and a runtime that stays faulted. `DuplicatesReturn`
assumes of every thread inside `dispatch` that it runs on and that adapter and
persistent cache return; nothing is assumed of callers, and faults are never
forced. `DueIsDelivered` has two parts. That a call of `deliver_through` leaves a due
item behind only when the channel is full, or when it is an observation behind a
report that is not due yet, is said of every call and needs no fairness
(`LeavesOnlyBlocked`). As long as commands with a latency keep coming, observations
may thus wait for ever; the second part says that otherwise, if dispatches and
observations do not come for ever, nothing stays pending. It assumes that time passes, that a started `deliver_through`
runs on, that the host calls it again while something is pending, and that the
runtime drains the channel, as `process_feedback` does in every frame; this is
the loop of the simulation programs. Nothing is assumed of shutdown or
reconnection.

## Findings

`lua_late_binding`: `capabilities_for` uses a cached description whenever the
access revision is the same. `capability_manifest` fills the cache before it takes
snapshots, and freezes the registration of types only when it succeeds. If a
snapshot throws, the host may expose another type, and the cached description
lacks it: scripts of that behavior do not get the components of the new type
until their access changes or the entry is evicted. The comment at the cache calls
it acceleration data that never changes permissions. No permission is gained
(`CapabilitiesAreGranted` holds), and a host that exposes all types before it
captures a manifest never meets it.

Three places where the documents say more than the code, found while modelling
the outbox and the event store; no run states them:

* `restore` rebuilds commands without their `terminalReport`
  (`src/src/runtime/RuntimeEffectsRestore.cpp:194`). After a restart the first
  report that arrives is taken even when it contradicts the outcome on the log,
  and an applied command becomes failed. `docs/ADAPTER_CONTRACT.md:46` calls
  conflicting duplicates invalid evidence, and the same runtime rejects them before
  a restart.
* A report of an indeterminate command settles it and unblocks its target
  (`src/src/runtime/RuntimeEffectsFeedback.cpp:40`), while
  `docs/ADAPTER_CONTRACT.md:50` says that it stays blocked until the host
  reconciles.
* A new event file is flushed but its directory is not
  (`src/src/events/FileEventStore.cpp:54`). On a filesystem that keeps names and
  files apart, a power loss takes the file with its durable records;
  `docs/EVENT_FORMAT_V1.md:31` promises that evidence is synchronized before a
  dispatch. `event_store` assumes `NameWithFile`; without it `FlushedSurvives` is
  violated.

## Proofs

All proofs hold for any number of targets, routes, threads, keys, owners, systems and
values, and for any capacities, policies and bounds that satisfy the named
assumptions of the modules:

| Module | Assumptions |
| --- | --- |
| `RuntimeEffects` | values differ from the markers (`ValueAssumption`), every target has a route (`RouteAssumption`), the retry policy is what `RetryPolicy::validate` accepts and capacities are positive (`PolicyAssumption`), bounds are natural (`BoundAssumption`) |
| `IdempotentDispatcher` | every command has a key (`KeyAssumption`), the marker `None` is no command and no outcome (`NoneAssumption`), limits are positive (`CapacityAssumption`) |
| `Replay` | the marker of an error is not the projection of no records (`FailAssumption`) |
| `FileEventStore` | a batch holds at least one record, bounds are natural (`BoundAssumption`) |
| `IntentRegistry` | positive numbers of slots and generations, priorities and expirations are numbers, the markers are no instant and no name (`RegistryAssumption`) |
| `World` | positive numbers of slots and generations (`WorldAssumption`) |
| `InMemoryAdapter` | native idempotency comes with an outcome cache, every value has a normal form (`AdapterAssumption`), latencies and duplicates are natural and outcomes are statuses (`BehaviorAssumption`) |
| `Evaluation` | the work of a frame is a list of records other than those that start and end a frame (`WorkAssumption`) |
| `AuthoringSession` | no limit is zero, as `valid_limits` has it (`AuthoringAssumption`); texts and values have sizes, grants and suites are lists, every component has a value that can be read (`InputAssumption`) |

**The outbox.**

* `TypeCorrect` (`Spec => []TypeOK`). `TypeOK` is not inductive: between issuing
  and dispatching, the command being dispatched must still be retained
  (`CurrentIsRetained`), and retries start only after everything is issued
  (`CursorAfterIssuing`). The pruning needs that a least number of entries to
  pop exists (`PoppedType`).
* `RestoreFaithful` (`Spec => []RestoreIsFaithful`). The invariant says that
  live and rebuilt outbox agree on every retained command up to the retry that is
  about to be recorded, that what is on the log and not retained is settled, that
  ids on the log are below `nextCommand`, that the mirror agrees, and that
  `latestByTarget` is the newest command on the log unless it was pruned
  (`RecoveryInv`). `Agree...` lemmas say how a status change, a pruning and a new
  command keep the two sides together; `Restart` re-establishes it from any prefix.
* `WriteAheadHolds` (`Spec => []WriteAhead`). Strengthened to every element of
  the journal, since a crash may make any of them the flushed one, and to "when
  the adapter is about to be called, nothing is unflushed" (`FlushedAtCall`).
* `AttemptsFresh` (`Spec => AttemptsAreFresh`). Follows from write-ahead: the
  attempt to be recorded is above any recorded one (`AttemptIsNew`).
* `ObservationAdvances` (`Spec => ObservedAdvances`). Every way to an observed value
  goes through `CommitAuthoritative`, behind a comparison of revisions.
* `RedispatchIsNeverBlind` (`Spec => []NoBlindRedispatch`). `RedispatchInv` adds that
  once a route is registered again, what an earlier runtime delivered to an adapter
  without native idempotency is not pending (`NotResumed`), and that what is about to
  be dispatched is pending and its route registered.
* `OnlyLatestIsActive` (`Spec => []ActiveIsLatest`). `ActiveInv` says it of the live
  outbox and of every element of the journal, for adapters that report anything. The
  exception for commands that an adapter disowned is needed: a late report of
  `Indeterminate` revives a timed-out command (`EffectTypes.cpp:130`,
  `RuntimeEffectsFeedback.cpp:9`) behind a newer one. What an adapter has said stays
  said, so the exception never grows by itself.
* `CapacityHolds` (`Spec => []WithinCapacity`). `RetentionInv`: the settled commands
  are listed once in `terminalOrder`, and in every element of the journal those that
  are not settled fit. `StagedInv`: a staged report belongs to a command in hand, so
  that neither pruning nor a newer command drops it before it is received.
* `ObservationsAreReal` (`[]ObservedIsReal` where the host never reconciles, since a
  reconciliation makes up its revision). `RealInv` carries it through every element
  of the journal and backs every piece of evidence by a delivery and the history of
  the device.

**The dispatcher.** One invariant, `IInv`, gives four theorems: `ConsistentAlways`,
`Reexecution`, `Agreement` and `NoStoredReexecution`. `Structure` ties every leader to
its own entry in flight, every sleeping thread to what will wake it, and the recency
list to the map of outcomes. `Counted` strengthens `ReexecutedOnlyIfForgotten` by the
keys of which nothing is known and by the leaders that have still to call. `Stored` and
`Agreed` say that whatever can still be answered is what is stored, and that a leader
calls only for a key that is not.

**The event store.** `Inv` says of the file, and of every file in `displaced`, that it
is `Sound`: its batches up to the first damaged one are adjacent pieces of `lineage`,
cut at increasing places (`Laid`), the first piece starts at record one or at a
checkpoint that replay accepted (`GoodStart`), the promised records are in its synced
part, and a damaged batch before a whole one means that several batches were exposed;
a garbled one was not on stable storage, so it too means that one was.
The last cut of `file` is the end of `lineage`; that of a displaced file may be
earlier, which is why `Sound` names the place it reaches. `Holding` adds that a store
in use has a readable file and that a replacement is flushed before its directory is.
What recursive functions compute is proved by a least counterexample: `FlattenPieces`
(the scan returns the piece of the log between the first and the last cut) and
`ReplaysAgree` with `ProjectFrom` (replay from an accepted checkpoint on ends as replay
of everything).

* `StoreConsistent`, `RetentionKeeps`: for any disk.
* `FlushedRecordsSurvive`, `RefusesOnly`, `FileStoreIsEventStore`: under the hypothesis
  `NameWithFile`. It is needed: the code does not flush the directory of a new file, and
  without it TLC finds a power loss that takes a new file with its flushed records (see
  Findings). The refinement maps recoveries, retentions and appends to `Extend`, flushes
  to `Promise`, a power loss to `Lose`, and all else to no step.

**The intent registry.** `Inv` has three parts. `RegistryInv`: slots and indexes are
sound, and no handle that was seen can be given out again (`Fresh`). `RecordInv`: the
lifecycle records describe the intents also in the middle of a transaction.
`TransactionInv`: the copy that the transaction holds is one of a sound registry, the
records up to the saved count describe it, and what was done can be undone
(`Undoable`), from which `RestoreRecords` is what the storages were
(`RestoredIsBefore`).

* `AlwaysConsistent`, `RecordsAlwaysTrue`: the invariant is stronger.
* `ImplementsStore` (`Spec => IsIntentStore`): a destruction is a `Drop`, a creation an
  `Add`, a commit a `Bundle` of the transaction's owner, everything else stutters;
  a name is unique because the index by name holds one handle for it.
* `AlwaysSelectsNewestOfHighest`: sequence numbers are given once (`Sequenced`), so the
  comparison of `select()` is a total order, and a round of its loop that loses the
  best would be the first one to do so. That the recursive function has a value is
  shown in the same way (`ScanExists`).

**The world.** `AccessesInv`: handles are fresh, an access is one of a live behavior to
a component that exists, a behavior that is being created, undone or destroyed has
none, and intents are authorised or stranded. It gives `IntentsAlwaysAuthorised` and
`FreshHandles`. `RecordInv` follows the evidence through an operation that a
callback interrupts, and excepts the keys in `unrecorded` (`LifeAlwaysRecorded`).
`SignatureInv` and `MembershipInv` say that
signatures are exact at all times, and that memberships are those of the signatures
but for the changes still to make (`MembershipAlwaysFollows`).

**The adapter.** `TypeInv /\ Reported` gives `ChangesAreReported` and
`EvidenceIsConsistent`: the channel holds no more than its capacity, a cached answer
repeats only what was told, and every revision has its evidence somewhere. `OnceInv`
gives `NoSecondExecution`: with native idempotency, a command that changed the device
is in the outcome cache, which never drops one. `NothingDueIsForgotten` is the part of
`DueIsDelivered` about a single call: a call that has come to the observations has no
report pending (`CallInv`).

**The session.** `Inv` has four parts. `SessionInv`: ids in use are below their
counters, a proposal names the scope it was submitted under and, as long as that scope
has the revision of the proposal, its targets (`Follows`); a revision only grows and a
revoked id is never given again, which is why a scope that is current for a proposal
still has the proposal's targets. `Kept` and `Running` say of the kept entries and of
the run that their targets are those of a retained proposal. `RunInv` is the induction
over a run: until it is done, its status is Passed, every case before the current one
passed, in the current one every frame before the current one passed, and each phase
adds what is known of the current frame (in `observe` what happened in it, in `expect`
its summary); the bytes that were charged are those of the trace, within the budget.
`PayloadIsSum` is inductive next to these. Sums over finite functions are recursive, so
what they are is proved once (`SumIs`, by minimal counterexample over subsets), and the
calls use `SumAdded`, `SumRemoved` and `SumReplaced`.

* `PayloadAlwaysSum`: a charge never exceeds its reservation, since a kept response is
  bounded (`BoundResponseFacts`) and the trace is within the budget.
* `AlwaysEvaluatedAsProposed`: admission compares the revision, and `Recapture` the
  targets.
* `AlwaysPassedMeansEverything`: one lemma per step of `CaseExecution`; the frame is a
  fold over its records (`FrameStored`), which stores all of them or spends the budget.
* `AlwaysTotalsAreTrue`: needs a second invariant next to `Inv`, of where the frames are
  on the trace. `Layout` says of a case that its frames start at an increasing list of
  positions, one for each entry of `truth`, that each is closed, and that the records up
  to its end are what happened; `LayoutTotals` derives from it that `CaseTotals` counts
  right, and `LayoutStays` and `LayoutGrows` that it survives records of other cases and
  a further frame. `TotalsInv` says that the layout holds for every case as long as no
  record was refused, and that a refused one shows (`Missed`): as a frame that never
  ends, as a frame that was counted and is not on the trace, or as a case that ran out of
  its budget before its first frame. The last is why `world_totals` looks at the status
  too: a case whose first record is refused may stop before a frame starts, and then no
  frame is missing.

*Only model-checked.* Liveness under fairness (`PendingSettles`, `DuplicatesReturn`,
and the second part of `DueIsDelivered`), which is out of the prover's reach. The scripts: `LuaValueSchema`
is recursive over trees, and a module that reaches a recursive operator cannot be
proved about.

## Plan

1. `RuntimeEffects`: done, and all of its safety properties are proved. Left: an
   abstract ledger of commands that it implements.
2. `IdempotentDispatcher`: done and proved.
3. `EventStore`, `Replay` and `FileEventStore`: done and proved. This discharges what
   `RuntimeEffects` assumes of the log. Left: the session lock and two processes.
4. `FeedbackChannel` and `InMemoryAdapter`: done and proved.
5. `IntentRegistry` and `World`: done and proved.
6. `LuaLifecycleSystem` and `AuthoringSession`: modelled, the session
   proved. Left: the schemas of scripts, which are recursive.
7. Bindings and projection (`authoritativeByTarget`, `RuntimeEvidence.cpp`).

## Not modelled

Value encoding, text formats and digests are data conversion without state.
The Lua interpreter itself is external: its counters and errors appear as ways in
which a script ends. The command line programs, the visualizer, the sensor node's
signal processing and the host scripts are outside the runtime's own logic. The
bindings of components to targets and the projection of feedback into components
(`RuntimeEvidence.cpp`) have no module yet: `RuntimeEffects` lets any desires
appear and vanish in their place. The session lock of the event store is left out,
one process at a time being assumed.
