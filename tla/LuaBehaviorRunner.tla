------------------------- MODULE LuaBehaviorRunner -------------------------
(***************************************************************************)
(* The runner of Lua scripts: which component types scripts may use, the   *)
(* cache of what each behavior may do, and the execution of one script,    *)
(* from the capabilities it is given to the commit of what it asked for.   *)
(*                                                                         *)
(* An execution is one step: it runs on the owner thread, and nothing the  *)
(* script can reach changes under it. A script is the requests it makes    *)
(* until it ends or fails. The environment has no pcall, so the first      *)
(* request that is refused, the first limit passed and the first error end *)
(* the script, and their status is the result.                             *)
(*                                                                         *)
(* The world is what the runner asks of it; World and IntentRegistry have  *)
(* the rest. A world can be replaced by a new one, which hands out the     *)
(* same behavior ids and revisions again while the runner lives on.        *)
(***************************************************************************)
EXTENDS LuaValueSchema

CONSTANTS
  Behaviors,             \* behavior ids; a world never uses one twice
  Types, Components,     \* component types and components by name
  DescribedTypes,        \* types exposed with metadata
  TypeOf,                \* the type of a component
  Values, BadValues,     \* a bad value: encode throws, or it passes a limit
  IntentNames, Unnamed,
  ScriptFailures,        \* ways in which a script can fail by itself
  InitialBindings,       \* types exposed at the start
  Schemas, LuaValues,    \* of described bindings
  MaximumCachedCapabilityEntries,
  MaxCreatedIntents, MaxCancelledIntents, MaxWatches,
  MaxBehaviours, MaxIntents,   \* live in the world at once
  MaxScriptEvidence,     \* maximumBufferedScriptExecutions
  MaxRevision, MaxSlot, MaxInstance   \* bounds of the model

ASSUME LuaAssumption ==
  /\ TypeOf \in [Components -> Types]
  /\ BadValues \subseteq Values
  /\ DescribedTypes \subseteq Types
  /\ Unnamed \notin IntentNames
  /\ InitialBindings \subseteq Types
  /\ MaximumCachedCapabilityEntries \in Nat \ {0}

VARIABLES
  \* the world
  instance, active, used, accessRevisions, lastAccessRevision,
  slots, values, access, intents, scriptEvidence,
  \* the runner
  bindings, started, cache, cachedWorld,
  \* the execution or the registration the last step made, if it made one
  lastRun

worldVars == <<instance, active, used, accessRevisions, lastAccessRevision, slots,
               values, access, intents, scriptEvidence>>
runnerVars == <<bindings, started, cache, cachedWorld>>

Modes == {"Read", "Write", "ReadWrite"}

\* Stands for the value of a component that does not exist.
AnyValue == CHOOSE v \in Values \ BadValues : TRUE

Readable(b, c) == slots[c].live /\ access[b][c] \in {"Read", "ReadWrite"}
Writable(b, c) == slots[c].live /\ access[b][c] \in {"Write", "ReadWrite"}

--------------------------------------------------------------------------------
(* Capabilities *)

\* Binding::describe for each of the bindings in types.
Describe(b, types) ==
  {[component |-> c, slot |-> slots[c].generation, readable |-> Readable(b, c), writable |-> Writable(b, c)] :
     c \in {x \in Components : TypeOf[x] \in types /\ (Readable(b, x) \/ Writable(b, x))}}

CacheOfWorld == IF cachedWorld = instance THEN cache ELSE <<>>

Key(b) == <<instance, b>>

\* prune_cache: entries of behaviors that are gone, then everything.
Prune(entries) ==
  LET alive == Restrict(entries, {k \in DOMAIN entries : k[2] \in active})
  IN  IF Cardinality(DOMAIN alive) >= MaximumCachedCapabilityEntries THEN <<>> ELSE alive

\* Mutant of CacheHit: a kept entry is good, whatever its revision.
CacheHitAny(b) == Key(b) \in DOMAIN CacheOfWorld

CacheHit(b) ==
  /\ Key(b) \in DOMAIN CacheOfWorld
  /\ CacheOfWorld[Key(b)].revision = accessRevisions[b]

\* The cache after capabilities_for(b).
CacheWith(b) ==
  LET kept == IF Key(b) \notin DOMAIN CacheOfWorld
                 /\ Cardinality(DOMAIN CacheOfWorld) >= MaximumCachedCapabilityEntries
              THEN Prune(CacheOfWorld) ELSE CacheOfWorld
      refreshed == [revision |-> accessRevisions[b], descriptions |-> Describe(b, bindings)]
  IN  IF CacheHit(b) THEN CacheOfWorld ELSE (Key(b) :> refreshed) @@ kept

CapabilitiesFor(b) == CacheWith(b)[Key(b)].descriptions

CapabilitiesAsked(b) ==
  /\ cache' = CacheWith(b)
  /\ cachedWorld' = instance

ReadableIn(capabilities) == {k.component : k \in {x \in capabilities : x.readable}}
WritableIn(capabilities) == {k.component : k \in {x \in capabilities : x.writable}}

\* LuaBehaviorRunner::snapshot finds a value; it throws if the value is bad.
HasSnapshot(b, c) ==
  b \in active /\ TypeOf[c] \in bindings /\ c \in ReadableIn(CapabilitiesFor(b))

\* The value taken for c: by name, from the component that has the name now.
Snapshot(c) == values[c]

--------------------------------------------------------------------------------
(* Bindings and manifests *)

\* register_binding: one binding for a type, and none once a script has run.
RegisterBinding(t) ==
  /\ ~started
  /\ t \notin bindings
  /\ bindings' = bindings \union {t}
  /\ UNCHANGED <<worldVars, started, cache, cachedWorld>>

NoSchema == [kind |-> "None"]

NoRun == [owner |-> Unnamed, status |-> "None", start |-> FALSE,
          changes |-> {}, capabilities |-> {}, schema |-> NoSchema]

\* expose_component with metadata, for a type without components: the factories
\* and the limits of the runner decide.
ExposeDescribed(s) ==
  /\ ~started
  /\ WellFormed(s)
  /\ lastRun' = [NoRun EXCEPT !.schema = s,
                             !.status = IF SchemaFits(s) THEN "Registered" ELSE "Rejected"]
  /\ UNCHANGED <<worldVars, runnerVars>>

\* capability_manifest: a capture that succeeds freezes the bindings; one that
\* fails on a snapshot does not, but it has asked for the capabilities. Only
\* described types are captured.
CapabilityManifest(b) ==
  /\ b \in active
  /\ CapabilitiesAsked(b)
  /\ LET shown == {c \in ReadableIn(CapabilitiesFor(b)) : TypeOf[c] \in DescribedTypes}
     IN  started' = (started \/ \A c \in shown : Snapshot(c) \notin BadValues)
  /\ UNCHANGED <<worldVars, bindings>>

--------------------------------------------------------------------------------
(* One execution *)

OwnedBy(b) == {i \in intents : i.owner = b /\ i.name # Unnamed}

Quiet == [proposals |-> <<>>, cancellations |-> {}, watches |-> {}, failure |-> "None"]

\* A script that fails by itself: a request that validate_request_fields or a
\* reader refuses, an error that it raises, its instructions or its memory.
Failing(f) == [Quiet EXCEPT !.failure = f]

\* The source, or the time, is refused before the capabilities are asked for.
EarlyFailures == {"SourceLimitExceeded"}

\* The run of r for b gets as far as the capabilities.
GetsCapabilities(b, r) == b \in active /\ r.failure \notin EarlyFailures

\* What a script of b can ask for. Only a writable capability has a propose
\* function, every capability can be watched, and a script can name the intents
\* that its owner had when the environment was built. Without a lifecycle, a name
\* can be left out, and watch and cancel fail.
Requests(b, lifecycle) ==
  LET capabilities == CapabilitiesFor(b)
      names == IntentNames \union IF lifecycle THEN {} ELSE {Unnamed}
      proposals == BoundedSeq([component : WritableIn(capabilities), name : names],
                              MaxCreatedIntents + 1)
  IN  [proposals : proposals,
       cancellations : IF lifecycle THEN SUBSET OwnedBy(b) ELSE {{}},
       watches : IF lifecycle THEN SUBSET {k.component : k \in capabilities} ELSE {{}},
       failure : {"None"}]
      \union {Failing(f) : f \in ScriptFailures \union EarlyFailures}

\* append_proposal, cancel_callback and watch_callback keep what a script asks
\* for within the limits.
ProposalStatus(r) ==
  IF Len(r.proposals) > MaxCreatedIntents THEN "IntentLimitExceeded" ELSE "Success"
CancelStatus(r) ==
  IF Cardinality(r.cancellations) > MaxCancelledIntents
  THEN "IntentLimitExceeded" ELSE "Success"
WatchStatus(r) ==
  IF Cardinality(r.watches) > MaxWatches THEN "RuntimeError" ELSE "Success"

\* lua_error_result: the status of what ended the script, if anything did.
ScriptStatus(r) ==
  CASE r.failure # "None" -> r.failure
    [] ProposalStatus(r) # "Success" -> ProposalStatus(r)
    [] CancelStatus(r) # "Success" -> CancelStatus(r)
    [] OTHER -> WatchStatus(r)

\* The checks before the transaction begins: the names of the proposals are
\* different, and free unless the intent that has the name is cancelled.
NamesFit(b, r) ==
  /\ \A i, j \in DOMAIN r.proposals :
       r.proposals[i].name = r.proposals[j].name /\ i # j => r.proposals[i].name = Unnamed
  /\ \A i \in DOMAIN r.proposals, held \in OwnedBy(b) \ r.cancellations :
       r.proposals[i].name # held.name

FreeIds(held) == (1..MaxIntents) \ {i.id : i \in held}

\* The intents of a world in which the cancellations are done and the proposals
\* are created, one by one; the slot is looked up again by name.
Committed(b, r) ==
  LET kept == intents \ r.cancellations
      ids == SetToSortSeq(FreeIds(kept), <)
  IN  kept \union {[id |-> ids[i], owner |-> b, name |-> r.proposals[i].name,
                    component |-> r.proposals[i].component,
                    slot |-> slots[r.proposals[i].component].generation] : i \in DOMAIN r.proposals}

\* Each validate finds the access, and the world has room; else a rollback.
Commits(b, r) ==
  /\ NamesFit(b, r)
  /\ \A i \in DOMAIN r.proposals : Writable(b, r.proposals[i].component)
  /\ Len(r.proposals) <= Cardinality(FreeIds(intents \ r.cancellations))

\* The status of Impl::run for b asking for r.
Outcome(b, r) ==
  IF b \notin active THEN "InvalidBehavior"
  ELSE IF r.failure \in EarlyFailures THEN r.failure
  ELSE IF \E c \in ReadableIn(CapabilitiesFor(b)) : Snapshot(c) \in BadValues THEN "HostError"
  ELSE IF ScriptStatus(r) # "Success" THEN ScriptStatus(r)
  ELSE IF Commits(b, r) THEN "Success" ELSE "CommitFailed"

\* Impl::run: the runner is started whatever comes of it, and only a success
\* changes the intents.
Run(b, r) ==
  /\ started' = TRUE
  /\ IF GetsCapabilities(b, r) THEN CapabilitiesAsked(b) ELSE UNCHANGED <<cache, cachedWorld>>
  /\ intents' = IF Outcome(b, r) = "Success" THEN Committed(b, r) ELSE intents
  /\ UNCHANGED <<bindings, instance, active, used, accessRevisions, lastAccessRevision,
                 slots, values, access>>

EvidenceFits == scriptEvidence < MaxScriptEvidence

\* record_execution_evidence, after the commit: it throws when the buffer is full.
RecordEvidence == scriptEvidence' = IF EvidenceFits THEN scriptEvidence + 1 ELSE scriptEvidence

RunOf(b, r, start, changes) ==
  [owner |-> b, status |-> Outcome(b, r), start |-> start,
   changes |-> changes, schema |-> NoSchema,
   capabilities |-> IF GetsCapabilities(b, r) THEN CapabilitiesFor(b) ELSE {}]

\* execute, called by the host between frames for any behavior id.
Execute(b) ==
  /\ \E r \in IF b \in active THEN Requests(b, FALSE) ELSE {Quiet} :
       /\ Run(b, r)
       /\ lastRun' = RunOf(b, r, FALSE, {})
  /\ RecordEvidence

--------------------------------------------------------------------------------
(* The world between frames, as World has it *)

ReplaceWorld ==
  /\ instance < MaxInstance
  /\ instance' = instance + 1
  /\ active' = {} /\ used' = {} /\ accessRevisions' = <<>> /\ lastAccessRevision' = 0
  /\ slots' = [c \in Components |-> [live |-> FALSE, generation |-> 0]]
  /\ values' = [c \in Components |-> AnyValue]
  /\ access' = [b \in Behaviors |-> [c \in Components |-> "None"]]
  /\ intents' = {} /\ scriptEvidence' = 0
  /\ UNCHANGED <<runnerVars>>

CreateBehavior(b) ==
  /\ b \notin used
  /\ Cardinality(active) < MaxBehaviours
  /\ lastAccessRevision < MaxRevision
  /\ active' = active \union {b} /\ used' = used \union {b}
  /\ lastAccessRevision' = lastAccessRevision + 1
  /\ accessRevisions' = (b :> lastAccessRevision + 1) @@ accessRevisions
  /\ UNCHANGED <<instance, slots, values, access, intents, scriptEvidence, runnerVars>>

DestroyBehavior(b) ==
  /\ b \in active
  /\ active' = active \ {b}
  /\ accessRevisions' = Restrict(accessRevisions, active \ {b})
  /\ access' = [access EXCEPT ![b] = [c \in Components |-> "None"]]
  /\ intents' = {i \in intents : i.owner # b}
  /\ UNCHANGED <<instance, used, lastAccessRevision, slots, values, scriptEvidence,
                 runnerVars>>

\* A slot that is used again has another generation.
AddComponent(c, v) ==
  /\ ~slots[c].live
  /\ slots[c].generation < MaxSlot
  /\ slots' = [slots EXCEPT ![c] = [live |-> TRUE, generation |-> @.generation + 1]]
  /\ values' = [values EXCEPT ![c] = v]
  /\ UNCHANGED <<instance, active, used, accessRevisions, lastAccessRevision, access,
                 intents, scriptEvidence, runnerVars>>

\* The access of b changes: the revision is a new one.
Revise(b) ==
  /\ lastAccessRevision < MaxRevision
  /\ lastAccessRevision' = lastAccessRevision + 1
  /\ accessRevisions' = [accessRevisions EXCEPT ![b] = lastAccessRevision + 1]

\* At most one behavior has access when a component goes, to keep the step small.
RemoveComponent(c) ==
  /\ slots[c].live
  /\ LET losing == {b \in active : access[b][c] # "None"}
     IN  /\ Cardinality(losing) <= 1
         /\ IF losing = {} THEN UNCHANGED <<lastAccessRevision, accessRevisions>>
            ELSE \E b \in losing : Revise(b)
  /\ slots' = [slots EXCEPT ![c].live = FALSE]
  /\ access' = [b \in Behaviors |-> [access[b] EXCEPT ![c] = "None"]]
  /\ intents' = {i \in intents : i.component # c}
  /\ values' = [values EXCEPT ![c] = AnyValue]
  /\ UNCHANGED <<instance, active, used, scriptEvidence, runnerVars>>

GrantAccess(b, c, mode) ==
  /\ b \in active /\ slots[c].live
  /\ access[b][c] # mode
  /\ Revise(b)
  /\ access' = [access EXCEPT ![b][c] = mode]
  /\ intents' = IF mode = "Read"
                THEN {i \in intents : ~(i.owner = b /\ i.component = c)} ELSE intents
  /\ UNCHANGED <<instance, active, used, slots, values, scriptEvidence, runnerVars>>

RevokeAccess(b, c) ==
  /\ b \in active /\ slots[c].live
  /\ access[b][c] # "None"
  /\ Revise(b)
  /\ access' = [access EXCEPT ![b][c] = "None"]
  /\ intents' = {i \in intents : ~(i.owner = b /\ i.component = c)}
  /\ UNCHANGED <<instance, active, used, slots, values, scriptEvidence, runnerVars>>

\* A resolution, an observation or the host gives a component a value.
SetValue(c, v) ==
  /\ slots[c].live
  /\ values' = [values EXCEPT ![c] = v]
  /\ UNCHANGED <<instance, active, used, accessRevisions, lastAccessRevision, slots,
                 access, intents, scriptEvidence, runnerVars>>

\* An intent expires or the host destroys it.
DestroyIntent(i) ==
  /\ intents' = intents \ {i}
  /\ UNCHANGED <<instance, active, used, accessRevisions, lastAccessRevision, slots,
                 values, access, scriptEvidence, runnerVars>>

RunnerInit ==
  /\ instance = 1 /\ active = {} /\ used = {}
  /\ accessRevisions = <<>> /\ lastAccessRevision = 0
  /\ slots = [c \in Components |-> [live |-> FALSE, generation |-> 0]]
  /\ values = [c \in Components |-> AnyValue]
  /\ access = [b \in Behaviors |-> [c \in Components |-> "None"]]
  /\ intents = {} /\ scriptEvidence = 0
  /\ bindings = InitialBindings /\ started = FALSE
  /\ cache = <<>> /\ cachedWorld = 0
  /\ lastRun = NoRun

WorldStep ==
  \/ ReplaceWorld
  \/ \E b \in Behaviors : CreateBehavior(b) \/ DestroyBehavior(b)
  \/ \E c \in Components :
       \/ RemoveComponent(c)
       \/ \E v \in Values : AddComponent(c, v) \/ SetValue(c, v)
       \/ \E b \in active :
            \/ \E mode \in Modes : GrantAccess(b, c, mode)
            \/ RevokeAccess(b, c)
  \/ \E i \in intents : DestroyIntent(i)
============================================================================
