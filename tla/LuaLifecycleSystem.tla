------------------------- MODULE LuaLifecycleSystem ------------------------
(***************************************************************************)
(* The system that runs the lifecycle scripts of behaviors, a frame at a   *)
(* time: it selects the script of each member, compares the watched        *)
(* components with what the script last saw, has the runner execute the    *)
(* bundle of callbacks, and remembers the outcome.                         *)
(*                                                                         *)
(* Frame numbers and times are left out: delta_ms is only passed on.       *)
(***************************************************************************)
EXTENDS LuaBehaviorRunner

CONSTANTS
  ScriptNames, NoName,    \* names of script components
  ScriptSets,             \* what script components a behavior can have:
                          \* sets of [name, text, readable]
  MaxScriptSlot           \* bound on the recreations of script components

ASSUME ScriptAssumption == NoName \notin ScriptNames

VARIABLES
  scripts,       \* by behavior: its script components
  scriptName,    \* the fixed name, or NoName: the single readable one
  states,        \* by behavior: BehaviorState
  todo,          \* behaviors still to run in the frame, or NotRunning
  faulted,       \* an exception left a frame
  witness        \* by behavior: what its script saw when it last succeeded

lifecycleVars == <<scripts, scriptName, states, todo, faulted, witness>>
vars == <<worldVars, runnerVars, lastRun, lifecycleVars>>

NotRunning == <<NoName>>
InFrame == todo # NotRunning

\* A faulted runtime runs no frame: the model ends there.
Between == ~InFrame /\ ~faulted

--------------------------------------------------------------------------------
(* Selection of the script *)

NoScript == [name |-> NoName, slot |-> 0, text |-> NoName]

\* read_component of the fixed name, or select_single_readable. State is keyed
\* by the text alone (source and revision) when the name is fixed.
Selected(b) ==
  LET readable == {s \in scripts[b] : s.readable}
      named == {s \in readable : s.name = scriptName}
      fixed == [NoScript EXCEPT !.text = (CHOOSE s \in named : TRUE).text]
      single == CHOOSE s \in readable : TRUE
  IN  CASE scriptName # NoName /\ named # {} -> fixed
        [] scriptName = NoName /\ Cardinality(readable) = 1 ->
             [name |-> single.name, slot |-> single.slot, text |-> single.text]
        [] OTHER -> NoScript

Blank == [script |-> NoScript, started |-> FALSE, watches |-> {}, snapshots |-> <<>>]

--------------------------------------------------------------------------------
(* A frame *)

\* behaviors(): the members, those with access to a script component.
Members == {b \in active : scripts[b] # {}}

BeginFrame ==
  /\ Between
  /\ todo' = SetToSeq(Members)
  /\ lastRun' = NoRun
  /\ UNCHANGED <<worldVars, runnerVars, scripts, scriptName, states, faulted, witness>>

\* The runtime takes the evidence of the scripts at the end of a frame.
EndFrame ==
  /\ todo = <<>>
  /\ todo' = NotRunning
  /\ scriptEvidence' = 0
  /\ lastRun' = NoRun
  /\ UNCHANGED <<instance, active, used, accessRevisions, lastAccessRevision, slots,
                 values, access, intents, runnerVars, scripts, scriptName,
                 states, faulted, witness>>

\* An exception leaves run(): the runtime is faulted and runs no frame again.
Fault ==
  /\ faulted' = TRUE
  /\ todo' = NotRunning

\* A member without a script: it has no state, or a blank one with the failure.
SkipBehavior ==
  /\ InFrame /\ todo # <<>>
  /\ LET b == Head(todo)
     IN  /\ Selected(b) = NoScript
         /\ states' = IF scriptName # NoName
                      THEN Restrict(states, DOMAIN states \ {b})
                      ELSE (b :> Blank) @@ states
         /\ witness' = Restrict(witness, DOMAIN witness \ {b})
  /\ todo' = Tail(todo)
  /\ lastRun' = NoRun
  /\ UNCHANGED <<worldVars, runnerVars, scripts, scriptName, faulted>>

\* Mutant of StateFor: an edited script keeps the state of the old one.
StateForever(b) ==
  IF b \in DOMAIN states /\ states[b].script # NoScript
  THEN [states[b] EXCEPT !.script = Selected(b)]
  ELSE [Blank EXCEPT !.script = Selected(b)]

\* The state of b, blank when the selected script is not the one it is about.
StateFor(b) ==
  IF b \in DOMAIN states /\ states[b].script = Selected(b)
  THEN states[b] ELSE [Blank EXCEPT !.script = Selected(b)]

\* A watched component with a bad value: encode throws through run().
SnapshotThrows(b, watches) ==
  \E c \in watches : HasSnapshot(b, c) /\ Snapshot(c) \in BadValues

Snapshots(b, watches) ==
  [c \in {x \in watches : HasSnapshot(b, x)} |-> Snapshot(c)]

Changes(b, state) ==
  LET changed == {c \in DOMAIN state.snapshots :
                    HasSnapshot(b, c) /\ Snapshot(c) # state.snapshots[c]}
  IN  {[component |-> c, before |-> state.snapshots[c], after |-> Snapshot(c)] : c \in changed}

\* Mutant of Remember: a failed bundle keeps what it was shown.
RememberAlways(b, state, r, status) ==
  [state EXCEPT !.started = @ \/ status = "Success",
                !.watches = IF status = "Success" THEN @ \union r.watches ELSE @,
                !.snapshots = Snapshots(b, state.watches \union r.watches)]

\* Only a success starts the script, adds its watches and takes snapshots.
Remember(b, state, r, status) ==
  LET watches == state.watches \union r.watches
  IN  IF status # "Success" THEN state
      ELSE [state EXCEPT !.started = TRUE, !.watches = watches,
                         !.snapshots = Snapshots(b, watches)]

\* The selected script has succeeded before, and no other was run since.
HasSucceeded(b) == b \in DOMAIN witness /\ witness[b].script = Selected(b)

\* What the script of b has seen and watches, if this run of r succeeds.
Seen(b, r) ==
  [script |-> Selected(b),
   values |-> [c \in {x \in Components : TypeOf[x] \in bindings /\ Readable(b, x)} |-> values[c]],
   watched |-> r.watches \union IF HasSucceeded(b) THEN witness[b].watched ELSE {}]

Witnessed(b, r) ==
  CASE Outcome(b, r) = "Success" -> (b :> Seen(b, r)) @@ witness
    [] HasSucceeded(b) -> witness
    [] OTHER -> Restrict(witness, DOMAIN witness \ {b})

\* The execution of a bundle: the runner's part, the evidence, the state.
RunBehavior ==
  /\ InFrame /\ todo # <<>>
  /\ LET b == Head(todo)
         state == StateFor(b)
     IN  /\ Selected(b) # NoScript
         /\ ~SnapshotThrows(b, state.watches)
         /\ EvidenceFits
         /\ \E r \in Requests(b, TRUE) :
              /\ Run(b, r)
              /\ lastRun' = RunOf(b, r, ~state.started, Changes(b, state))
              /\ states' = (b :> Remember(b, state, r, Outcome(b, r))) @@ states
              /\ witness' = Witnessed(b, r)
  /\ RecordEvidence
  /\ todo' = Tail(todo)
  /\ UNCHANGED <<scripts, scriptName, faulted>>

\* The bundle is executed and what it committed stays, then the evidence throws.
EvidenceThrows ==
  /\ InFrame /\ todo # <<>>
  /\ LET b == Head(todo)
         state == StateFor(b)
     IN  /\ Selected(b) # NoScript
         /\ ~SnapshotThrows(b, state.watches)
         /\ ~EvidenceFits
         /\ \E r \in Requests(b, TRUE) : Run(b, r)
         /\ states' = (b :> state) @@ states
  /\ lastRun' = NoRun
  /\ RecordEvidence
  /\ Fault
  /\ UNCHANGED <<scripts, scriptName, witness>>

\* A snapshot of a watched component throws before the bundle is executed.
WatchThrows ==
  /\ InFrame /\ todo # <<>>
  /\ LET b == Head(todo)
         state == StateFor(b)
     IN  /\ Selected(b) # NoScript
         /\ SnapshotThrows(b, state.watches)
         /\ states' = (b :> state) @@ states
         /\ CapabilitiesAsked(b)
  /\ lastRun' = NoRun
  /\ Fault
  /\ UNCHANGED <<worldVars, bindings, started, scripts, scriptName, witness>>

--------------------------------------------------------------------------------
(* Between frames *)

\* on_behavior_removed: a behavior without access to a script component, or
\* without a world, is not a member any more.
Forget(gone) ==
  /\ states' = Restrict(states, DOMAIN states \ gone)
  /\ witness' = Restrict(witness, DOMAIN witness \ gone)

Unscripted == [b \in Behaviors |-> {}]

\* The host, the runtime and other systems change the world between frames.
HostStep ==
  /\ Between
  /\ WorldStep
  /\ lastRun' = NoRun
  /\ Forget(Behaviors \ active')
  /\ scripts' = [b \in Behaviors |-> IF b \in active' THEN scripts[b] ELSE {}]
  /\ UNCHANGED <<scriptName, todo, faulted>>

\* The script components of b are created, edited, recreated, granted, revoked
\* or removed. A behavior that is left with none leaves the system.
SetScripts(b, components, recreated) ==
  /\ Between
  /\ b \in active
  /\ LET slot(s) == LET old == {x \in scripts[b] : x.name = s.name}
                    IN  IF old = {} THEN 1 ELSE (CHOOSE x \in old : TRUE).slot
         added == IF recreated THEN 1 ELSE 0
     IN  /\ \A s \in components : slot(s) + added <= MaxScriptSlot
         /\ scripts' = [scripts EXCEPT ![b] =
              {[name |-> s.name, text |-> s.text, readable |-> s.readable,
                slot |-> slot(s) + added] : s \in components}]
  /\ Forget(IF components = {} THEN {b} ELSE {})
  /\ lastRun' = NoRun
  /\ UNCHANGED <<worldVars, runnerVars, scriptName, todo, faulted>>

\* Hosts expose described types before anything else happens.
FreshWorld == instance = 1 /\ used = {} /\ \A c \in Components : slots[c].generation = 0

HostRuns ==
  /\ Between
  /\ \/ \E b \in Behaviors : Execute(b)
     \/ FreshWorld /\ \E s \in Schemas : ExposeDescribed(s)
     \/ lastRun' = NoRun /\ \/ \E t \in Types : RegisterBinding(t)
                            \/ \E b \in Behaviors : CapabilityManifest(b)
  /\ UNCHANGED lifecycleVars

Init ==
  /\ RunnerInit
  /\ scripts = Unscripted
  /\ scriptName \in ScriptNames \union {NoName}
  /\ states = <<>> /\ todo = NotRunning /\ faulted = FALSE /\ witness = <<>>

Next ==
  \/ BeginFrame \/ EndFrame \/ SkipBehavior
  \/ RunBehavior \/ EvidenceThrows \/ WatchThrows
  \/ HostStep \/ HostRuns
  \/ \E b \in Behaviors, components \in ScriptSets, recreated \in BOOLEAN :
       SetScripts(b, components, recreated)

Spec == Init /\ [][Next]_vars

--------------------------------------------------------------------------------
(* Properties *)

\* A script never holds a capability its behavior does not have: what the cache
\* hands out, for a behavior of this world or under an id an earlier world used
\* too, are components that exist, in the slots they have now, with the access
\* the world grants now.
CapabilitiesAreGranted ==
  lastRun.owner \in Behaviors => lastRun.capabilities \subseteq Describe(lastRun.owner, bindings)

\* A script that is run holds all the capabilities its behavior has: the cache
\* never changes what a script may use.
CapabilitiesAreCurrent ==
  lastRun.owner \in active /\ lastRun.status \notin EarlyFailures =>
    lastRun.capabilities = Describe(lastRun.owner, bindings)

\* Validation tells exactly the values a schema stands for, and the worst case
\* that registration measures is one: whatever value a registered schema admits
\* reaches a script that is shown nothing else, and comes back unchanged as long
\* as the byte budget of the execution, which all that is shown and proposed
\* shares, holds it once more (validate_lua_value, schema_worst_case,
\* measure_lua_value, push_lua_value and read_lua_value).
SchemasAreSound ==
  lastRun.schema # NoSchema =>
    /\ ValidationIsExact(lastRun.schema, LuaValues)
    /\ lastRun.status = "Registered" => AdmittedValuesPass(lastRun.schema, LuaValues)

\* The frame executes a bundle for the first behavior of todo.
Bundle == InFrame /\ todo # <<>> /\ todo' = Tail(todo) /\ Selected(Head(todo)) # NoScript

\* on_start is called until a bundle with it has succeeded, and then no more
\* as long as frames select this script.
StartsOnce ==
  [][Bundle => lastRun'.start <=> ~HasSucceeded(Head(todo))]_vars

\* No change is missed: a bundle gets a change for every component that the
\* script watches and could read when it last succeeded, and that has another
\* value now, however many bundles failed in between and whatever values they
\* were shown; and it gets no other.
NoChangeMissed ==
  [][Bundle =>
       LET b == Head(todo)
           saw == IF HasSucceeded(b)
                  THEN Restrict(witness[b].values, DOMAIN witness[b].values \intersect witness[b].watched)
                  ELSE <<>>
       IN  lastRun'.changes =
             {[component |-> c, before |-> saw[c], after |-> values[c]] :
                c \in {x \in DOMAIN saw : Readable(b, x) /\ values[x] # saw[x]}}]_vars
============================================================================
