------------------------------- MODULE World -------------------------------
(***************************************************************************)
(* The world: behaviors, named components of several types, the access of  *)
(* behaviors to components, signatures and the membership of behaviors in  *)
(* systems, and what all of this means for intents.                        *)
(*                                                                         *)
(* One thread owns a world, but a change of a membership calls back into   *)
(* the system, in the middle of the operation that caused it. A callback   *)
(* may create and destroy intents and may throw; it may not change the     *)
(* structure. So an operation is a step up to its first callback, a step   *)
(* for each change of a membership, with the callback's own steps after    *)
(* it, and a step for what follows. The structure does not change in       *)
(* between, so the changes to make are known at the start.                 *)
(*                                                                         *)
(* Two buffers may be full when an operation needs a place in them. The    *)
(* destruction of an intent takes a lifecycle record first, so an operation *)
(* that destroys intents may stop half-way: stranded says what it left. A  *)
(* change of the structure is recorded after it took effect: unrecorded    *)
(* names what changed without a record. Both are history, the code reads   *)
(* neither, and the buffers may be full at any moment.                     *)
(*                                                                         *)
(* An intent is its owner and target here, and stands for all the intents  *)
(* of that owner on that target: IntentRegistry has the rest.              *)
(* componentNames stands for slotNames as well, its inverse.               *)
(***************************************************************************)
EXTENDS Integers, SequencesExt

CONSTANTS
  Types, Names,        \* component types and names of components
  Systems,
  MaxBehaviours, MaxComponentSlots,
  MaxIntents,          \* live at once
  MaxGeneration,       \* 2^32 - 1
  MaxRevision,         \* bound on the access revisions (2^64 - 1)
  MaxUnrecorded        \* bound on the keys changed without a record

ASSUME WorldAssumption ==
  /\ MaxBehaviours \in Nat \ {0}
  /\ MaxComponentSlots \in Nat \ {0}
  /\ MaxIntents \in Nat
  /\ MaxGeneration \in Nat \ {0}
  /\ MaxRevision \in Nat
  /\ MaxUnrecorded \in Nat

VARIABLES
  active, availableSlots, generations,     \* BehaviorRegistry
  componentNames,                          \* by type: name to slot handle
  slotGenerations,                         \* by type: as many as slots were used
  availableComponentSlots,                 \* by type
  accesses,                                \* who may do what with which slot
  behaviorSignatures, behaviorAccessRevisions, lastBehaviorAccessRevision,
  systems, registrationOrder,              \* SystemRegistry
  intents,
  stranded,                                \* what failed operations left behind
  call,                                    \* the operation in progress
  evidence,                                \* what the topology evidence says exists
  unrecorded,                              \* what changed last at the evidence's limit
  issued                                   \* every handle a caller has seen

behaviorVars == <<active, availableSlots, generations>>
componentVars == <<componentNames, slotGenerations, availableComponentSlots>>
signatureVars == <<behaviorSignatures, behaviorAccessRevisions, lastBehaviorAccessRevision>>
systemVars == <<systems, registrationOrder>>
intentVars == <<intents, stranded>>
evidenceVars == <<evidence, unrecorded>>
vars == <<behaviorVars, componentVars, accesses, signatureVars, systemVars, intentVars,
          call, evidenceVars, issued>>

Modes == {"Read", "Write", "ReadWrite"}
BySlot(ids) == SetToSortSeq(ids, LAMBDA x, y : x.slot < y.slot)

\* A map with another value for one key.
With(f, x, value) == [y \in DOMAIN f \union {x} |-> IF y = x THEN value ELSE f[y]]

Idle == [operation |-> "none", todo |-> {}, inCallback |-> FALSE, threw |-> FALSE]

UnrecordedKeys ==
  Cardinality(unrecorded.behaviors) + Cardinality(unrecorded.components)
    + Cardinality(unrecorded.systems)

\* record_topology, of the change of a key: at the limit it throws, and the
\* change stays.
Recorded(kind, key, told) ==
  \/ /\ evidence' = told
     /\ unrecorded' = [unrecorded EXCEPT ![kind] = @ \ {key}]
  \/ /\ UnrecordedKeys < MaxUnrecorded
     /\ unrecorded' = [unrecorded EXCEPT ![kind] = @ \union {key}]
     /\ UNCHANGED evidence

\* ensure_structural_mutation_allowed
StructureMayChange == call = Idle

Began(operation, subject, todo) ==
  [operation |-> operation, subject |-> subject, todo |-> todo,
   inCallback |-> FALSE, threw |-> FALSE]

--------------------------------------------------------------------------------
(* Look-ups *)

\* validate_slot; a slot of an advanced generation is not current any more.
SlotIsCurrent(t, slot) ==
  slot.slot \in DOMAIN slotGenerations[t] /\ slotGenerations[t][slot.slot] = slot.generation

AccessOf(b, t, slot) ==
  {a.mode : a \in {x \in accesses : x.behavior = b /\ x.type = t /\ x.slot = slot}}

CanRead(b, t, slot) == SlotIsCurrent(t, slot) /\ AccessOf(b, t, slot) \intersect {"Read", "ReadWrite"} # {}
CanWrite(b, t, slot) == SlotIsCurrent(t, slot) /\ AccessOf(b, t, slot) \intersect {"Write", "ReadWrite"} # {}

\* get_components(t, b).empty(), given the accesses and names.
NoComponents(b, t, granted, names) ==
  ~\E a \in granted : a.behavior = b /\ a.type = t /\ \E n \in DOMAIN names[t] : names[t][n] = a.slot

--------------------------------------------------------------------------------
(* Memberships *)

Member(b, s) == b \in systems[s].behaviours

\* What update_behavior will change for b, given the systems as they are about
\* to be.
Updates(b, signature, records) ==
  LET wrong == {s \in DOMAIN records :
                  (records[s].signature \subseteq signature) # (b \in records[s].behaviours)}
  IN  {[behavior |-> b, system |-> s] : s \in wrong}

\* What remove_behavior will change.
Removals(b) == {[behavior |-> b, system |-> s] : s \in {x \in DOMAIN systems : Member(b, x)}}

\* update_system_memberships for each of the behaviors in bs.
UpdatesOf(bs, signatures, records) ==
  UNION {Updates(b, signatures[b], records) : b \in bs}

Place(s) == CHOOSE i \in DOMAIN registrationOrder : registrationOrder[i] = s

\* Behavior by behavior, in the order of their slots, and for each of them
\* system by system, in the order of registration.
Precedes(c, d) ==
  \/ c.behavior.slot < d.behavior.slot
  \/ c.behavior.slot = d.behavior.slot /\ Place(c.system) <= Place(d.system)

NextChange == CHOOSE c \in call.todo : \A d \in call.todo : Precedes(c, d)

\* The membership is changed first, then the system is told.
ChangeMembership ==
  /\ call.todo # {}
  /\ ~call.inCallback
  /\ LET b == NextChange.behavior
     IN  systems' = [systems EXCEPT ![NextChange.system].behaviours =
                       IF b \in @ THEN @ \ {b} ELSE @ \union {b}]
  /\ call' = [call EXCEPT !.todo = @ \ {NextChange}, !.inCallback = TRUE]
  /\ UNCHANGED <<behaviorVars, componentVars, accesses, signatureVars,
                 registrationOrder, intentVars, evidenceVars, issued>>

\* on_behavior_added or on_behavior_removed returns, or throws: the first
\* exception is kept and the loop goes on.
CallbackEnds(throws) ==
  /\ call.inCallback
  /\ call' = [call EXCEPT !.inCallback = FALSE, !.threw = @ \/ throws]
  /\ UNCHANGED <<behaviorVars, componentVars, accesses, signatureVars, systemVars,
                 intentVars, evidenceVars, issued>>

\* The loop over the systems is done.
Finishing(operation) ==
  call.operation = operation /\ call.todo = {} /\ ~call.inCallback

--------------------------------------------------------------------------------
(* Behaviors *)

\* Mutant of Retire: the generation stays.
RetireSlotOnly(b) ==
  /\ active' = active \ {b}
  /\ availableSlots' = Append(availableSlots, b.slot)
  /\ UNCHANGED generations

\* BehaviorRegistry::destroy
Retire(b) ==
  /\ active' = active \ {b}
  /\ IF generations[b.slot] = MaxGeneration
     THEN UNCHANGED <<availableSlots, generations>>
     ELSE /\ generations' = [generations EXCEPT ![b.slot] = @ + 1]
          /\ availableSlots' = Append(availableSlots, b.slot)

CreateBehavior ==
  /\ StructureMayChange
  /\ lastBehaviorAccessRevision < MaxRevision
  /\ lastBehaviorAccessRevision' = lastBehaviorAccessRevision + 1
  /\ IF availableSlots = <<>>
     THEN UNCHANGED <<behaviorVars, behaviorSignatures, behaviorAccessRevisions, call, issued>>
     ELSE LET slot == Last(availableSlots)
              b == [slot |-> slot, generation |-> generations[slot]]
          IN  /\ availableSlots' = Front(availableSlots)
              /\ active' = active \union {b}
              /\ behaviorSignatures' = With(behaviorSignatures, b, {})
              /\ behaviorAccessRevisions' =
                   With(behaviorAccessRevisions, b, lastBehaviorAccessRevision + 1)
              /\ call' = Began("create_behavior", b, Updates(b, {}, systems))
              /\ issued' = [issued EXCEPT !.behaviors = @ \union {b}]
              /\ UNCHANGED generations
  /\ UNCHANGED <<componentVars, accesses, systemVars, intentVars, evidenceVars>>

BehaviorCreated ==
  /\ Finishing("create_behavior")
  /\ ~call.threw
  /\ Recorded("behaviors", call.subject,
              [evidence EXCEPT !.behaviors = @ \union {call.subject}])
  /\ call' = Idle
  /\ UNCHANGED <<behaviorVars, componentVars, accesses, signatureVars, systemVars,
                 intentVars, issued>>

\* A callback threw: the systems are told again, and what they throw now is lost.
UndoBehavior ==
  /\ Finishing("create_behavior")
  /\ call.threw
  /\ call' = Began("undo_behavior", call.subject, Removals(call.subject))
  /\ UNCHANGED <<behaviorVars, componentVars, accesses, signatureVars, systemVars,
                 intentVars, evidenceVars, issued>>

\* Signature, revision, intents and handle of a behavior go.
BehaviorGone(b) ==
  /\ behaviorSignatures' = Restrict(behaviorSignatures, DOMAIN behaviorSignatures \ {b})
  /\ behaviorAccessRevisions' =
       Restrict(behaviorAccessRevisions, DOMAIN behaviorAccessRevisions \ {b})
  /\ intents' = {i \in intents : i.owner # b}
  /\ stranded' = [behaviors |-> stranded.behaviors \ {b},
                  intents |-> stranded.intents \intersect intents']
  /\ Retire(b)

BehaviorUndone ==
  /\ Finishing("undo_behavior")
  /\ BehaviorGone(call.subject)
  /\ call' = Idle
  /\ UNCHANGED <<componentVars, accesses, lastBehaviorAccessRevision, systemVars,
                 evidenceVars, issued>>

DestroyBehavior(b) ==
  /\ StructureMayChange
  /\ b \in active
  /\ accesses' = {a \in accesses : a.behavior # b}
  /\ behaviorSignatures' = Restrict(behaviorSignatures, DOMAIN behaviorSignatures \ {b})
  /\ behaviorAccessRevisions' =
       Restrict(behaviorAccessRevisions, DOMAIN behaviorAccessRevisions \ {b})
  /\ call' = Began("destroy_behavior", b, Removals(b))
  /\ UNCHANGED <<behaviorVars, componentVars, lastBehaviorAccessRevision, systemVars,
                 intentVars, evidenceVars, issued>>

\* Mutant of BehaviorDestroyed: the evidence is skipped when a callback threw.
BehaviorDestroyedUntold ==
  /\ Finishing("destroy_behavior")
  /\ BehaviorGone(call.subject)
  /\ IF call.threw THEN UNCHANGED evidenceVars
     ELSE Recorded("behaviors", call.subject,
                   [evidence EXCEPT !.behaviors = @ \ {call.subject}])
  /\ call' = Idle
  /\ UNCHANGED <<componentVars, accesses, lastBehaviorAccessRevision, systemVars, issued>>

\* The tombstone is recorded whether or not a callback threw.
BehaviorDestroyed ==
  /\ Finishing("destroy_behavior")
  /\ BehaviorGone(call.subject)
  /\ Recorded("behaviors", call.subject,
              [evidence EXCEPT !.behaviors = @ \ {call.subject}])
  /\ call' = Idle
  /\ UNCHANGED <<componentVars, accesses, lastBehaviorAccessRevision, systemVars, issued>>

\* destroy_owned_by ran out of lifecycle records: the behavior stays, without
\* access, signature and revision, and so do some of its intents.
BehaviorNotDestroyed ==
  /\ Finishing("destroy_behavior")
  /\ LET owned == {i \in intents : i.owner = call.subject}
     IN  \E gone \in SUBSET owned :
           /\ gone # owned
           /\ intents' = intents \ gone
           /\ stranded' = [behaviors |-> stranded.behaviors \union {call.subject},
                           intents |-> (stranded.intents \union owned) \ gone]
  /\ call' = Idle
  /\ UNCHANGED <<behaviorVars, componentVars, accesses, signatureVars, systemVars,
                 evidenceVars, issued>>

--------------------------------------------------------------------------------
(* Components *)

\* The slot a new component gets: one given back, or the next unused one.
FreshSlot(t) ==
  LET k == IF availableComponentSlots[t] # <<>>
           THEN Last(availableComponentSlots[t]) ELSE Len(slotGenerations[t]) + 1
  IN  [slot |-> k, generation |-> Append(slotGenerations[t], 1)[k]]

AddComponent(t, n) ==
  /\ StructureMayChange
  /\ n \notin DOMAIN componentNames[t]
  /\ \/ /\ availableComponentSlots[t] # <<>>
        /\ availableComponentSlots' = [availableComponentSlots EXCEPT ![t] = Front(@)]
        /\ UNCHANGED slotGenerations
     \/ /\ availableComponentSlots[t] = <<>>
        /\ Len(slotGenerations[t]) < MaxComponentSlots
        /\ slotGenerations' = [slotGenerations EXCEPT ![t] = Append(@, 1)]
        /\ UNCHANGED availableComponentSlots
  /\ componentNames' = [componentNames EXCEPT ![t] = With(@, n, FreshSlot(t))]
  /\ Recorded("components", <<t, n>>,
              [evidence EXCEPT !.components = With(@, <<t, n>>, FreshSlot(t))])
  /\ issued' = [issued EXCEPT !.slots = @ \union {<<t, FreshSlot(t)>>}]
  /\ UNCHANGED <<behaviorVars, accesses, signatureVars, systemVars, intentVars, call>>

\* The generation of a slot moves on, to 0 after the last: then no handle is
\* current and the slot is not used again.
AdvanceSlotGeneration(t, k) ==
  IF slotGenerations[t][k] = MaxGeneration
  THEN /\ slotGenerations' = [slotGenerations EXCEPT ![t][k] = 0]
       /\ UNCHANGED availableComponentSlots
  ELSE /\ slotGenerations' = [slotGenerations EXCEPT ![t][k] = @ + 1]
       /\ availableComponentSlots' = [availableComponentSlots EXCEPT ![t] = Append(@, k)]

\* Consecutive revisions for the behaviors in bs, in this order.
Revised(bs) ==
  [b \in DOMAIN behaviorAccessRevisions |->
     IF \E i \in DOMAIN bs : bs[i] = b
     THEN lastBehaviorAccessRevision + CHOOSE i \in DOMAIN bs : bs[i] = b
     ELSE behaviorAccessRevisions[b]]

\* Mutant of ForgottenBy: the signature loses the type with any component.
ForgottenByAll(t, affected, granted, names) == affected

\* The behaviors in affected that have no component of type t left.
ForgottenBy(t, affected, granted, names) ==
  {b \in affected : NoComponents(b, t, granted, names)}

\* The resets of the signatures are done together: callbacks do not read them.
\* A behavior without a signature, half destroyed, gets an empty one.
ResetSignatures(bs, t) ==
  [b \in DOMAIN behaviorSignatures \union bs |->
     IF b \notin DOMAIN behaviorSignatures THEN {}
     ELSE IF b \in bs THEN behaviorSignatures[b] \ {t} ELSE behaviorSignatures[b]]

\* behaviors_with_access
WithAccess(t) == {a.behavior : a \in {x \in accesses : x.type = t}}

\* Those of them that lose their access with the component, in their order.
Losing(t, slot) ==
  SelectSeq(BySlot(WithAccess(t)), LAMBDA b : CanRead(b, t, slot) \/ CanWrite(b, t, slot))

IntentsTargeting(t, slot) == {i \in intents : i.type = t /\ i.slot = slot}

RemoveComponent(t, n) ==
  /\ StructureMayChange
  /\ n \in DOMAIN componentNames[t]
  /\ LET slot == componentNames[t][n]
         losing == Losing(t, slot)
         granted == {a \in accesses : ~(a.type = t /\ a.slot = slot)}
         names == [componentNames EXCEPT ![t] = Restrict(@, DOMAIN @ \ {n})]
         forgetting == ForgottenBy(t, WithAccess(t), granted, names)
         signatures == ResetSignatures(forgetting, t)
     IN  /\ lastBehaviorAccessRevision + Len(losing) <= MaxRevision
         /\ lastBehaviorAccessRevision' = lastBehaviorAccessRevision + Len(losing)
         /\ behaviorAccessRevisions' = Revised(losing)
         /\ intents' = intents \ IntentsTargeting(t, slot)
         /\ stranded' = [stranded EXCEPT !.intents = @ \ IntentsTargeting(t, slot)]
         /\ accesses' = granted
         /\ AdvanceSlotGeneration(t, slot.slot)
         /\ componentNames' = names
         /\ behaviorSignatures' = signatures
         /\ call' = Began("remove_component", <<t, n>>,
                          UpdatesOf(forgetting, signatures, systems))
  /\ UNCHANGED <<behaviorVars, systemVars, evidenceVars, issued>>

\* The intents on the component go first. When the lifecycle records run out
\* the component stays, and so does everybody's access.
ComponentNotRemoved(t, n) ==
  /\ StructureMayChange
  /\ n \in DOMAIN componentNames[t]
  /\ LET slot == componentNames[t][n]
         losing == Losing(t, slot)
     IN  /\ lastBehaviorAccessRevision + Len(losing) <= MaxRevision
         /\ lastBehaviorAccessRevision' = lastBehaviorAccessRevision + Len(losing)
         /\ \E gone \in SUBSET IntentsTargeting(t, slot) :
              /\ gone # IntentsTargeting(t, slot)
              /\ intents' = intents \ gone
              /\ stranded' = [stranded EXCEPT !.intents = @ \ gone]
  /\ UNCHANGED <<behaviorVars, componentVars, accesses, behaviorSignatures,
                 behaviorAccessRevisions, systemVars, call, evidenceVars, issued>>

ComponentRemoved ==
  /\ Finishing("remove_component")
  /\ Recorded("components", call.subject,
              [evidence EXCEPT !.components = Restrict(@, DOMAIN @ \ {call.subject})])
  /\ call' = Idle
  /\ UNCHANGED <<behaviorVars, componentVars, accesses, signatureVars, systemVars,
                 intentVars, issued>>

--------------------------------------------------------------------------------
(* Access *)

AccessChanges(b, t, slot, mode) ==
  \/ mode = "Read" /\ (~CanRead(b, t, slot) \/ CanWrite(b, t, slot))
  \/ mode = "Write" /\ (CanRead(b, t, slot) \/ ~CanWrite(b, t, slot))
  \/ mode = "ReadWrite" /\ (~CanRead(b, t, slot) \/ ~CanWrite(b, t, slot))

\* The intents of b on a component.
IntentsOn(b, t, slot) == {i \in intents : i.owner = b /\ i.type = t /\ i.slot = slot}

\* Mutant of IntentsKept: intents outlive the write access.
IntentsAllKept(b, t, slot, mode) == intents

IntentsKept(b, t, slot, mode) ==
  IF mode = "Read" THEN intents \ IntentsOn(b, t, slot) ELSE intents

\* grant_access and the revision, the part before any intent is destroyed. A
\* behavior without a revision, half destroyed, is granted nothing.
AccessGranted(b, t, slot, mode) ==
  LET changed == IF AccessChanges(b, t, slot, mode) THEN <<b>> ELSE <<>>
  IN  /\ b \in DOMAIN behaviorAccessRevisions
      /\ lastBehaviorAccessRevision + Len(changed) <= MaxRevision
      /\ lastBehaviorAccessRevision' = lastBehaviorAccessRevision + Len(changed)
      /\ behaviorAccessRevisions' = Revised(changed)
      /\ accesses' = {a \in accesses : ~(a.behavior = b /\ a.type = t /\ a.slot = slot)}
                     \union {[behavior |-> b, type |-> t, slot |-> slot, mode |-> mode]}

GrantComponentAccess(b, t, n, mode) ==
  /\ StructureMayChange
  /\ b \in active
  /\ n \in DOMAIN componentNames[t]
  /\ LET slot == componentNames[t][n]
         signature == behaviorSignatures[b] \union {t}
     IN  /\ AccessGranted(b, t, slot, mode)
         /\ intents' = IntentsKept(b, t, slot, mode)
         /\ stranded' = [stranded EXCEPT !.intents = @ \ IntentsOn(b, t, slot)]
         /\ behaviorSignatures' = [behaviorSignatures EXCEPT ![b] = signature]
         /\ call' = Began("grant_component_access", b,
                          Updates(b, signature, systems))
  /\ UNCHANGED <<behaviorVars, componentVars, systemVars, evidenceVars, issued>>

\* The access was lowered to reading, and the lifecycle records run out before
\* the intents that may not write any more are destroyed.
IntentsNotDestroyed(b, t, n) ==
  /\ StructureMayChange
  /\ b \in active
  /\ n \in DOMAIN componentNames[t]
  /\ LET slot == componentNames[t][n]
     IN  /\ AccessGranted(b, t, slot, "Read")
         /\ IntentsOn(b, t, slot) # {}
         /\ stranded' = [stranded EXCEPT !.intents = @ \union IntentsOn(b, t, slot)]
  /\ UNCHANGED <<behaviorVars, componentVars, behaviorSignatures, systemVars, intents,
                 call, evidenceVars, issued>>

RevokeComponentAccess(b, t, n) ==
  /\ StructureMayChange
  /\ b \in active
  /\ n \in DOMAIN componentNames[t]
  /\ LET slot == componentNames[t][n]
         losing == IF CanRead(b, t, slot) \/ CanWrite(b, t, slot) THEN <<b>> ELSE <<>>
         granted == {a \in accesses : ~(a.behavior = b /\ a.type = t /\ a.slot = slot)}
         forgetting == ForgottenBy(t, {b}, granted, componentNames)
         signatures == ResetSignatures(forgetting, t)
     IN  /\ lastBehaviorAccessRevision + Len(losing) <= MaxRevision
         /\ lastBehaviorAccessRevision' = lastBehaviorAccessRevision + Len(losing)
         /\ behaviorAccessRevisions' = Revised(losing)
         /\ intents' = intents \ IntentsOn(b, t, slot)
         /\ stranded' = [stranded EXCEPT !.intents = @ \ IntentsOn(b, t, slot)]
         /\ accesses' = granted
         /\ behaviorSignatures' = signatures
         /\ call' = Began("revoke_component_access", b,
                          UpdatesOf(forgetting, signatures, systems))
  /\ UNCHANGED <<behaviorVars, componentVars, systemVars, evidenceVars, issued>>

\* Here the intents go before the access does: when the lifecycle records run
\* out only a revision is used up.
AccessNotRevoked(b, t, n) ==
  /\ StructureMayChange
  /\ b \in active
  /\ n \in DOMAIN componentNames[t]
  /\ LET slot == componentNames[t][n]
     IN  /\ IntentsOn(b, t, slot) # {}
         /\ CanRead(b, t, slot) \/ CanWrite(b, t, slot)
  /\ lastBehaviorAccessRevision < MaxRevision
  /\ lastBehaviorAccessRevision' = lastBehaviorAccessRevision + 1
  /\ UNCHANGED <<behaviorVars, componentVars, accesses, behaviorSignatures,
                 behaviorAccessRevisions, systemVars, intentVars, call, evidenceVars, issued>>

\* The evidence of an access is recorded, if no callback threw; it is not modelled.
AccessDone ==
  /\ Finishing("grant_component_access") \/ Finishing("revoke_component_access")
  /\ call' = Idle
  /\ UNCHANGED <<behaviorVars, componentVars, accesses, signatureVars, systemVars,
                 intentVars, evidenceVars, issued>>

--------------------------------------------------------------------------------
(* Systems *)

AllBehaviors == DOMAIN behaviorSignatures

RegisterSystem(s, signature) ==
  /\ StructureMayChange
  /\ s \notin DOMAIN systems
  /\ systems' = With(systems, s, [signature |-> signature, behaviours |-> {}])
  /\ registrationOrder' = Append(registrationOrder, s)
  /\ call' = Began("register_system", s,
       UpdatesOf(AllBehaviors, behaviorSignatures, systems'))
  /\ UNCHANGED <<behaviorVars, componentVars, accesses, signatureVars, intentVars,
                 evidenceVars, issued>>

\* SystemRegistry::destroy_system
WithoutSystem(s) ==
  /\ systems' = Restrict(systems, DOMAIN systems \ {s})
  /\ registrationOrder' = RemoveAt(registrationOrder, Place(s))

\* A callback that threw takes the registration back.
SystemRegistered ==
  /\ Finishing("register_system")
  /\ \/ /\ call.threw
        /\ WithoutSystem(call.subject)
        /\ UNCHANGED evidenceVars
     \/ /\ ~call.threw
        /\ Recorded("systems", call.subject,
                    [evidence EXCEPT !.systems = @ \union {call.subject}])
        /\ UNCHANGED systemVars
  /\ call' = Idle
  /\ UNCHANGED <<behaviorVars, componentVars, accesses, signatureVars, intentVars, issued>>

DestroySystem(s) ==
  /\ StructureMayChange
  /\ s \in DOMAIN systems
  /\ WithoutSystem(s)
  /\ Recorded("systems", s, [evidence EXCEPT !.systems = @ \ {s}])
  /\ UNCHANGED <<behaviorVars, componentVars, accesses, signatureVars, intentVars, call, issued>>

SetSystemSignature(s, signature) ==
  /\ StructureMayChange
  /\ s \in DOMAIN systems
  /\ systems' = [systems EXCEPT ![s].signature = signature]
  /\ call' = Began("set_system_signature", s,
       UpdatesOf(AllBehaviors, behaviorSignatures, systems'))
  /\ UNCHANGED <<behaviorVars, componentVars, accesses, signatureVars, registrationOrder,
                 intentVars, evidenceVars, issued>>

\* The new signature stays when a callback threw, and is not recorded.
SystemSignatureSet ==
  /\ Finishing("set_system_signature")
  /\ \/ call.threw /\ UNCHANGED evidenceVars
     \/ /\ ~call.threw
        /\ Recorded("systems", call.subject,
                    [evidence EXCEPT !.systems = @ \union {call.subject}])
  /\ call' = Idle
  /\ UNCHANGED <<behaviorVars, componentVars, accesses, signatureVars, systemVars,
                 intentVars, issued>>

\* run_systems: until it returns or throws, systems may use intents and leave
\* the structure alone.
RunSystems ==
  /\ StructureMayChange
  /\ registrationOrder # <<>>
  /\ call' = Began("run_systems", registrationOrder, {})
  /\ UNCHANGED <<behaviorVars, componentVars, accesses, signatureVars, systemVars,
                 intentVars, evidenceVars, issued>>

SystemsRun ==
  /\ Finishing("run_systems")
  /\ call' = Idle
  /\ UNCHANGED <<behaviorVars, componentVars, accesses, signatureVars, systemVars,
                 intentVars, evidenceVars, issued>>

--------------------------------------------------------------------------------
(* Intents: by the host, by a running system or by a callback *)

HostCode == call.operation \in {"none", "run_systems"} \/ call.inCallback

MayCreateIntent(b, t, slot) == b \in active /\ CanWrite(b, t, slot)

\* slot is any handle the caller ever got.
CreateIntent(b, t, slot) ==
  /\ HostCode
  /\ MayCreateIntent(b, t, slot)
  /\ Cardinality(intents) < MaxIntents
  /\ intents' = intents \union {[owner |-> b, type |-> t, slot |-> slot]}
  /\ UNCHANGED <<stranded, behaviorVars, componentVars, accesses, signatureVars, systemVars,
                 call, evidenceVars, issued>>

DestroyIntent(i) ==
  /\ HostCode
  /\ intents' = intents \ {i}
  /\ stranded' = [stranded EXCEPT !.intents = @ \ {i}]
  /\ UNCHANGED <<behaviorVars, componentVars, accesses, signatureVars, systemVars,
                 call, evidenceVars, issued>>

--------------------------------------------------------------------------------
Init ==
  /\ active = {} /\ generations = [k \in 1..MaxBehaviours |-> 1]
  /\ availableSlots = [i \in 1..MaxBehaviours |-> MaxBehaviours + 1 - i]
  /\ componentNames = [t \in Types |-> <<>>]
  /\ slotGenerations = [t \in Types |-> <<>>]
  /\ availableComponentSlots = [t \in Types |-> <<>>]
  /\ accesses = {} /\ behaviorSignatures = <<>> /\ behaviorAccessRevisions = <<>>
  /\ lastBehaviorAccessRevision = 0
  /\ systems = <<>> /\ registrationOrder = <<>>
  /\ intents = {} /\ stranded = [behaviors |-> {}, intents |-> {}] /\ call = Idle
  /\ evidence = [behaviors |-> {}, components |-> <<>>, systems |-> {}]
  /\ unrecorded = [behaviors |-> {}, components |-> {}, systems |-> {}]
  /\ issued = [behaviors |-> {}, slots |-> {}]

Next ==
  \/ ChangeMembership
  \/ \E throws \in BOOLEAN : CallbackEnds(throws)
  \/ CreateBehavior \/ BehaviorCreated \/ UndoBehavior \/ BehaviorUndone
  \/ \E b \in active : DestroyBehavior(b)
  \/ BehaviorDestroyed \/ BehaviorNotDestroyed
  \/ \E t \in Types, n \in Names :
       \/ AddComponent(t, n)
       \/ RemoveComponent(t, n) \/ ComponentNotRemoved(t, n)
       \/ \E b \in active :
            \/ \E mode \in Modes : GrantComponentAccess(b, t, n, mode)
            \/ IntentsNotDestroyed(b, t, n)
            \/ RevokeComponentAccess(b, t, n) \/ AccessNotRevoked(b, t, n)
  \/ ComponentRemoved \/ AccessDone
  \/ \E s \in Systems :
       \/ \E signature \in SUBSET Types :
            RegisterSystem(s, signature) \/ SetSystemSignature(s, signature)
       \/ DestroySystem(s)
  \/ SystemRegistered \/ SystemSignatureSet \/ RunSystems \/ SystemsRun
  \/ \E b \in active, h \in issued.slots : CreateIntent(b, h[1], h[2])
  \/ \E i \in intents : DestroyIntent(i)

Spec == Init /\ [][Next]_vars

--------------------------------------------------------------------------------
(* Properties *)

\* An intent is always its owner's right: whoever created it, from a callback
\* in the middle of another operation too, its owner exists, the component it
\* targets is still there, and its owner may write to it. Two kinds of intents
\* lack the access: those of a behavior being destroyed, whose access goes
\* first, and those an operation left when it ran out of lifecycle records,
\* until an operation that takes intents away, or gives the access back,
\* succeeds.
IntentsAuthorised ==
  \A i \in intents :
    /\ i.owner \in active
    /\ i.slot \in Range(componentNames[i.type])
    /\ \/ CanWrite(i.owner, i.type, i.slot)
       \/ call.operation = "destroy_behavior" /\ call.subject = i.owner
       \/ i \in stranded.intents

\* Between operations a behavior's signature names exactly the types it can
\* reach a component of, and it is a member of exactly the systems whose
\* signature its own covers, whichever callbacks threw on the way. Only a
\* behavior whose destruction ran out of lifecycle records may have no
\* signature: it is a member of nothing, and nobody has access without one.
MembershipFollowsAccess ==
  call = Idle =>
    /\ DOMAIN behaviorSignatures \subseteq active
    /\ active \ DOMAIN behaviorSignatures \subseteq stranded.behaviors
    /\ \A a \in accesses : a.behavior \in DOMAIN behaviorSignatures /\ SlotIsCurrent(a.type, a.slot)
    /\ \A b \in DOMAIN behaviorSignatures : behaviorSignatures[b] =
         {t \in Types : \E n \in DOMAIN componentNames[t] :
                          AccessOf(b, t, componentNames[t][n]) # {}}
    /\ \A s \in DOMAIN systems : systems[s].behaviours =
         {b \in DOMAIN behaviorSignatures : systems[s].signature \subseteq behaviorSignatures[b]}

\* Between operations the topology evidence is right about the existence of
\* every behavior, system and component, and about a component's slot, except
\* of those whose last change found the evidence at its limit: an operation a
\* callback made throw is recorded as a creation or a removal if and only if it
\* took effect. What a grant, a revocation or a new signature changes is not
\* part of this: that is not recorded when a callback threw, and stays.
LifeIsRecorded ==
  call = Idle =>
    /\ \A b \in (active \union evidence.behaviors) \ unrecorded.behaviors :
         b \in active /\ b \in evidence.behaviors
    /\ \A s \in Systems \ unrecorded.systems : s \in evidence.systems <=> s \in DOMAIN systems
    /\ \A t \in Types, n \in Names : <<t, n>> \notin unrecorded.components =>
         IF n \in DOMAIN componentNames[t]
         THEN <<t, n>> \in DOMAIN evidence.components
              /\ evidence.components[<<t, n>>] = componentNames[t][n]
         ELSE <<t, n>> \notin DOMAIN evidence.components

\* A handle never comes to mean something else: a new behavior and a new
\* component get handles no caller has seen, although slots are used again.
HandlesAreFresh ==
  [][/\ \A b \in active' \ active : b \notin issued.behaviors
     /\ \A t \in Types :
          \A slot \in Range(componentNames'[t]) \ Range(componentNames[t]) :
            <<t, slot>> \notin issued.slots]_vars
================================================================================
