--------------------------- MODULE IntentRegistry ---------------------------
(***************************************************************************)
(* The intent registry: intents under generational handles, the indexes by *)
(* owner, by name and by target, the records of what was created and       *)
(* destroyed, and the transaction in which a script's bundle of            *)
(* cancellations and proposals is applied.                                 *)
(*                                                                         *)
(* The registry is used by the owner thread of its world only. A call is   *)
(* one step, except that a transaction takes one step per call, with the   *)
(* rollback in the place of any of them: a codec, the capacity or a name   *)
(* may make any of them throw. The typed storages are one map, records,    *)
(* kept apart from intentTypes because the transaction's copy does not     *)
(* cover what they hold. The 64-bit sequence does not run out.             *)
(***************************************************************************)
EXTENDS Integers, FiniteSets, Sequences, SequencesExt

CONSTANTS
  Owners,          \* behaviors
  Targets,         \* components
  Names, NoName,   \* names of intents, and the empty one
  Priorities,      \* the values of IntentPriority
  Expirations,     \* instants at which an UntilTime lifetime may end
  Persistent,      \* the lifetime that does not
  MaxIntents,
  MaxGeneration,   \* 2^32 - 1
  MaxBuffered,     \* maximumBufferedLifecycleRecords
  MaxSequence      \* bound on the sequence, and so on creations

ASSUME RegistryAssumption ==
  /\ MaxIntents \in Nat \ {0}
  /\ MaxGeneration \in Nat \ {0}
  /\ MaxBuffered \in Nat
  /\ MaxSequence \in Nat
  /\ Priorities \subseteq Nat
  /\ Expirations \subseteq Nat
  /\ Persistent \notin Expirations
  /\ NoName \notin Names

VARIABLES
  records,                              \* the typed storages: handle to intent
  intentTypes,                          \* the handles that exist
  availableSlots, generations, nextSlot,
  lastSequence,
  lifecycleRecords,
  byOwner, byOwnerName, byTarget,
  transaction,                          \* the open transaction
  issued,                               \* every handle a caller has seen
  described                             \* the live intents by the records taken so far

slots == <<availableSlots, generations, nextSlot>>
indexes == <<byOwner, byOwnerName, byTarget>>
registry == <<records, intentTypes, slots, lastSequence, lifecycleRecords, indexes>>
ghosts == <<issued, described>>
vars == <<registry, transaction, ghosts>>

Slots == 1..MaxIntents
Ids == [slot : Slots, generation : 1..MaxGeneration]
Lifetimes == Expirations \union {Persistent}
Intents ==
  [id : Ids, owner : Owners, target : Targets, lifetime : Lifetimes,
   priority : Priorities, sequence : 1..MaxSequence, name : Names \union {NoName}]

Closed == [active |-> FALSE]
Open == transaction.active

\* std::set<IntentId> and std::map<IntentId, ...> iterate by slot: a handle
\* comes after as many others as there are lower slots.
Rank(ids, id) == Cardinality({x \in ids : x.slot < id.slot})
InOrder(ids) == [k \in 1..Cardinality(ids) |-> CHOOSE id \in ids : Rank(ids, id) = k - 1]

\* A map with another value for one key.
With(f, x, value) == [y \in DOMAIN f \union {x} |-> IF y = x THEN value ELSE f[y]]

LiveIntents == {records[id] : id \in DOMAIN records}

--------------------------------------------------------------------------------
(* Handles *)

\* next_intent_id throws: as many live intents as there may be.
PoolFull == Cardinality(intentTypes) >= MaxIntents /\ availableSlots = <<>>

NextSlot == IF availableSlots = <<>> THEN nextSlot ELSE Last(availableSlots)

NextId == [slot |-> NextSlot, generation |-> generations[NextSlot]]

\* The slots once next_intent_id has returned NextId, and once
\* release_intent_id has given it back.
TakeId ==
  IF availableSlots = <<>>
  THEN nextSlot' = nextSlot + 1 /\ UNCHANGED <<availableSlots, generations>>
  ELSE availableSlots' = Front(availableSlots) /\ UNCHANGED <<nextSlot, generations>>

\* Mutant of TakeAndReleaseId: a slot that came from the stack is not put back.
TakeAndDropId ==
  LET taken == IF availableSlots = <<>> THEN nextSlot + 1 ELSE nextSlot
      left == IF availableSlots = <<>> THEN <<>> ELSE Front(availableSlots)
  IN  /\ nextSlot' = IF NextSlot + 1 = taken THEN taken - 1 ELSE taken
      /\ availableSlots' = left
      /\ UNCHANGED generations

TakeAndReleaseId ==
  LET taken == IF availableSlots = <<>> THEN nextSlot + 1 ELSE nextSlot
      left == IF availableSlots = <<>> THEN <<>> ELSE Front(availableSlots)
  IN  /\ nextSlot' = IF NextSlot + 1 = taken THEN taken - 1 ELSE taken
      /\ availableSlots' = IF NextSlot + 1 = taken THEN left ELSE Append(left, NextSlot)
      /\ UNCHANGED generations

\* Mutant of RetireIds: the generation stays.
RetireSlotsOnly(ids) ==
  /\ availableSlots' = availableSlots \o
       [k \in DOMAIN InOrder(ids) |-> InOrder(ids)[k].slot]
  /\ UNCHANGED <<nextSlot, generations>>

\* retire_intent_id for each of the handles, in their order.
RetireIds(ids) ==
  LET recycled == {id \in ids : generations[id.slot] < MaxGeneration}
  IN  /\ generations' = [k \in Slots |->
           IF \E id \in recycled : id.slot = k THEN generations[k] + 1 ELSE generations[k]]
      /\ availableSlots' = availableSlots \o
           [k \in DOMAIN InOrder(recycled) |-> InOrder(recycled)[k].slot]
      /\ UNCHANGED nextSlot

--------------------------------------------------------------------------------
(* Creation *)

\* create_impl gets as far as the handle.
Creatable(o, n) ==
  /\ o \in DOMAIN byOwner
  /\ n # NoName => <<o, n>> \notin DOMAIN byOwnerName
  /\ ~PoolFull

Created(o, t, l, p, n) ==
  [id |-> NextId, owner |-> o, target |-> t, lifetime |-> l, priority |-> p,
   sequence |-> lastSequence + 1, name |-> n]

\* create_impl, when everything goes well.
CreateIntent(i) ==
  /\ NextSlot \in Slots
  /\ Len(lifecycleRecords) < MaxBuffered
  /\ lastSequence < MaxSequence
  /\ TakeId
  /\ lastSequence' = lastSequence + 1
  /\ records' = With(records, i.id, i)
  /\ intentTypes' = intentTypes \union {i.id}
  /\ byOwner' = [byOwner EXCEPT ![i.owner] = @ \union {i.id}]
  /\ byOwnerName' = IF i.name = NoName THEN byOwnerName
                    ELSE With(byOwnerName, <<i.owner, i.name>>, i.id)
  /\ byTarget' = byTarget \union {<<i.target, i.id>>}
  /\ lifecycleRecords' = Append(lifecycleRecords, [created |-> TRUE, intent |-> i])

\* The buffer of lifecycle records is full: everything is taken back but the
\* sequence number.
CreateUnrecorded ==
  /\ NextSlot \in Slots
  /\ Len(lifecycleRecords) >= MaxBuffered
  /\ lastSequence < MaxSequence
  /\ TakeAndReleaseId
  /\ lastSequence' = lastSequence + 1
  /\ UNCHANGED <<records, intentTypes, lifecycleRecords, indexes>>

\* Slots have been retired for good, so that fewer than MaxIntents are left:
\* next_intent_id counts nextSlot up and throws. Once is enough here.
CreateOutOfSlots ==
  /\ NextSlot = MaxIntents + 1
  /\ TakeId
  /\ UNCHANGED <<records, intentTypes, lastSequence, lifecycleRecords, indexes>>

Proposals == Targets \X Lifetimes \X Priorities

Create(o, n) ==
  /\ ~Open
  /\ Creatable(o, n)
  /\ \/ \E c \in Proposals :
          LET i == Created(o, c[1], c[2], c[3], n)
          IN  CreateIntent(i) /\ issued' = issued \union {i.id}
     \/ (CreateUnrecorded \/ CreateOutOfSlots) /\ UNCHANGED issued
  /\ UNCHANGED <<transaction, described>>

--------------------------------------------------------------------------------
(* Removal *)

\* The indexes without the intents in gone; pools are the owners that stay.
EraseFromIndexes(gone, pools) ==
  /\ byOwner' = [o \in pools |-> byOwner[o] \ {i.id : i \in gone}]
  /\ byOwnerName' = Restrict(byOwnerName,
       DOMAIN byOwnerName \ {<<i.owner, i.name>> : i \in gone})
  /\ byTarget' = byTarget \ {<<i.target, i.id>> : i \in gone}

\* destroy, or cancel, of the handles in gone, in their order.
RemoveIntents(gone, pools) ==
  /\ lifecycleRecords' = lifecycleRecords \o
       [k \in DOMAIN InOrder(gone) |->
          [created |-> FALSE, intent |-> records[InOrder(gone)[k]]]]
  /\ records' = Restrict(records, DOMAIN records \ gone)
  /\ intentTypes' = intentTypes \ gone
  /\ RetireIds(gone)
  /\ EraseFromIndexes({records[id] : id \in gone}, pools)
  /\ UNCHANGED lastSequence

\* As many of the handles as there is room for records of: the next destroy
\* throws and ends the loop.
Destroyable(ids) ==
  {id \in ids : Rank(ids, id) < MaxBuffered - Len(lifecycleRecords)}

Destroy(id) ==
  /\ ~Open
  /\ id \in intentTypes
  /\ Len(lifecycleRecords) < MaxBuffered
  /\ RemoveIntents({id}, DOMAIN byOwner)
  /\ UNCHANGED <<transaction, ghosts>>

\* destroy_expired_intents at a time.
DestroyExpired(now) ==
  LET expired == {id \in intentTypes :
                    records[id].lifetime # Persistent /\ now >= records[id].lifetime}
  IN  /\ ~Open
      /\ expired # {}
      /\ RemoveIntents(Destroyable(expired), DOMAIN byOwner)
      /\ UNCHANGED <<transaction, ghosts>>

\* A behavior has been created: its pool.
CreateBehaviorPool(o) ==
  /\ ~Open
  /\ o \notin DOMAIN byOwner
  /\ byOwner' = With(byOwner, o, {})
  /\ UNCHANGED <<records, intentTypes, slots, lastSequence, lifecycleRecords,
                 byOwnerName, byTarget, transaction, ghosts>>

\* destroy_owned_by; the pool goes when all of its intents have.
DestroyOwnedBy(o) ==
  /\ ~Open
  /\ o \in DOMAIN byOwner
  /\ LET gone == Destroyable(byOwner[o])
     IN  RemoveIntents(gone,
           IF gone = byOwner[o] THEN DOMAIN byOwner \ {o} ELSE DOMAIN byOwner)
  /\ UNCHANGED <<transaction, ghosts>>

\* The live intents by a sequence of lifecycle records that starts with them:
\* an intent lives until a later record of the destruction of its handle.
DestroyedAfter(id, s, k) ==
  \E j \in DOMAIN s : j > k /\ ~s[j].created /\ s[j].intent.id = id

Replayed(intents, s) ==
  {i \in intents : ~DestroyedAfter(i.id, s, 0)}
    \union {s[k].intent : k \in {x \in DOMAIN s :
              s[x].created /\ ~DestroyedAfter(s[x].intent.id, s, x)}}

\* The runtime has taken the records.
ClearLifecycleRecords ==
  /\ ~Open
  /\ lifecycleRecords # <<>>
  /\ lifecycleRecords' = <<>>
  /\ described' = Replayed(described, lifecycleRecords)
  /\ UNCHANGED <<records, intentTypes, slots, lastSequence, indexes, transaction, issued>>

--------------------------------------------------------------------------------
(* A transaction: the bundle of one owner. Its cancellations are intents the *)
(* owner had before, taken in order; its proposals follow.                   *)

\* Transaction::Transaction copies all but the contents of the storages.
\* origin is a ghost: the registry as it was.
BeginTransaction(o, cancellations) ==
  /\ ~Open
  /\ o \in DOMAIN byOwner
  /\ cancellations \subseteq byOwner[o]
  /\ transaction' =
       [active |-> TRUE, failed |-> FALSE, owner |-> o,
        pending |-> cancellations, cancelled |-> {},
        lifecycleRecordCount |-> Len(lifecycleRecords),
        intentTypes |-> intentTypes, availableSlots |-> availableSlots,
        generations |-> generations, nextSlot |-> nextSlot,
        lastSequence |-> lastSequence, byOwner |-> byOwner,
        byOwnerName |-> byOwnerName, byTarget |-> byTarget, origin |-> registry]
  /\ UNCHANGED <<registry, ghosts>>

Cancel ==
  /\ Open
  /\ transaction.pending # {}
  /\ Len(lifecycleRecords) < MaxBuffered
  /\ LET id == InOrder(transaction.pending)[1]
     IN  /\ RemoveIntents({id}, DOMAIN byOwner)
         /\ transaction' = [transaction EXCEPT !.pending = @ \ {id},
                                               !.cancelled = @ \union {records[id]}]
  /\ UNCHANGED ghosts

\* A proposal of the bundle. When create_impl throws, only the rollback is left.
Propose(n) ==
  /\ Open
  /\ ~transaction.failed
  /\ transaction.pending = {}
  /\ Creatable(transaction.owner, n)
  /\ \/ /\ \E c \in Proposals :
             CreateIntent(Created(transaction.owner, c[1], c[2], c[3], n))
        /\ UNCHANGED transaction
     \/ /\ CreateUnrecorded \/ CreateOutOfSlots
        /\ transaction' = [transaction EXCEPT !.failed = TRUE]
  /\ UNCHANGED ghosts

\* Ids of a transaction are seen once it has been committed.
Commit ==
  /\ Open
  /\ ~transaction.failed
  /\ transaction.pending = {}
  /\ transaction' = Closed
  /\ issued' = issued \union intentTypes
  /\ UNCHANGED <<registry, described>>

\* The storages after rollback: created intents are destroyed, the nodes of
\* the cancelled ones are put back.
RestoreRecords ==
  LET kept == DOMAIN records \ (intentTypes \ transaction.intentTypes)
      restored == {c.id : c \in transaction.cancelled}
  IN  [id \in kept \union restored |->
         IF id \in restored THEN CHOOSE c \in transaction.cancelled : c.id = id
         ELSE records[id]]

\* Mutant of Rollback: the lifecycle records stay.
RollbackUntruncated ==
  /\ Open
  /\ records' = RestoreRecords
  /\ intentTypes' = transaction.intentTypes
  /\ availableSlots' = transaction.availableSlots
  /\ generations' = transaction.generations
  /\ nextSlot' = transaction.nextSlot
  /\ lastSequence' = transaction.lastSequence
  /\ byOwner' = transaction.byOwner
  /\ byOwnerName' = transaction.byOwnerName
  /\ byTarget' = transaction.byTarget
  /\ transaction' = Closed
  /\ UNCHANGED <<lifecycleRecords, ghosts>>

Rollback ==
  /\ Open
  /\ records' = RestoreRecords
  /\ intentTypes' = transaction.intentTypes
  /\ availableSlots' = transaction.availableSlots
  /\ generations' = transaction.generations
  /\ nextSlot' = transaction.nextSlot
  /\ lastSequence' = transaction.lastSequence
  /\ byOwner' = transaction.byOwner
  /\ byOwnerName' = transaction.byOwnerName
  /\ byTarget' = transaction.byTarget
  /\ lifecycleRecords' = SubSeq(lifecycleRecords, 1, transaction.lifecycleRecordCount)
  /\ transaction' = Closed
  /\ UNCHANGED ghosts

--------------------------------------------------------------------------------
Init ==
  /\ records = <<>> /\ intentTypes = {}
  /\ availableSlots = <<>> /\ generations = [k \in Slots |-> 1] /\ nextSlot = 1
  /\ lastSequence = 0 /\ lifecycleRecords = <<>>
  /\ byOwner = <<>> /\ byOwnerName = <<>> /\ byTarget = {}
  /\ transaction = Closed
  /\ issued = {} /\ described = {}

Next ==
  \/ \E o \in Owners :
       \/ CreateBehaviorPool(o)
       \/ DestroyOwnedBy(o)
       \/ \E n \in Names \union {NoName} : Create(o, n)
       \/ \E ids \in SUBSET intentTypes : BeginTransaction(o, ids)
  \/ \E id \in intentTypes : Destroy(id)
  \/ \E now \in Expirations : DestroyExpired(now)
  \/ ClearLifecycleRecords
  \/ Cancel
  \/ \E n \in Names \union {NoName} : Propose(n)
  \/ Commit
  \/ Rollback

Spec == Init /\ [][Next]_vars

--------------------------------------------------------------------------------
(* Selection *)

\* Mutant of Better: the first of equal priority wins.
BetterStrict(c, best) == c.priority > best.priority

\* The comparison of select().
Better(c, best) ==
  \/ c.priority > best.priority
  \/ c.priority = best.priority /\ c.sequence > best.sequence

\* The loop of select() over the intents of a target, in the order of handles:
\* the best of the first k.
BestOf(candidates) ==
  LET best[k \in DOMAIN candidates] ==
        IF k = 1 THEN candidates[1]
        ELSE IF Better(records[candidates[k]], records[best[k - 1]]) THEN candidates[k]
        ELSE best[k - 1]
  IN  best

Select(t) ==
  LET candidates == {e[2] : e \in {x \in byTarget : x[1] = t}}
  IN  BestOf(InOrder(candidates))[Cardinality(candidates)]

--------------------------------------------------------------------------------
(* Properties *)

\* Every part of the registry has its type: in particular no slot is handed out
\* beyond the pool and no generation passes its limit (next_intent_id,
\* retire_intent_id).
TypeOK ==
  /\ DOMAIN records \subseteq Ids /\ \A id \in DOMAIN records : records[id] \in Intents
  /\ intentTypes \subseteq Ids
  /\ availableSlots \in Seq(Slots)
  /\ generations \in [Slots -> 1..MaxGeneration]
  /\ nextSlot \in 1..(MaxIntents + 2)
  /\ lastSequence \in 0..MaxSequence
  /\ Len(lifecycleRecords) <= MaxBuffered
  /\ DOMAIN byOwner \subseteq Owners /\ \A o \in DOMAIN byOwner : byOwner[o] \subseteq Ids
  /\ DOMAIN byOwnerName \subseteq Owners \X Names
  /\ byTarget \subseteq Targets \X Ids
  /\ issued \subseteq Ids
  /\ described \subseteq Intents

\* The storages, intentTypes and the three indexes (by owner, by name, by
\* target) describe the same intents after every call, also in the middle of a
\* transaction and after its rollback has put back nodes and copies.
IndexesAgree ==
  /\ intentTypes = DOMAIN records
  /\ \A id \in DOMAIN records :
       records[id].id = id /\ records[id].owner \in DOMAIN byOwner
  /\ \A o \in DOMAIN byOwner :
       byOwner[o] = {id \in DOMAIN records : records[id].owner = o}
  /\ \A e \in DOMAIN byOwnerName :
       LET id == byOwnerName[e]
       IN  id \in DOMAIN records /\ records[id].owner = e[1] /\ records[id].name = e[2]
  /\ \A id \in DOMAIN records :
       records[id].name # NoName =>
         LET e == <<records[id].owner, records[id].name>>
         IN  e \in DOMAIN byOwnerName /\ byOwnerName[e] = id
  /\ byTarget = {<<records[id].target, id>> : id \in DOMAIN records}

\* No slot is lost or handed out twice: each is live, on the stack of free
\* slots once, not yet used, or retired because its generations ran out; a
\* creation that fails and one that is rolled back give theirs back.
SlotsConserved ==
  /\ IsInjective(availableSlots)
  /\ \A id \in intentTypes : id.generation = generations[id.slot]
  /\ \A k \in Slots :
       LET used == \E id \in intentTypes : id.slot = k
           free == k \in Range(availableSlots)
       IN  /\ ~(used /\ free)
           /\ k >= nextSlot => ~used /\ ~free
           /\ k < nextSlot /\ ~used /\ ~free => generations[k] = MaxGeneration

\* The registry is consistent after every call, inside and after transactions:
\* its indexes describe the same intents and every slot is accounted for.
Consistent == TypeOK /\ IndexesAgree /\ SlotsConserved

\* Outside of a transaction the lifecycle records, replayed onto what the
\* runtime has already taken, give exactly the live intents: rollback cuts the
\* records of its transaction and no others.
RecordsTellTheTruth ==
  ~Open => Replayed(described, lifecycleRecords) = LiveIntents

\* What select() finds is the newest of the intents of the highest priority of
\* a target, whatever slots they happen to occupy.
SelectsNewestOfHighest ==
  \A t \in {e[1] : e \in byTarget} :
    LET candidates == {i \in LiveIntents : i.target = t}
    IN  \A i \in candidates :
          \/ i.id = Select(t)
          \/ i.priority < records[Select(t)].priority
          \/ /\ i.priority = records[Select(t)].priority
             /\ i.sequence < records[Select(t)].sequence

\* The registry implements IntentStore: bundles are applied in one step, a
\* rollback shows nothing, a name is live once per owner, and a handle that
\* was ever seen never identifies another intent, through the recycling of
\* slots, failed creations and rollbacks.
Store ==
  INSTANCE IntentStore WITH
    live <- IF Open THEN Range(transaction.origin[1]) ELSE LiveIntents

IsIntentStore == Store!Spec
=============================================================================
