------------------------ MODULE IntentRegistryProofs ------------------------
(***************************************************************************)
(* The intent registry keeps its indexes, its slots and its records in     *)
(* agreement through failures and rollbacks, selects the newest intent of  *)
(* the highest priority, and implements IntentStore.                       *)
(***************************************************************************)
EXTENDS IntentRegistry, FiniteSetTheorems, FunctionTheorems, SequenceTheorems,
        WellFoundedInduction, TLAPS

-----------------------------------------------------------------------------
(* The order of handles *)

\* No two of the handles share a slot.
Apart(ids) == ids \subseteq Ids /\ \A x, y \in ids : x.slot = y.slot => x = y

Lower(ids, id) == {x \in ids : x.slot < id.slot}

LEMMA ApartSubset ==
  ASSUME NEW ids, Apart(ids), NEW some \in SUBSET ids
  PROVE  Apart(some)
BY DEF Apart

\* There are finitely many slots.
LEMMA ApartIsFinite ==
  ASSUME NEW ids, Apart(ids)
  PROVE  IsFiniteSet(ids)
<1> DEFINE f == [id \in ids |-> id.slot]
<1>1. f \in Injection(ids, Slots)
  BY DEF Injection, IsInjective, Apart, Ids
<1>2. IsFiniteSet(Slots)
  BY FS_Interval, RegistryAssumption DEF Slots
<1> QED
  BY <1>1, <1>2, FS_Injection

\* Higher slots come later.
LEMMA RankIncreases ==
  ASSUME NEW ids, Apart(ids), NEW x \in ids, NEW y \in ids, x.slot < y.slot
  PROVE  Rank(ids, x) < Rank(ids, y)
<1>1. IsFiniteSet(ids)
  BY ApartIsFinite
<1>2. \A z \in ids : z.slot \in Nat
  BY DEF Apart, Ids, Slots
<1>3. /\ Lower(ids, x) \cup {x} \in SUBSET Lower(ids, y)
      /\ x \notin Lower(ids, x)
      /\ Lower(ids, x) \in SUBSET ids
      /\ Lower(ids, y) \in SUBSET ids
  BY <1>2 DEF Lower
<1>4. IsFiniteSet(Lower(ids, x)) /\ IsFiniteSet(Lower(ids, y))
  BY <1>1, <1>3, FS_Subset
<1>5. Cardinality(Lower(ids, x) \cup {x}) = Cardinality(Lower(ids, x)) + 1
  BY <1>3, <1>4, FS_AddElement
<1>6. Cardinality(Lower(ids, x) \cup {x}) <= Cardinality(Lower(ids, y))
  BY <1>3, <1>4, FS_Subset
<1>7. Cardinality(Lower(ids, x)) \in Nat /\ Cardinality(Lower(ids, y)) \in Nat
  BY <1>4, FS_CardinalityType
<1>8. Rank(ids, x) = Cardinality(Lower(ids, x)) /\ Rank(ids, y) = Cardinality(Lower(ids, y))
  BY DEF Rank, Lower
<1> QED
  BY <1>5, <1>6, <1>7, <1>8

LEMMA RankInRange ==
  ASSUME NEW ids, Apart(ids), NEW x \in ids
  PROVE  Rank(ids, x) \in Nat /\ Rank(ids, x) < Cardinality(ids)
<1>1. IsFiniteSet(ids)
  BY ApartIsFinite
<1>2. x.slot \in Nat
  BY DEF Apart, Ids, Slots
<1>3. Lower(ids, x) \in SUBSET ids /\ x \notin Lower(ids, x)
  BY <1>2 DEF Lower
<1>4. /\ IsFiniteSet(Lower(ids, x))
      /\ Cardinality(Lower(ids, x)) <= Cardinality(ids)
      /\ Cardinality(ids) = Cardinality(Lower(ids, x)) => ids = Lower(ids, x)
  BY <1>1, <1>3, FS_Subset
<1>5. Cardinality(Lower(ids, x)) # Cardinality(ids)
  BY <1>3, <1>4
<1>6. Cardinality(Lower(ids, x)) \in Nat /\ Cardinality(ids) \in Nat
  BY <1>1, <1>4, FS_CardinalityType
<1>7. Rank(ids, x) = Cardinality(Lower(ids, x))
  BY DEF Rank, Lower
<1> QED
  BY <1>4, <1>5, <1>6, <1>7

LEMMA RankInjective ==
  ASSUME NEW ids, Apart(ids), NEW x \in ids, NEW y \in ids, Rank(ids, x) = Rank(ids, y)
  PROVE  x = y
<1>1. x.slot \in Nat /\ y.slot \in Nat
  BY DEF Apart, Ids, Slots
<1>2. ~(x.slot < y.slot)
  BY RankIncreases, RankInRange
<1>3. ~(y.slot < x.slot)
  BY RankIncreases, RankInRange
<1>4. x.slot = y.slot
  BY <1>1, <1>2, <1>3
<1> QED
  BY <1>4 DEF Apart

\* There is a handle for every place.
LEMMA RankSurjective ==
  ASSUME NEW ids, Apart(ids), NEW k \in 1..Cardinality(ids)
  PROVE  \E id \in ids : Rank(ids, id) = k - 1
<1> DEFINE n == Cardinality(ids)
           f == [id \in ids |-> Rank(ids, id)]
<1>1. IsFiniteSet(ids) /\ n \in Nat
  BY ApartIsFinite, FS_CardinalityType
<1>2. f \in [ids -> 0..(n - 1)]
  BY <1>1, RankInRange
<1>3. IsInjective(f)
  BY RankInjective DEF IsInjective
<1>4. f \in Injection(ids, 0..(n - 1))
  BY <1>2, <1>3 DEF Injection
<1>5. IsFiniteSet(0..(n - 1)) /\ Cardinality(0..(n - 1)) = n
  <2>1. 0 \in Int /\ n - 1 \in Int /\ (0 > n - 1 <=> n = 0) /\ (n - 1) - 0 + 1 = n
    BY <1>1
  <2> HIDE DEF n
  <2>2. /\ IsFiniteSet(0..(n - 1))
        /\ Cardinality(0..(n - 1)) = IF 0 > n - 1 THEN 0 ELSE (n - 1) - 0 + 1
    BY <2>1, FS_Interval
  <2> QED
    BY <2>1, <2>2
<1>6. f \in Surjection(ids, 0..(n - 1))
  BY <1>4, <1>5, FS_Injection
<1>7. k - 1 \in 0..(n - 1)
  BY <1>1
<1>8. \E id \in ids : f[id] = k - 1
  BY <1>6, <1>7 DEF Surjection
<1> QED
  BY <1>8

\* The order lists every handle once.
LEMMA InOrderProperties ==
  ASSUME NEW ids, Apart(ids)
  PROVE  /\ IsFiniteSet(ids)
         /\ Cardinality(ids) \in Nat
         /\ InOrder(ids) \in Seq(ids)
         /\ Len(InOrder(ids)) = Cardinality(ids)
         /\ DOMAIN InOrder(ids) = 1..Cardinality(ids)
         /\ \A k \in 1..Cardinality(ids) : Rank(ids, InOrder(ids)[k]) = k - 1
         /\ \A j, k \in 1..Cardinality(ids) : InOrder(ids)[j] = InOrder(ids)[k] => j = k
         /\ \A id \in ids : \E k \in 1..Cardinality(ids) : InOrder(ids)[k] = id
<1> DEFINE n == Cardinality(ids)
           s == InOrder(ids)
<1>1. IsFiniteSet(ids) /\ n \in Nat
  BY ApartIsFinite, FS_CardinalityType
<1>2. DOMAIN s = 1..n
  BY DEF InOrder
<1>3. \A k \in 1..n : s[k] \in ids /\ Rank(ids, s[k]) = k - 1
  <2> TAKE k \in 1..n
  <2>1. s[k] = CHOOSE id \in ids : Rank(ids, id) = k - 1
    BY DEF InOrder
  <2>2. \E id \in ids : Rank(ids, id) = k - 1
    BY RankSurjective
  <2> QED
    BY <2>1, <2>2
<1>4. s \in [1..n -> ids]
  <2>1. s = [k \in 1..n |-> CHOOSE id \in ids : Rank(ids, id) = k - 1]
    BY DEF InOrder
  <2> HIDE DEF s
  <2> QED
    BY <1>3, <2>1
<1>5. s \in Seq(ids) /\ Len(s) = n
  BY <1>1, <1>4, <1>2
<1>6. \A j, k \in 1..n : s[j] = s[k] => j = k
  <2> TAKE j, k \in 1..n
  <2>1. Rank(ids, s[j]) = j - 1 /\ Rank(ids, s[k]) = k - 1
    BY <1>3
  <2> HIDE DEF s
  <2> HAVE s[j] = s[k]
  <2> QED
    BY <2>1, <1>1
<1>7. \A id \in ids : \E k \in 1..n : s[k] = id
  <2> TAKE id \in ids
  <2>1. Rank(ids, id) \in Nat /\ Rank(ids, id) < n
    BY RankInRange
  <2>2. Rank(ids, id) + 1 \in 1..n /\ (Rank(ids, id) + 1) - 1 = Rank(ids, id)
    BY <2>1, <1>1
  <2>3. s[Rank(ids, id) + 1] \in ids /\ Rank(ids, s[Rank(ids, id) + 1]) = Rank(ids, id)
    BY <2>2, <1>3
  <2>4. s[Rank(ids, id) + 1] = id
    BY <2>3, RankInjective
  <2> QED
    BY <2>2, <2>4
<1> HIDE DEF s, n
<1>8. \A k \in 1..n : Rank(ids, s[k]) = k - 1
  BY <1>3
<1>9. IsFiniteSet(ids) /\ n \in Nat /\ s \in Seq(ids) /\ Len(s) = n /\ DOMAIN s = 1..n
  BY <1>1, <1>2, <1>5
<1> QED
  BY <1>6, <1>7, <1>8, <1>9 DEF s, n
-----------------------------------------------------------------------------
(* Slots and handles *)

\* Every slot is live, free, unused or worn out. A live handle has the
\* generation of its slot.
SlotsSound(ids, free, gens, next) ==
  /\ ids \subseteq Ids
  /\ free \in Seq(Slots)
  /\ gens \in [Slots -> 1..MaxGeneration]
  /\ next \in 1..(MaxIntents + 2)
  /\ \A i, j \in DOMAIN free : free[i] = free[j] => i = j
  /\ \A i \in DOMAIN free : free[i] < next
  /\ \A id \in ids :
       /\ id.generation = gens[id.slot]
       /\ id.slot < next
       /\ \A i \in DOMAIN free : free[i] # id.slot
  /\ \A k \in Slots :
       \/ k >= next
       \/ \E i \in DOMAIN free : free[i] = k
       \/ \E id \in ids : id.slot = k
       \/ gens[k] = MaxGeneration

\* A slot that can be taken has a generation nobody has seen.
Fresh(free, gens, next, seen) ==
  /\ seen \subseteq Ids
  /\ \A id \in seen :
       /\ id.generation <= gens[id.slot]
       /\ id.slot >= next => id.generation < gens[id.slot]
       /\ \A i \in DOMAIN free : free[i] = id.slot => id.generation < gens[id.slot]

LEMMA SoundIsApart ==
  ASSUME NEW ids, NEW free, NEW gens, NEW next, SlotsSound(ids, free, gens, next)
  PROVE  Apart(ids)
BY DEF SlotsSound, Apart, Ids

\* The slots once id has been taken: it is new, and from now on live and seen.
Taken(id, ids, seen, free, gens, next) ==
  /\ id \in Ids /\ id \notin ids /\ id \notin seen
  /\ SlotsSound(ids \cup {id}, free, gens, next)
  /\ Fresh(free, gens, next, seen \cup {id})

\* A slot that was never used is taken.
LEMMA TakeNew ==
  ASSUME NEW ids, NEW free, NEW gens, NEW next, NEW seen,
         SlotsSound(ids, free, gens, next), Fresh(free, gens, next, seen),
         next \in Slots, free = <<>>,
         NEW id, id = [slot |-> next, generation |-> gens[next]]
  PROVE  Taken(id, ids, seen, free, gens, next + 1)
<1>1. next \in Nat /\ MaxIntents \in Nat /\ next <= MaxIntents
  BY RegistryAssumption DEF Slots
<1>2. id \in Ids /\ id.slot = next /\ id.generation = gens[next]
  BY DEF Ids, SlotsSound
<1>3. id \notin ids
  BY <1>1, <1>2 DEF SlotsSound
<1>4. id \notin seen
  <2>1. \A x \in seen : x.slot = next => x.generation < gens[next]
    BY <1>1 DEF Fresh
  <2>2. gens[next] \in Nat
    BY RegistryAssumption DEF SlotsSound
  <2> QED
    BY <1>2, <2>1, <2>2
<1>5. SlotsSound(ids \cup {id}, free, gens, next + 1)
  <2>1. \A i \in DOMAIN free : FALSE
    OBVIOUS
  <2>2. next + 1 \in 1..(MaxIntents + 2)
    BY <1>1
  <2>3. \A x \in ids \cup {id} : x.generation = gens[x.slot] /\ x.slot < next + 1
    BY <1>1, <1>2 DEF SlotsSound, Ids, Slots
  <2>4. ASSUME NEW k \in Slots
        PROVE  \/ k >= next + 1
               \/ \E x \in ids \cup {id} : x.slot = k
               \/ gens[k] = MaxGeneration
    <3>1. CASE k = next
      BY <3>1, <1>2
    <3>2. CASE k > next
      BY <3>2, <1>1 DEF Slots
    <3>3. CASE k < next
      BY <3>3, <1>1, <2>1 DEF SlotsSound, Slots
    <3> QED
      BY <3>1, <3>2, <3>3, <1>1 DEF Slots
  <2> QED
    BY <1>2, <2>1, <2>2, <2>3, <2>4 DEF SlotsSound
<1>6. Fresh(free, gens, next + 1, seen \cup {id})
  <2>1. \A i \in DOMAIN free : FALSE
    OBVIOUS
  <2>2. \A x \in seen : x \in Ids /\ x.slot \in Nat /\ x.generation \in Nat /\ gens[x.slot] \in Nat
    BY RegistryAssumption DEF Fresh, Ids, Slots, SlotsSound
  <2>3. \A x \in seen : x.slot >= next + 1 => x.generation < gens[x.slot]
    BY <1>1, <2>2 DEF Fresh
  <2>4. gens[next] \in Nat
    BY DEF SlotsSound
  <2>5. id.generation <= gens[id.slot] /\ ~(id.slot >= next + 1)
    BY <1>1, <1>2, <2>4
  <2> QED
    BY <1>2, <2>1, <2>2, <2>3, <2>5 DEF Fresh
<1> QED
  BY <1>2, <1>3, <1>4, <1>5, <1>6 DEF Taken

\* The last free slot is taken.
LEMMA TakeFree ==
  ASSUME NEW ids, NEW free, NEW gens, NEW next, NEW seen,
         SlotsSound(ids, free, gens, next), Fresh(free, gens, next, seen),
         free # <<>>,
         NEW id, id = [slot |-> Last(free), generation |-> gens[Last(free)]]
  PROVE  /\ id \in Ids /\ id \notin ids /\ id \notin seen
         /\ SlotsSound(ids \cup {id}, Front(free), gens, next)
         /\ Fresh(Front(free), gens, next, seen \cup {id})
<1> DEFINE rest == Front(free)
           n == Len(free)
           slot == Last(free)
<1>0. id = [slot |-> slot, generation |-> gens[slot]]
  OBVIOUS
<1>1. free \in Seq(Slots) /\ n \in Nat \ {0} /\ DOMAIN free = 1..n
  BY DEF SlotsSound
<1>2. slot = free[n] /\ n \in DOMAIN free /\ slot \in Slots
  BY <1>1 DEF Last
<1> HIDE DEF slot
<1>3. rest \in Seq(Slots) /\ DOMAIN rest = 1..(n - 1) /\ \A i \in 1..(n - 1) : rest[i] = free[i]
  BY <1>1 DEF Front
<1>4. gens \in [Slots -> 1..MaxGeneration] /\ next \in Nat /\ MaxGeneration \in Nat
  BY RegistryAssumption DEF SlotsSound
<1>5. id \in Ids /\ id.slot = slot /\ id.generation = gens[slot]
  BY <1>0, <1>2, <1>4 DEF Ids
<1>6. id \notin ids
  BY <1>2, <1>5 DEF SlotsSound
<1>7. id \notin seen
  <2>1. \A x \in seen : x.slot = slot => x.generation < gens[slot]
    BY <1>2 DEF Fresh
  <2>2. gens[slot] \in Nat
    BY <1>2, <1>4
  <2> QED
    BY <1>5, <2>1, <2>2
<1> HIDE DEF rest, n
<1>8. \A i \in DOMAIN rest : i \in DOMAIN free /\ rest[i] = free[i] /\ rest[i] # slot
  <2>1. \A i, j \in DOMAIN free : free[i] = free[j] => i = j
    BY DEF SlotsSound
  <2>2. \A i \in 1..(n - 1) : i \in 1..n /\ i # n
    BY <1>1
  <2> QED
    BY <1>1, <1>2, <1>3, <2>1, <2>2
<1>9. \A i \in DOMAIN free : free[i] = slot \/ (i \in DOMAIN rest /\ rest[i] = free[i])
  BY <1>1, <1>2, <1>3
<1>10. SlotsSound(ids \cup {id}, rest, gens, next)
  <2>1. \A i, j \in DOMAIN rest : rest[i] = rest[j] => i = j
    BY <1>8 DEF SlotsSound
  <2>2. \A i \in DOMAIN rest : rest[i] < next
    BY <1>8 DEF SlotsSound
  <2>3. ASSUME NEW x \in ids \cup {id}
        PROVE  /\ x.generation = gens[x.slot]
               /\ x.slot < next
               /\ \A i \in DOMAIN rest : rest[i] # x.slot
    <3>1. CASE x \in ids
      BY <3>1, <1>8 DEF SlotsSound
    <3>2. CASE x = id
      BY <3>2, <1>2, <1>5, <1>8 DEF SlotsSound
    <3> QED
      BY <3>1, <3>2
  <2>4. ASSUME NEW k \in Slots
        PROVE  \/ k >= next
               \/ \E i \in DOMAIN rest : rest[i] = k
               \/ \E x \in ids \cup {id} : x.slot = k
               \/ gens[k] = MaxGeneration
    <3>1. CASE k = slot
      BY <3>1, <1>5
    <3>2. CASE k # slot
      BY <3>2, <1>9 DEF SlotsSound
    <3> QED
      BY <3>1, <3>2
  <2>5. next \in 1..(MaxIntents + 2) /\ ids \cup {id} \subseteq Ids
    BY <1>5 DEF SlotsSound
  <2> QED
    BY <1>3, <1>4, <2>1, <2>2, <2>3, <2>4, <2>5 DEF SlotsSound
<1>11. Fresh(rest, gens, next, seen \cup {id})
  <2>1. seen \cup {id} \subseteq Ids
    BY <1>5 DEF Fresh
  <2>2. ASSUME NEW x \in seen
        PROVE  /\ x.generation <= gens[x.slot]
               /\ x.slot >= next => x.generation < gens[x.slot]
               /\ \A i \in DOMAIN rest : rest[i] = x.slot => x.generation < gens[x.slot]
    BY <1>8 DEF Fresh
  <2>3. /\ id.generation <= gens[id.slot]
        /\ ~(id.slot >= next)
        /\ \A i \in DOMAIN rest : rest[i] # id.slot
    <3>1. gens[slot] \in Nat /\ slot \in Nat /\ slot < next
      BY <1>2, <1>4 DEF SlotsSound, Slots
    <3> QED
      BY <3>1, <1>4, <1>5, <1>8
  <2> QED
    BY <2>1, <2>2, <2>3 DEF Fresh
<1> QED
  BY <1>5, <1>6, <1>7, <1>10, <1>11 DEF rest
\* A creation that fails gives its slot back: on the stack or, when it is the
\* highest one, as unused.
LEMMA GiveBack ==
  ASSUME NEW ids, NEW free, NEW gens, NEW next, NEW seen,
         SlotsSound(ids, free, gens, next), Fresh(free, gens, next, seen),
         free # <<>>, Last(free) + 1 = next
  PROVE  /\ SlotsSound(ids, Front(free), gens, next - 1)
         /\ Fresh(Front(free), gens, next - 1, seen)
<1> DEFINE rest == Front(free)
           n == Len(free)
           slot == Last(free)
<1>1. free \in Seq(Slots) /\ n \in Nat \ {0} /\ DOMAIN free = 1..n
  BY DEF SlotsSound
<1>2. slot = free[n] /\ n \in DOMAIN free /\ slot \in Slots /\ slot \in Nat /\ slot >= 1
  <2>1. slot = free[n] /\ n \in DOMAIN free /\ slot \in Slots
    BY <1>1 DEF Last
  <2>2. \A k \in Slots : k \in Nat /\ k >= 1
    BY DEF Slots
  <2> HIDE DEF slot
  <2> QED
    BY <2>1, <2>2
<1>3. rest \in Seq(Slots) /\ DOMAIN rest = 1..(n - 1) /\ \A i \in 1..(n - 1) : rest[i] = free[i]
  BY <1>1 DEF Front
<1>4. gens \in [Slots -> 1..MaxGeneration] /\ next \in 1..(MaxIntents + 2)
  BY DEF SlotsSound
<1>5. next - 1 = slot
  <2>1. slot + 1 = next
    OBVIOUS
  <2> HIDE DEF slot
  <2> QED
    BY <1>2, <2>1
<1> HIDE DEF rest, n, slot
<1>6. \A i \in DOMAIN rest : i \in DOMAIN free /\ rest[i] = free[i] /\ rest[i] # slot
  <2>1. \A i, j \in DOMAIN free : free[i] = free[j] => i = j
    BY DEF SlotsSound
  <2>2. \A i \in 1..(n - 1) : i \in 1..n /\ i # n
    BY <1>1
  <2> QED
    BY <1>1, <1>2, <1>3, <2>1, <2>2
<1>7. \A i \in DOMAIN free : free[i] = slot \/ (i \in DOMAIN rest /\ rest[i] = free[i])
  BY <1>1, <1>2, <1>3
<1>8. \A k \in Slots : k \in Nat /\ (k < next /\ k # slot => k < slot)
  BY <1>2, <1>4, <1>5, RegistryAssumption DEF Slots
<1>9. SlotsSound(ids, rest, gens, slot)
  <2>1. \A i, j \in DOMAIN rest : rest[i] = rest[j] => i = j
    BY <1>6 DEF SlotsSound
  <2>2. \A i \in DOMAIN rest : rest[i] \in Slots /\ rest[i] < slot
    BY <1>3, <1>6, <1>8 DEF SlotsSound
  <2>3. ASSUME NEW x \in ids
        PROVE  /\ x.generation = gens[x.slot]
               /\ x.slot < slot
               /\ \A i \in DOMAIN rest : rest[i] # x.slot
    <3>1. x.slot \in Slots /\ x.slot < next /\ x.slot # slot
      BY <1>2 DEF SlotsSound, Ids
    <3> QED
      BY <3>1, <1>6, <1>8 DEF SlotsSound
  <2>4. ASSUME NEW k \in Slots
        PROVE  \/ k >= slot
               \/ \E i \in DOMAIN rest : rest[i] = k
               \/ \E x \in ids : x.slot = k
               \/ gens[k] = MaxGeneration
    <3>1. CASE k = slot
      BY <3>1, <1>2
    <3>2. CASE k # slot /\ k >= next
      BY <3>2, <1>2, <1>4, <1>5, <1>8
    <3>3. CASE k # slot /\ ~(k >= next)
      BY <3>3, <1>7 DEF SlotsSound
    <3> QED
      BY <3>1, <3>2, <3>3
  <2>5. slot \in 1..(MaxIntents + 2) /\ ids \subseteq Ids
    BY <1>2, RegistryAssumption DEF SlotsSound, Slots
  <2> QED
    BY <1>3, <1>4, <2>1, <2>2, <2>3, <2>4, <2>5 DEF SlotsSound
<1>10. Fresh(rest, gens, slot, seen)
  <2>1. ASSUME NEW x \in seen
        PROVE  /\ x.generation <= gens[x.slot]
               /\ x.slot >= slot => x.generation < gens[x.slot]
               /\ \A i \in DOMAIN rest : rest[i] = x.slot => x.generation < gens[x.slot]
    <3>1. x.slot \in Slots
      BY DEF Fresh, Ids
    <3>2. CASE x.slot = slot
      BY <3>2, <1>2, <1>6 DEF Fresh
    <3>3. CASE x.slot # slot
      <4>1. x.slot >= slot => x.slot >= next
        <5>1. next = slot + 1
          BY <1>2, <1>4, <1>5
        <5>2. x.slot \in Nat
          BY <3>1, <1>8
        <5> QED
          BY <3>3, <5>1, <5>2, <1>2
      <4> QED
        BY <4>1, <1>6 DEF Fresh
    <3> QED
      BY <3>2, <3>3
  <2> QED
    BY <2>1 DEF Fresh
<1> QED
  BY <1>5, <1>9, <1>10 DEF rest, slot

LEMMA PutBack ==
  ASSUME NEW ids, NEW free, NEW gens, NEW next, SlotsSound(ids, free, gens, next),
         free # <<>>
  PROVE  Append(Front(free), Last(free)) = free
<1>1. free \in Seq(Slots) /\ Len(free) \in Nat \ {0}
  BY DEF SlotsSound
<1> QED
  BY <1>1 DEF Front, Last

LEMMA TakeAndRelease ==
  ASSUME NEW ids, NEW seen,
         SlotsSound(ids, availableSlots, generations, nextSlot),
         Fresh(availableSlots, generations, nextSlot, seen),
         TakeAndReleaseId
  PROVE  /\ SlotsSound(ids, availableSlots', generations', nextSlot')
         /\ Fresh(availableSlots', generations', nextSlot', seen)
<1>1. nextSlot \in Nat
  BY RegistryAssumption DEF SlotsSound
<1>2. CASE availableSlots = <<>>
  <2>1. NextSlot + 1 = nextSlot + 1
    BY <1>2 DEF NextSlot
  <2>2. nextSlot' = (nextSlot + 1) - 1 /\ availableSlots' = <<>> /\ generations' = generations
    BY <1>2, <2>1 DEF TakeAndReleaseId
  <2>3. nextSlot' = nextSlot /\ availableSlots' = availableSlots
    BY <1>1, <1>2, <2>2
  <2> QED
    BY <2>2, <2>3
<1>3. CASE availableSlots # <<>> /\ Last(availableSlots) + 1 = nextSlot
  <2>1. /\ nextSlot' = nextSlot - 1
        /\ availableSlots' = Front(availableSlots)
        /\ generations' = generations
    BY <1>3 DEF TakeAndReleaseId, NextSlot
  <2> QED
    BY <1>3, <2>1, GiveBack
<1>4. CASE availableSlots # <<>> /\ Last(availableSlots) + 1 # nextSlot
  <2>1. /\ nextSlot' = nextSlot
        /\ availableSlots' = Append(Front(availableSlots), Last(availableSlots))
        /\ generations' = generations
    BY <1>4 DEF TakeAndReleaseId, NextSlot
  <2>2. availableSlots' = availableSlots
    BY <1>4, <2>1, PutBack
  <2> QED
    BY <2>1, <2>2
<1> QED
  BY <1>2, <1>3, <1>4

\* next_intent_id.
LEMMA Take ==
  ASSUME NEW ids, NEW seen,
         SlotsSound(ids, availableSlots, generations, nextSlot),
         Fresh(availableSlots, generations, nextSlot, seen),
         NextSlot \in Slots, TakeId
  PROVE  /\ NextId \in Ids /\ NextId \notin ids /\ NextId \notin seen
         /\ SlotsSound(ids \cup {NextId}, availableSlots', generations', nextSlot')
         /\ Fresh(availableSlots', generations', nextSlot', seen \cup {NextId})
<1>1. CASE availableSlots = <<>>
  <2>1. NextSlot = nextSlot /\ NextId = [slot |-> nextSlot, generation |-> generations[nextSlot]]
    BY <1>1 DEF NextSlot, NextId
  <2>2. /\ nextSlot' = nextSlot + 1
        /\ availableSlots' = availableSlots
        /\ generations' = generations
    BY <1>1 DEF TakeId
  <2>3. /\ NextId \in Ids /\ NextId \notin ids /\ NextId \notin seen
        /\ SlotsSound(ids \cup {NextId}, availableSlots, generations, nextSlot + 1)
        /\ Fresh(availableSlots, generations, nextSlot + 1, seen \cup {NextId})
    <3> DEFINE id == NextId
    <3>1. nextSlot \in Slots
      BY <2>1
    <3>2. id = [slot |-> nextSlot, generation |-> generations[nextSlot]]
      BY <2>1
    <3> HIDE DEF id
    <3>3. Taken(id, ids, seen, availableSlots, generations, nextSlot + 1)
      BY <1>1, <3>1, <3>2, TakeNew
    <3>4. /\ id \in Ids /\ id \notin ids /\ id \notin seen
          /\ SlotsSound(ids \cup {id}, availableSlots, generations, nextSlot + 1)
          /\ Fresh(availableSlots, generations, nextSlot + 1, seen \cup {id})
      BY <3>3 DEF Taken
    <3> QED
      BY <3>4 DEF id
  <2> QED
    BY <2>2, <2>3
<1>2. CASE availableSlots # <<>>
  <2>1. NextId = [slot |-> Last(availableSlots), generation |-> generations[Last(availableSlots)]]
    BY <1>2 DEF NextSlot, NextId
  <2>2. /\ nextSlot' = nextSlot
        /\ availableSlots' = Front(availableSlots)
        /\ generations' = generations
    BY <1>2 DEF TakeId
  <2>3. /\ NextId \in Ids /\ NextId \notin ids /\ NextId \notin seen
        /\ SlotsSound(ids \cup {NextId}, Front(availableSlots), generations, nextSlot)
        /\ Fresh(Front(availableSlots), generations, nextSlot, seen \cup {NextId})
    BY <1>2, <2>1, TakeFree
  <2> QED
    BY <2>2, <2>3
<1> QED
  BY <1>1, <1>2

\* next_intent_id has no slot left.
LEMMA OutOfSlots ==
  ASSUME NEW ids, NEW seen,
         SlotsSound(ids, availableSlots, generations, nextSlot),
         Fresh(availableSlots, generations, nextSlot, seen),
         NextSlot = MaxIntents + 1, TakeId
  PROVE  /\ SlotsSound(ids, availableSlots', generations', nextSlot')
         /\ Fresh(availableSlots', generations', nextSlot', seen)
<1>1. availableSlots = <<>>
  <2>1. SUFFICES ASSUME availableSlots # <<>>
                 PROVE  FALSE
    OBVIOUS
  <2>2. Last(availableSlots) = MaxIntents + 1
    BY <2>1 DEF NextSlot
  <2>3. Last(availableSlots) \in Slots
    <3>1. availableSlots \in Seq(Slots) /\ Len(availableSlots) \in 1..Len(availableSlots)
      BY <2>1 DEF SlotsSound
    <3> QED
      BY <3>1 DEF Last
  <2>4. MaxIntents + 1 \notin Slots
    BY RegistryAssumption DEF Slots
  <2> QED
    BY <2>2, <2>3, <2>4
<1>2. /\ nextSlot = MaxIntents + 1
      /\ nextSlot' = nextSlot + 1
      /\ availableSlots' = availableSlots
      /\ generations' = generations
  BY <1>1 DEF NextSlot, TakeId
<1>3. nextSlot' \in 1..(MaxIntents + 2) /\ nextSlot \in Nat
  BY <1>2, RegistryAssumption
<1>4. \A k \in Slots : k \in Nat /\ ~(k >= nextSlot) /\ k < nextSlot'
  BY <1>2, RegistryAssumption DEF Slots
<1>5. \A i \in DOMAIN availableSlots : FALSE
  BY <1>1
<1>6. SlotsSound(ids, availableSlots, generations, nextSlot')
  BY <1>3, <1>4, <1>5 DEF SlotsSound, Ids
<1>7. Fresh(availableSlots, generations, nextSlot', seen)
  BY <1>4, <1>5, <1>3 DEF Fresh, Ids
<1> QED
  BY <1>2, <1>6, <1>7
\* The slots of the handles that are recycled when gone are retired.
Recycled(gone, gens) == {id \in gone : gens[id.slot] < MaxGeneration}
RecycledSlots(gone, gens) ==
  [k \in DOMAIN InOrder(Recycled(gone, gens)) |-> InOrder(Recycled(gone, gens))[k].slot]
Older(gone, gens) ==
  [k \in Slots |-> IF \E id \in Recycled(gone, gens) : id.slot = k THEN gens[k] + 1 ELSE gens[k]]

LEMMA RecycledProperties ==
  ASSUME NEW gone, Apart(gone), NEW gens
  PROVE  /\ RecycledSlots(gone, gens) \in Seq(Slots)
         /\ \A i, j \in DOMAIN RecycledSlots(gone, gens) :
              RecycledSlots(gone, gens)[i] = RecycledSlots(gone, gens)[j] => i = j
         /\ \A i \in DOMAIN RecycledSlots(gone, gens) :
              \E id \in Recycled(gone, gens) : id.slot = RecycledSlots(gone, gens)[i]
         /\ \A id \in Recycled(gone, gens) :
              \E i \in DOMAIN RecycledSlots(gone, gens) : id.slot = RecycledSlots(gone, gens)[i]
<1> DEFINE ids == Recycled(gone, gens)
           s == InOrder(ids)
           t == RecycledSlots(gone, gens)
           n == Cardinality(ids)
<1>1. ids \in SUBSET gone
  BY DEF Recycled
<1>2. Apart(ids)
  BY <1>1, ApartSubset
<1>3. t = [k \in DOMAIN s |-> s[k].slot]
  BY DEF RecycledSlots
<1> HIDE DEF ids, t
<1>4. n \in Nat /\ s \in Seq(ids) /\ Len(s) = n /\ DOMAIN s = 1..n
  BY <1>2, InOrderProperties
<1>5. \A j, k \in 1..n : s[j] = s[k] => j = k
  BY <1>2, InOrderProperties
<1>6. \A id \in ids : \E k \in 1..n : s[k] = id
  BY <1>2, InOrderProperties
<1> HIDE DEF s, n
<1>7. DOMAIN t = 1..n /\ \A k \in 1..n : t[k] = s[k].slot
  BY <1>3, <1>4
<1>8. \A k \in 1..n : s[k] \in ids
  BY <1>4
<1>9. \A x, y \in ids : x.slot \in Slots /\ (x.slot = y.slot => x = y)
  BY <1>2 DEF Apart, Ids
<1>10. t \in Seq(Slots)
  <2>1. t \in [1..n -> Slots]
    BY <1>3, <1>4, <1>8, <1>9
  <2> QED
    BY <2>1, <1>4
<1>11. \A i, j \in DOMAIN t : t[i] = t[j] => i = j
  BY <1>5, <1>7, <1>8, <1>9
<1>12. \A i \in DOMAIN t : \E id \in ids : id.slot = t[i]
  BY <1>7, <1>8
<1>13. \A id \in ids : \E i \in DOMAIN t : id.slot = t[i]
  BY <1>6, <1>7
<1> QED
  BY <1>10, <1>11, <1>12, <1>13 DEF t, ids

\* retire_intent_id, for live handles.
LEMMA Retire ==
  ASSUME NEW ids, NEW free, NEW gens, NEW next, NEW seen,
         SlotsSound(ids, free, gens, next), Fresh(free, gens, next, seen),
         NEW gone \in SUBSET ids
  PROVE  /\ SlotsSound(ids \ gone, free \o RecycledSlots(gone, gens), Older(gone, gens), next)
         /\ Fresh(free \o RecycledSlots(gone, gens), Older(gone, gens), next, seen)
<1> DEFINE old == Recycled(gone, gens)
           t == RecycledSlots(gone, gens)
           more == free \o t
           gens2 == Older(gone, gens)
<1>1. Apart(ids) /\ Apart(gone)
  BY SoundIsApart, ApartSubset
<1>2. /\ t \in Seq(Slots)
      /\ \A i, j \in DOMAIN t : t[i] = t[j] => i = j
      /\ \A i \in DOMAIN t : \E id \in old : id.slot = t[i]
      /\ \A id \in old : \E i \in DOMAIN t : id.slot = t[i]
  BY <1>1, RecycledProperties
<1>3. free \in Seq(Slots)
  BY DEF SlotsSound
<1>4. old \subseteq gone /\ \A id \in gone : id \in old \/ ~(gens[id.slot] < MaxGeneration)
  BY DEF Recycled
<1>5. \A id \in old : gens[id.slot] < MaxGeneration
  BY DEF Recycled
<1>6. gens2 = [k \in Slots |-> IF \E id \in old : id.slot = k THEN gens[k] + 1 ELSE gens[k]]
  BY DEF Older
<1> HIDE DEF t, old, gens2
<1>7. /\ more \in Seq(Slots)
      /\ Len(more) = Len(free) + Len(t)
      /\ \A i \in 1..(Len(free) + Len(t)) :
           more[i] = IF i <= Len(free) THEN free[i] ELSE t[i - Len(free)]
  BY <1>2, <1>3, ConcatProperties
<1> HIDE DEF more
<1>8. \A i \in DOMAIN free : i \in DOMAIN more /\ more[i] = free[i]
  BY <1>2, <1>3, <1>7
<1>9. \A i \in DOMAIN t : \E j \in DOMAIN more : more[j] = t[i]
  <2> TAKE i \in DOMAIN t
  <2>1. i \in Nat /\ i >= 1 /\ i <= Len(t) /\ Len(free) \in Nat /\ Len(t) \in Nat
    BY <1>2, <1>3
  <2>2. /\ i + Len(free) \in 1..(Len(free) + Len(t))
        /\ ~(i + Len(free) <= Len(free))
        /\ (i + Len(free)) - Len(free) = i
    BY <2>1
  <2>3. more[i + Len(free)] = t[i] /\ i + Len(free) \in DOMAIN more
    BY <1>7, <2>2
  <2> QED
    BY <2>3
<1>10. ASSUME NEW i \in DOMAIN more
       PROVE  \/ i \in DOMAIN free /\ more[i] = free[i]
              \/ i - Len(free) \in DOMAIN t /\ more[i] = t[i - Len(free)]
  <2>1. i \in 1..(Len(free) + Len(t)) /\ Len(free) \in Nat /\ Len(t) \in Nat
    BY <1>2, <1>3, <1>7
  <2>2. CASE i <= Len(free)
    <3>1. i \in DOMAIN free
      BY <2>1, <2>2, <1>3
    <3> QED
      BY <3>1, <1>8
  <2>3. CASE ~(i <= Len(free))
    <3>1. i - Len(free) \in 1..Len(t)
      BY <2>1, <2>3
    <3>2. DOMAIN t = 1..Len(t)
      BY <1>2
    <3>3. more[i] = t[i - Len(free)]
      BY <2>1, <2>3, <1>7
    <3> QED
      BY <3>1, <3>2, <3>3
  <2> QED
    BY <2>2, <2>3
<1>11. \A id \in ids : id \in Ids /\ id.slot \in Slots /\ id.slot < next /\ id.generation = gens[id.slot]
  BY DEF SlotsSound, Ids
<1>12. \A x, y \in ids : x.slot = y.slot => x = y
  BY <1>1 DEF Apart
<1>13. gens \in [Slots -> 1..MaxGeneration] /\ MaxGeneration \in Nat
  BY RegistryAssumption DEF SlotsSound
<1>14. gens2 \in [Slots -> 1..MaxGeneration]
  <2>1. ASSUME NEW k \in Slots
        PROVE  (IF \E id \in old : id.slot = k THEN gens[k] + 1 ELSE gens[k]) \in 1..MaxGeneration
    BY <1>5, <1>13
  <2> QED
    BY <1>6, <2>1
<1>15. \A k \in Slots : gens2[k] \in Nat /\ gens[k] \in Nat /\ gens[k] <= gens2[k]
  BY <1>6, <1>13
<1>16. \A id \in old : gens2[id.slot] = gens[id.slot] + 1
  BY <1>4, <1>6, <1>11
<1>17. \A k \in Slots : (\A id \in old : id.slot # k) => gens2[k] = gens[k]
  BY <1>6
<1>18. SlotsSound(ids \ gone, more, gens2, next)
  <2>1. ASSUME NEW i \in DOMAIN more, NEW j \in DOMAIN more, more[i] = more[j]
        PROVE  i = j
    <3>1. \A x \in DOMAIN free, y \in DOMAIN t : free[x] # t[y]
      <4>1. \A id \in ids : \A x \in DOMAIN free : free[x] # id.slot
        BY DEF SlotsSound
      <4> QED
        BY <4>1, <1>2, <1>4
    <3>2. \A x, y \in DOMAIN free : free[x] = free[y] => x = y
      BY DEF SlotsSound
    <3>3. i \in Nat /\ j \in Nat /\ Len(free) \in Nat
      BY <1>3, <1>7
    <3>4. CASE i \in DOMAIN free /\ more[i] = free[i]
      BY <2>1, <3>1, <3>2, <3>4, <1>10
    <3>5. CASE i - Len(free) \in DOMAIN t /\ more[i] = t[i - Len(free)]
      <4>1. j - Len(free) \in DOMAIN t /\ more[j] = t[j - Len(free)]
        BY <2>1, <3>1, <3>5, <1>10
      <4>2. i - Len(free) = j - Len(free)
        BY <2>1, <3>5, <4>1, <1>2
      <4> QED
        BY <4>2, <3>3
    <3> QED
      BY <3>4, <3>5, <1>10
  <2>2. ASSUME NEW i \in DOMAIN more
        PROVE  more[i] < next
    <3>1. \A x \in DOMAIN free : free[x] < next
      BY DEF SlotsSound
    <3>2. \A x \in DOMAIN t : t[x] < next
      BY <1>2, <1>4, <1>11
    <3> QED
      BY <3>1, <3>2, <1>10
  <2>3. ASSUME NEW x \in ids \ gone
        PROVE  /\ x.generation = gens2[x.slot]
               /\ x.slot < next
               /\ \A i \in DOMAIN more : more[i] # x.slot
    <3>1. \A id \in old : id.slot # x.slot
      BY <1>4, <1>12
    <3>2. \A i \in DOMAIN free : free[i] # x.slot
      BY DEF SlotsSound
    <3>3. \A i \in DOMAIN t : t[i] # x.slot
      BY <1>2, <3>1
    <3>4. \A i \in DOMAIN more : more[i] # x.slot
      BY <1>10, <3>2, <3>3
    <3> QED
      BY <3>1, <3>4, <1>11, <1>17
  <2>4. ASSUME NEW k \in Slots
        PROVE  \/ k >= next
               \/ \E i \in DOMAIN more : more[i] = k
               \/ \E id \in ids \ gone : id.slot = k
               \/ gens2[k] = MaxGeneration
    <3>1. CASE k >= next
      BY <3>1
    <3>2. CASE \E i \in DOMAIN free : free[i] = k
      BY <3>2, <1>8
    <3>3. CASE \E id \in ids : id.slot = k
      <4>1. PICK id \in ids : id.slot = k
        BY <3>3
      <4>2. CASE id \notin gone
        BY <4>1, <4>2
      <4>3. CASE id \in old
        BY <4>1, <4>3, <1>2, <1>9
      <4>4. CASE id \in gone /\ id \notin old
        <5>1. gens[k] = MaxGeneration
          BY <4>1, <4>4, <1>4, <1>13
        <5>2. \A y \in old : y.slot # k
          BY <4>1, <4>4, <1>4, <1>12
        <5> QED
          BY <5>1, <5>2, <1>17
      <4> QED
        BY <4>2, <4>3, <4>4
    <3>4. CASE gens[k] = MaxGeneration /\ \A id \in ids : id.slot # k
      BY <3>4, <1>4, <1>17
    <3> QED
      BY <3>1, <3>2, <3>3, <3>4 DEF SlotsSound
  <2>5. next \in 1..(MaxIntents + 2) /\ ids \ gone \subseteq Ids
    BY DEF SlotsSound
  <2> QED
    BY <1>7, <1>14, <2>1, <2>2, <2>3, <2>4, <2>5 DEF SlotsSound
<1>19. Fresh(more, gens2, next, seen)
  <2>1. ASSUME NEW x \in seen
        PROVE  /\ x.generation <= gens2[x.slot]
               /\ x.slot >= next => x.generation < gens2[x.slot]
               /\ \A i \in DOMAIN more : more[i] = x.slot => x.generation < gens2[x.slot]
    <3>1. x.slot \in Slots /\ x.generation \in Nat /\ x.generation <= gens[x.slot]
      <4>1. x \in Ids /\ x.generation <= gens[x.slot]
        BY DEF Fresh
      <4> QED
        BY <4>1 DEF Ids
    <3>2. gens2[x.slot] \in Nat /\ gens[x.slot] \in Nat /\ gens[x.slot] <= gens2[x.slot]
      BY <3>1, <1>15
    <3>3. x.slot >= next => x.generation < gens2[x.slot]
      BY <3>1, <3>2 DEF Fresh
    <3>4. ASSUME NEW i \in DOMAIN more, more[i] = x.slot
          PROVE  x.generation < gens2[x.slot]
      <4>1. CASE i \in DOMAIN free /\ more[i] = free[i]
        <5>1. x.generation < gens[x.slot]
          BY <3>4, <4>1 DEF Fresh
        <5> QED
          BY <5>1, <3>1, <3>2
      <4>2. CASE i - Len(free) \in DOMAIN t /\ more[i] = t[i - Len(free)]
        <5>1. PICK id \in old : id.slot = x.slot
          BY <3>4, <4>2, <1>2
        <5>2. gens2[x.slot] = gens[x.slot] + 1
          BY <5>1, <1>16
        <5> QED
          BY <5>2, <3>1, <3>2
      <4> QED
        BY <4>1, <4>2, <1>10
    <3> QED
      BY <3>1, <3>2, <3>3, <3>4
  <2> QED
    BY <2>1 DEF Fresh
<1> QED
  BY <1>18, <1>19 DEF more, gens2, t

-----------------------------------------------------------------------------
(* Records and indexes *)

RecordsTyped(recs) ==
  /\ recs \in [DOMAIN recs -> Intents]
  /\ \A id \in DOMAIN recs : recs[id].id = id

OwnersIndexed(recs, own) ==
  /\ DOMAIN own \subseteq Owners
  /\ \A id \in DOMAIN recs : recs[id].owner \in DOMAIN own
  /\ \A o \in DOMAIN own : own[o] = {id \in DOMAIN recs : recs[id].owner = o}

NamesIndexed(recs, names) ==
  /\ DOMAIN names \subseteq Owners \X Names
  /\ \A e \in DOMAIN names :
       /\ names[e] \in DOMAIN recs
       /\ recs[names[e]].owner = e[1]
       /\ recs[names[e]].name = e[2]
  /\ \A id \in DOMAIN recs :
       recs[id].name # NoName =>
         /\ <<recs[id].owner, recs[id].name>> \in DOMAIN names
         /\ names[<<recs[id].owner, recs[id].name>>] = id

TargetsIndexed(recs, target) == target = {<<recs[id].target, id>> : id \in DOMAIN recs}

\* Sequence numbers are given once and in order.
Sequenced(recs, last) ==
  /\ last \in 0..MaxSequence
  /\ \A id \in DOMAIN recs : recs[id].sequence <= last
  /\ \A x, y \in DOMAIN recs : recs[x].sequence = recs[y].sequence => x = y

Indexed(recs, last, own, names, target) ==
  /\ RecordsTyped(recs)
  /\ OwnersIndexed(recs, own)
  /\ NamesIndexed(recs, names)
  /\ TargetsIndexed(recs, target)
  /\ Sequenced(recs, last)

\* The records grow by an intent, or shrink by some.
Grown(recs, g, i) ==
  /\ i.id \notin DOMAIN recs
  /\ DOMAIN g = DOMAIN recs \cup {i.id}
  /\ g[i.id] = i
  /\ \A id \in DOMAIN recs : g[id] = recs[id]

Shrunk(recs, g, gone) ==
  /\ DOMAIN g = DOMAIN recs \ gone
  /\ \A id \in DOMAIN g : g[id] = recs[id]

LEMMA WithGrows ==
  ASSUME NEW recs, NEW i, i.id \notin DOMAIN recs
  PROVE  Grown(recs, With(recs, i.id, i), i)
BY DEF Grown, With

LEMMA RestrictShrinks ==
  ASSUME NEW recs, NEW gone
  PROVE  Shrunk(recs, Restrict(recs, DOMAIN recs \ gone), gone)
BY DEF Shrunk, Restrict

LEMMA GrownTyped ==
  ASSUME NEW recs, RecordsTyped(recs), NEW i \in Intents, i.id \notin DOMAIN recs
  PROVE  RecordsTyped(With(recs, i.id, i))
<1> DEFINE g == With(recs, i.id, i)
<1>1. Grown(recs, g, i)
  BY WithGrows
<1>2. g = [id \in DOMAIN recs \cup {i.id} |-> IF id = i.id THEN i ELSE recs[id]]
  BY DEF With
<1> HIDE DEF g
<1>3. \A id \in DOMAIN recs : recs[id] \in Intents /\ recs[id].id = id
  BY DEF RecordsTyped
<1>4. \A id \in DOMAIN g : g[id] \in Intents /\ g[id].id = id
  BY <1>1, <1>3 DEF Grown
<1>5. DOMAIN g = DOMAIN recs \cup {i.id}
  BY <1>2
<1>6. g \in [DOMAIN g -> Intents]
  BY <1>2, <1>4, <1>5
<1> QED
  BY <1>4, <1>6 DEF RecordsTyped, g

LEMMA ShrunkTyped ==
  ASSUME NEW recs, RecordsTyped(recs), NEW gone
  PROVE  RecordsTyped(Restrict(recs, DOMAIN recs \ gone))
BY DEF RecordsTyped, Restrict

LEMMA GrownOwners ==
  ASSUME NEW recs, RecordsTyped(recs), NEW i, NEW g, Grown(recs, g, i),
         NEW own, OwnersIndexed(recs, own), i.owner \in DOMAIN own
  PROVE  OwnersIndexed(g, [own EXCEPT ![i.owner] = @ \cup {i.id}])
<1> DEFINE more == [own EXCEPT ![i.owner] = @ \cup {i.id}]
<1>1. DOMAIN more = DOMAIN own
  OBVIOUS
<1>2. \A o \in DOMAIN own : more[o] = IF o = i.owner THEN own[o] \cup {i.id} ELSE own[o]
  OBVIOUS
<1> HIDE DEF more
<1>3. ASSUME NEW o \in DOMAIN own
      PROVE  more[o] = {id \in DOMAIN g : g[id].owner = o}
  <2>1. own[o] = {id \in DOMAIN recs : recs[id].owner = o}
    BY DEF OwnersIndexed
  <2>2. CASE o = i.owner
    BY <2>1, <2>2, <1>2 DEF Grown
  <2>3. CASE o # i.owner
    <3>1. more[o] = own[o]
      BY <2>3, <1>2
    <3>2. \A id : id \in DOMAIN g /\ g[id].owner = o <=> id \in DOMAIN recs /\ recs[id].owner = o
      BY <2>3 DEF Grown
    <3> QED
      BY <2>1, <3>1, <3>2
  <2> QED
    BY <2>2, <2>3
<1>4. \A id \in DOMAIN g : g[id].owner \in DOMAIN own
  BY DEF Grown, OwnersIndexed
<1>5. DOMAIN own \subseteq Owners
  BY DEF OwnersIndexed
<1> QED
  BY <1>1, <1>3, <1>4, <1>5 DEF OwnersIndexed, more

LEMMA ShrunkOwners ==
  ASSUME NEW recs, NEW gone, NEW g, Shrunk(recs, g, gone),
         NEW own, OwnersIndexed(recs, own), NEW pools \in SUBSET DOMAIN own,
         \A id \in DOMAIN g : g[id].owner \in pools
  PROVE  OwnersIndexed(g, [o \in pools |-> own[o] \ gone])
<1>1. ASSUME NEW o \in pools
      PROVE  own[o] \ gone = {id \in DOMAIN g : g[id].owner = o}
  <2>1. own[o] = {id \in DOMAIN recs : recs[id].owner = o}
    BY DEF OwnersIndexed
  <2> QED
    BY <2>1 DEF Shrunk
<1>2. DOMAIN own \subseteq Owners
  BY DEF OwnersIndexed
<1> QED
  BY <1>1, <1>2 DEF OwnersIndexed

LEMMA GrownUnnamed ==
  ASSUME NEW recs, NEW i, NEW g, Grown(recs, g, i),
         NEW names, NamesIndexed(recs, names), i.name = NoName
  PROVE  NamesIndexed(g, names)
BY DEF NamesIndexed, Grown

LEMMA GrownNamed ==
  ASSUME NEW recs, NEW i, NEW g, Grown(recs, g, i),
         NEW names, NamesIndexed(recs, names),
         i.owner \in Owners, i.name \in Names, <<i.owner, i.name>> \notin DOMAIN names
  PROVE  NamesIndexed(g, With(names, <<i.owner, i.name>>, i.id))
<1> DEFINE e == <<i.owner, i.name>>
           more == With(names, e, i.id)
<1>1. /\ DOMAIN more = DOMAIN names \cup {e}
      /\ more[e] = i.id
      /\ \A d \in DOMAIN names : more[d] = names[d]
  BY DEF With
<1>2. e \in Owners \X Names /\ e[1] = i.owner /\ e[2] = i.name
  OBVIOUS
<1>3. i.id \in DOMAIN g /\ g[i.id] = i
  BY DEF Grown
<1> HIDE DEF more
<1>4. ASSUME NEW d \in DOMAIN more
      PROVE  /\ more[d] \in DOMAIN g
             /\ g[more[d]].owner = d[1]
             /\ g[more[d]].name = d[2]
  <2>1. CASE d = e
    BY <2>1, <1>1, <1>2, <1>3
  <2>2. CASE d \in DOMAIN names
    BY <2>2, <1>1 DEF NamesIndexed, Grown
  <2> QED
    BY <2>1, <2>2, <1>1
<1>5. ASSUME NEW id \in DOMAIN g, g[id].name # NoName
      PROVE  /\ <<g[id].owner, g[id].name>> \in DOMAIN more
             /\ more[<<g[id].owner, g[id].name>>] = id
  <2>1. CASE id = i.id
    BY <2>1, <1>1, <1>3
  <2>2. CASE id \in DOMAIN recs
    <3>1. g[id] = recs[id]
      BY <2>2 DEF Grown
    <3>2. /\ <<recs[id].owner, recs[id].name>> \in DOMAIN names
          /\ names[<<recs[id].owner, recs[id].name>>] = id
      BY <2>2, <3>1, <1>5 DEF NamesIndexed
    <3> QED
      BY <3>1, <3>2, <1>1
  <2> QED
    BY <2>1, <2>2 DEF Grown
<1>6. DOMAIN more \subseteq Owners \X Names
  BY <1>1, <1>2 DEF NamesIndexed
<1> QED
  BY <1>4, <1>5, <1>6 DEF NamesIndexed, more

\* The names of what is gone.
NamesOf(recs, gone) == {<<recs[id].owner, recs[id].name>> : id \in gone}

LEMMA ShrunkNames ==
  ASSUME NEW recs, RecordsTyped(recs), NEW gone \in SUBSET DOMAIN recs,
         NEW g, Shrunk(recs, g, gone), NEW names, NamesIndexed(recs, names)
  PROVE  NamesIndexed(g, Restrict(names, DOMAIN names \ NamesOf(recs, gone)))
<1> DEFINE less == Restrict(names, DOMAIN names \ NamesOf(recs, gone))
<1>1. /\ DOMAIN less = DOMAIN names \ NamesOf(recs, gone)
      /\ \A e \in DOMAIN less : less[e] = names[e]
  BY DEF Restrict
<1> HIDE DEF less
<1>2. ASSUME NEW e \in DOMAIN less
      PROVE  /\ less[e] \in DOMAIN g
             /\ g[less[e]].owner = e[1]
             /\ g[less[e]].name = e[2]
  <2>1. /\ e \in DOMAIN names /\ names[e] \in DOMAIN recs
        /\ recs[names[e]].owner = e[1] /\ recs[names[e]].name = e[2]
        /\ e \in Owners \X Names
    BY <1>1 DEF NamesIndexed
  <2>2. e = <<recs[names[e]].owner, recs[names[e]].name>>
    BY <2>1
  <2>3. names[e] \notin gone
    BY <1>1, <2>2 DEF NamesOf
  <2> QED
    BY <1>1, <2>1, <2>3 DEF Shrunk
<1>3. ASSUME NEW id \in DOMAIN g, g[id].name # NoName
      PROVE  /\ <<g[id].owner, g[id].name>> \in DOMAIN less
             /\ less[<<g[id].owner, g[id].name>>] = id
  <2> DEFINE e == <<recs[id].owner, recs[id].name>>
  <2>1. id \in DOMAIN recs /\ id \notin gone /\ g[id] = recs[id]
    BY DEF Shrunk
  <2>2. e \in DOMAIN names /\ names[e] = id
    BY <1>3, <2>1 DEF NamesIndexed
  <2>3. e \notin NamesOf(recs, gone)
    <3>1. SUFFICES ASSUME e \in NamesOf(recs, gone)
                   PROVE  FALSE
      OBVIOUS
    <3>2. PICK x \in gone : e = <<recs[x].owner, recs[x].name>>
      BY <3>1 DEF NamesOf
    <3>3. recs[x].name = recs[id].name /\ x \in DOMAIN recs
      BY <3>2
    <3>4. names[<<recs[x].owner, recs[x].name>>] = x
      BY <3>3, <1>3, <2>1 DEF NamesIndexed
    <3> QED
      BY <3>2, <3>4, <2>1, <2>2
  <2>4. e \in DOMAIN less /\ less[e] = id
    BY <1>1, <2>2, <2>3
  <2> QED
    BY <2>1, <2>4
<1>4. DOMAIN less \subseteq Owners \X Names
  BY <1>1 DEF NamesIndexed
<1> QED
  BY <1>2, <1>3, <1>4 DEF NamesIndexed, less

LEMMA GrownTargets ==
  ASSUME NEW recs, NEW i, NEW g, Grown(recs, g, i),
         NEW target, TargetsIndexed(recs, target)
  PROVE  TargetsIndexed(g, target \cup {<<i.target, i.id>>})
BY DEF TargetsIndexed, Grown

LEMMA ShrunkTargets ==
  ASSUME NEW recs, NEW gone \in SUBSET DOMAIN recs, NEW g, Shrunk(recs, g, gone),
         NEW target, TargetsIndexed(recs, target)
  PROVE  TargetsIndexed(g, target \ {<<recs[id].target, id>> : id \in gone})
<1> DEFINE less == target \ {<<recs[id].target, id>> : id \in gone}
<1>1. ASSUME NEW e \in less
      PROVE  e \in {<<g[id].target, id>> : id \in DOMAIN g}
  <2>1. PICK id \in DOMAIN recs : e = <<recs[id].target, id>>
    BY DEF TargetsIndexed
  <2>2. id \notin gone
    BY <2>1
  <2> QED
    BY <2>1, <2>2 DEF Shrunk
<1>2. ASSUME NEW id \in DOMAIN g
      PROVE  <<g[id].target, id>> \in less
  <2>1. id \in DOMAIN recs /\ id \notin gone /\ g[id] = recs[id]
    BY DEF Shrunk
  <2>2. <<recs[id].target, id>> \in target
    BY <2>1 DEF TargetsIndexed
  <2>3. <<recs[id].target, id>> \notin {<<recs[x].target, x>> : x \in gone}
    BY <2>1
  <2> QED
    BY <2>1, <2>2, <2>3
<1> QED
  BY <1>1, <1>2 DEF TargetsIndexed

LEMMA GrownSequence ==
  ASSUME NEW recs, RecordsTyped(recs), NEW i, NEW g, Grown(recs, g, i),
         NEW last, Sequenced(recs, last), last < MaxSequence, i.sequence = last + 1
  PROVE  Sequenced(g, last + 1)
<1>1. last \in Nat /\ MaxSequence \in Nat /\ last + 1 \in 0..MaxSequence
  BY RegistryAssumption DEF Sequenced
<1>2. \A id \in DOMAIN recs : recs[id].sequence \in Nat /\ recs[id].sequence <= last
  BY DEF Sequenced, RecordsTyped, Intents
<1>3. \A id \in DOMAIN g :
        \/ id = i.id /\ g[id].sequence = last + 1
        \/ /\ id \in DOMAIN recs /\ g[id].sequence = recs[id].sequence
           /\ g[id].sequence \in Nat /\ g[id].sequence <= last
  BY <1>2 DEF Grown
<1>4. \A x, y \in DOMAIN recs : recs[x].sequence = recs[y].sequence => x = y
  BY DEF Sequenced
<1>5. \A id \in DOMAIN g : g[id].sequence <= last + 1
  BY <1>1, <1>3
<1>6. \A x, y \in DOMAIN g : g[x].sequence = g[y].sequence => x = y
  BY <1>1, <1>3, <1>4
<1> QED
  BY <1>1, <1>5, <1>6 DEF Sequenced

LEMMA ShrunkSequence ==
  ASSUME NEW recs, NEW gone, NEW g, Shrunk(recs, g, gone),
         NEW last, Sequenced(recs, last)
  PROVE  Sequenced(g, last)
BY DEF Sequenced, Shrunk

\* A number that was given and not used is lost.
LEMMA SkippedSequence ==
  ASSUME NEW recs, RecordsTyped(recs), NEW last, Sequenced(recs, last), last < MaxSequence
  PROVE  Sequenced(recs, last + 1)
<1>1. last \in Nat /\ last + 1 \in 0..MaxSequence
  BY RegistryAssumption DEF Sequenced
<1>2. \A id \in DOMAIN recs : recs[id].sequence \in Nat
  BY DEF RecordsTyped, Intents
<1>3. \A id \in DOMAIN recs : recs[id].sequence <= last + 1
  BY <1>1, <1>2 DEF Sequenced
<1> QED
  BY <1>1, <1>3 DEF Sequenced

-----------------------------------------------------------------------------
(* Lifecycle records *)

LifecycleRecords == [created : BOOLEAN, intent : Intents]

LEMMA ReplayedHas ==
  ASSUME NEW D, NEW s, NEW i
  PROVE  i \in Replayed(D, s) <=>
           \/ i \in D /\ ~DestroyedAfter(i.id, s, 0)
           \/ \E k \in DOMAIN s :
                s[k].created /\ s[k].intent = i /\ ~DestroyedAfter(i.id, s, k)
BY DEF Replayed

LEMMA ReplayedNothing ==
  ASSUME NEW D
  PROVE  Replayed(D, <<>>) = D
<1>1. \A id, k : ~DestroyedAfter(id, <<>>, k)
  BY DEF DestroyedAfter
<1>2. \A i : i \in Replayed(D, <<>>) <=> i \in D
  BY <1>1, ReplayedHas
<1> QED
  BY <1>2

LEMMA ReplayedCreated ==
  ASSUME NEW D, NEW s \in Seq(LifecycleRecords), NEW i
  PROVE  Replayed(D, Append(s, [created |-> TRUE, intent |-> i])) = Replayed(D, s) \cup {i}
<1> DEFINE r == [created |-> TRUE, intent |-> i]
           s2 == Append(s, r)
           n == Len(s)
<1>1. /\ n \in Nat /\ DOMAIN s = 1..n /\ DOMAIN s2 = 1..(n + 1)
      /\ \A k \in 1..n : s2[k] = s[k]
      /\ s2[n + 1] = r
  OBVIOUS
<1>2. r.created = TRUE /\ r.intent = i
  OBVIOUS
<1> HIDE DEF r, s2, n
<1>3. \A k \in 1..(n + 1) : k \in 1..n \/ k = n + 1
  BY <1>1
<1>4. \A k \in 1..n : k \in 1..(n + 1)
  BY <1>1
<1>5. \A id, k : DestroyedAfter(id, s2, k) <=> DestroyedAfter(id, s, k)
  BY <1>1, <1>2, <1>3, <1>4 DEF DestroyedAfter
<1>6. ~DestroyedAfter(i.id, s2, n + 1)
  <2>1. \A j \in 1..(n + 1) : ~(j > n + 1)
    BY <1>1
  <2> QED
    BY <2>1, <1>1 DEF DestroyedAfter
<1>7. ASSUME NEW x
      PROVE  x \in Replayed(D, s2) <=> x \in Replayed(D, s) \/ x = i
  <2>1. ASSUME x \in Replayed(D, s2)
        PROVE  x \in Replayed(D, s) \/ x = i
    <3>1. CASE x \in D /\ ~DestroyedAfter(x.id, s2, 0)
      BY <3>1, <1>5, ReplayedHas
    <3>2. CASE \E k \in DOMAIN s2 :
                 s2[k].created /\ s2[k].intent = x /\ ~DestroyedAfter(x.id, s2, k)
      <4>1. PICK k \in 1..(n + 1) :
              s2[k].created /\ s2[k].intent = x /\ ~DestroyedAfter(x.id, s2, k)
        BY <3>2, <1>1
      <4>2. CASE k = n + 1
        BY <4>1, <4>2, <1>1, <1>2
      <4>3. CASE k \in 1..n
        <5>1. k \in DOMAIN s /\ s[k].created /\ s[k].intent = x /\ ~DestroyedAfter(x.id, s, k)
          BY <4>1, <4>3, <1>1, <1>5
        <5> QED
          BY <5>1, ReplayedHas
      <4> QED
        BY <4>2, <4>3, <1>3
    <3> QED
      BY <2>1, <3>1, <3>2, ReplayedHas
  <2>2. ASSUME x \in Replayed(D, s)
        PROVE  x \in Replayed(D, s2)
    <3>1. CASE x \in D /\ ~DestroyedAfter(x.id, s, 0)
      BY <3>1, <1>5, ReplayedHas
    <3>2. CASE \E k \in DOMAIN s :
                 s[k].created /\ s[k].intent = x /\ ~DestroyedAfter(x.id, s, k)
      <4>1. PICK k \in 1..n :
              s[k].created /\ s[k].intent = x /\ ~DestroyedAfter(x.id, s, k)
        BY <3>2, <1>1
      <4>2. k \in DOMAIN s2 /\ s2[k].created /\ s2[k].intent = x /\ ~DestroyedAfter(x.id, s2, k)
        BY <4>1, <1>1, <1>4, <1>5
      <4> QED
        BY <4>2, ReplayedHas
    <3> QED
      BY <2>2, <3>1, <3>2, ReplayedHas
  <2>3. i \in Replayed(D, s2)
    <3>1. n + 1 \in DOMAIN s2 /\ s2[n + 1].created /\ s2[n + 1].intent = i
      BY <1>1, <1>2
    <3> QED
      BY <3>1, <1>6, ReplayedHas
  <2> QED
    BY <2>1, <2>2, <2>3
<1>8. Replayed(D, s2) = Replayed(D, s) \cup {i}
  BY <1>7
<1> QED
  BY <1>8 DEF s2, r

LEMMA ReplayedDestroyed ==
  ASSUME NEW D, NEW s \in Seq(LifecycleRecords), NEW d \in Seq(LifecycleRecords),
         \A k \in DOMAIN d : ~d[k].created
  PROVE  Replayed(D, s \o d) =
           {i \in Replayed(D, s) : \A k \in DOMAIN d : d[k].intent.id # i.id}
<1> DEFINE s2 == s \o d
           n == Len(s)
           m == Len(d)
<1>1. n \in Nat /\ m \in Nat /\ DOMAIN s = 1..n /\ DOMAIN d = 1..m
  OBVIOUS
<1>2. /\ s2 \in Seq(LifecycleRecords) /\ Len(s2) = n + m
      /\ \A k \in 1..(n + m) : s2[k] = IF k <= n THEN s[k] ELSE d[k - n]
  BY ConcatProperties
<1>3. DOMAIN s2 = 1..(n + m)
  BY <1>2
<1> HIDE DEF s2, n, m
<1>4. \A k \in 1..n : k \in 1..(n + m) /\ s2[k] = s[k]
  BY <1>1, <1>2
<1>5. \A k \in 1..m : n + k \in 1..(n + m) /\ s2[n + k] = d[k] /\ n + k > n
  <2> TAKE k \in 1..m
  <2>1. n + k \in 1..(n + m) /\ ~(n + k <= n) /\ (n + k) - n = k /\ n + k > n
    BY <1>1
  <2>2. s2[n + k] = d[(n + k) - n]
    BY <1>2, <2>1
  <2> QED
    BY <2>1, <2>2
<1>6. \A k \in 1..(n + m) : k \in 1..n \/ (k - n \in 1..m /\ s2[k] = d[k - n])
  <2> TAKE k \in 1..(n + m)
  <2>1. CASE k <= n
    BY <2>1, <1>1
  <2>2. CASE ~(k <= n)
    <3>1. k - n \in 1..m
      BY <2>2, <1>1
    <3> QED
      BY <3>1, <2>2, <1>2
  <2> QED
    BY <2>1, <2>2
<1>7. ASSUME NEW id, NEW k \in 0..n
      PROVE  DestroyedAfter(id, s2, k) <=>
               DestroyedAfter(id, s, k) \/ \E j \in DOMAIN d : d[j].intent.id = id
  <2>1. ASSUME DestroyedAfter(id, s2, k)
        PROVE  DestroyedAfter(id, s, k) \/ \E j \in DOMAIN d : d[j].intent.id = id
    <3>1. PICK j \in 1..(n + m) : j > k /\ ~s2[j].created /\ s2[j].intent.id = id
      BY <2>1, <1>3 DEF DestroyedAfter
    <3>2. CASE j \in 1..n
      BY <3>1, <3>2, <1>1, <1>4 DEF DestroyedAfter
    <3>3. CASE j - n \in 1..m /\ s2[j] = d[j - n]
      BY <3>1, <3>3, <1>1
    <3> QED
      BY <3>2, <3>3, <1>6
  <2>2. ASSUME DestroyedAfter(id, s, k)
        PROVE  DestroyedAfter(id, s2, k)
    <3>1. PICK j \in 1..n : j > k /\ ~s[j].created /\ s[j].intent.id = id
      BY <2>2, <1>1 DEF DestroyedAfter
    <3> QED
      BY <3>1, <1>3, <1>4 DEF DestroyedAfter
  <2>3. ASSUME NEW j \in DOMAIN d, d[j].intent.id = id
        PROVE  DestroyedAfter(id, s2, k)
    <3>1. j \in 1..m
      BY <1>1
    <3>2. n + j \in 1..(n + m) /\ s2[n + j] = d[j] /\ n + j > n
      BY <3>1, <1>5
    <3>3. n + j > k
      BY <3>1, <1>1
    <3>4. ~s2[n + j].created /\ s2[n + j].intent.id = id
      BY <3>2, <2>3
    <3> QED
      BY <3>2, <3>3, <3>4, <1>3 DEF DestroyedAfter
  <2> QED
    BY <2>1, <2>2, <2>3
<1> DEFINE Hit(x) == \E j \in DOMAIN d : d[j].intent.id = x.id
<1>8. ASSUME NEW x
      PROVE  x \in Replayed(D, s2) <=> x \in Replayed(D, s) /\ ~Hit(x)
  <2>1. 0 \in 0..n /\ \A k \in 1..n : k \in 0..n
    BY <1>1
  <2>2. DestroyedAfter(x.id, s2, 0) <=> DestroyedAfter(x.id, s, 0) \/ Hit(x)
    BY <2>1, <1>7
  <2>3. \A k \in 1..n : DestroyedAfter(x.id, s2, k) <=> DestroyedAfter(x.id, s, k) \/ Hit(x)
    BY <2>1, <1>7
  <2> HIDE DEF Hit
  <2>4. (\E k \in DOMAIN s2 : s2[k].created /\ s2[k].intent = x /\ ~DestroyedAfter(x.id, s2, k))
        <=> \E k \in DOMAIN s : /\ s[k].created /\ s[k].intent = x
                                /\ ~DestroyedAfter(x.id, s, k) /\ ~Hit(x)
    <3>1. ASSUME NEW k \in 1..(n + m),
                 s2[k].created /\ s2[k].intent = x /\ ~DestroyedAfter(x.id, s2, k)
          PROVE  k \in 1..n
      BY <3>1, <1>1, <1>6
    <3> QED
      BY <3>1, <2>3, <1>1, <1>3, <1>4
  <2> QED
    BY <2>2, <2>4, ReplayedHas
<1>9. Replayed(D, s2) = {i \in Replayed(D, s) : \A k \in DOMAIN d : d[k].intent.id # i.id}
  BY <1>8
<1> QED
  BY <1>9 DEF s2

-----------------------------------------------------------------------------
(* The inductive invariant *)

\* The registry's own state is consistent, and what is seen is taken.
Sound(recs, ids, free, gens, next, last, own, names, target, seen) ==
  /\ SlotsSound(ids, free, gens, next)
  /\ Fresh(free, gens, next, seen)
  /\ ids = DOMAIN recs
  /\ Indexed(recs, last, own, names, target)

RegistryInv ==
  Sound(records, intentTypes, availableSlots, generations, nextSlot, lastSequence,
        byOwner, byOwnerName, byTarget, issued)

\* The records that were not taken yet, on top of those that were, describe
\* the intents, also in the middle of a transaction.
Described(recs, buffer) ==
  /\ buffer \in Seq(LifecycleRecords)
  /\ Len(buffer) <= MaxBuffered
  /\ Replayed(described, buffer) = Range(recs)

RecordInv == described \subseteq Intents /\ Described(records, lifecycleRecords)

\* The copy a transaction holds is one of a consistent registry.
Before == transaction.origin[1]
Saved ==
  Sound(Before, transaction.intentTypes, transaction.availableSlots,
        transaction.generations, transaction.nextSlot, transaction.lastSequence,
        transaction.byOwner, transaction.byOwnerName, transaction.byTarget, issued)

Kept == SubSeq(lifecycleRecords, 1, transaction.lifecycleRecordCount)
BufferSaved ==
  /\ transaction.lifecycleRecordCount \in 0..Len(lifecycleRecords)
  /\ Described(Before, Kept)

\* What the transaction did can be undone: an intent that was there before is
\* still the same or among the cancelled ones, what is new is the owner's and
\* has a handle nobody has seen.
Undoable ==
  /\ transaction.intentTypes \subseteq issued
  /\ \A id \in DOMAIN records :
       IF id \in transaction.intentTypes THEN records[id] = Before[id]
       ELSE id \notin issued /\ records[id].owner = transaction.owner
  /\ \A c \in transaction.cancelled :
       /\ c.id \in transaction.intentTypes
       /\ c = Before[c.id]
       /\ c.owner = transaction.owner
  /\ \A id \in transaction.intentTypes :
       id \in DOMAIN records \/ \E c \in transaction.cancelled : c.id = id
  /\ \A id \in transaction.pending :
       /\ id \in DOMAIN records
       /\ id \in transaction.intentTypes
       /\ records[id].owner = transaction.owner

TransactionFields ==
  {"active", "failed", "owner", "pending", "cancelled", "lifecycleRecordCount",
   "intentTypes", "availableSlots", "generations", "nextSlot", "lastSequence",
   "byOwner", "byOwnerName", "byTarget", "origin"}

TransactionInv ==
  IF Open
  THEN /\ DOMAIN transaction = TransactionFields
       /\ transaction.owner \in Owners
       /\ Saved
       /\ BufferSaved
       /\ Undoable
  ELSE transaction = Closed /\ intentTypes \subseteq issued

Inv == RegistryInv /\ RecordInv /\ TransactionInv

LEMMA FreshSubset ==
  ASSUME NEW free, NEW gens, NEW next, NEW seen, Fresh(free, gens, next, seen),
         NEW some \in SUBSET seen
  PROVE  Fresh(free, gens, next, some)
BY DEF Fresh

LEMMA InitInv ==
  Init => Inv
<1> HAVE Init
<1> USE DEF Init
<1>1. \A id \in DOMAIN records : FALSE
  OBVIOUS
<1>2. DOMAIN records = {} /\ DOMAIN byOwner = {} /\ DOMAIN byOwnerName = {}
  OBVIOUS
<1>3. SlotsSound(intentTypes, availableSlots, generations, nextSlot)
  <2>1. \A k \in Slots : k >= nextSlot
    BY DEF Slots
  <2>2. 1 \in 1..(MaxIntents + 2) /\ 1 \in 1..MaxGeneration
    BY RegistryAssumption
  <2>3. availableSlots \in Seq(Slots) /\ DOMAIN availableSlots = {}
    OBVIOUS
  <2>4. generations \in [Slots -> 1..MaxGeneration]
    BY <2>2
  <2> QED
    BY <2>1, <2>2, <2>3, <2>4 DEF SlotsSound
<1>4. Fresh(availableSlots, generations, nextSlot, issued)
  BY DEF Fresh
<1>5. RecordsTyped(records)
  BY <1>1, <1>2 DEF RecordsTyped
<1>6. OwnersIndexed(records, byOwner) /\ NamesIndexed(records, byOwnerName)
  BY <1>2 DEF OwnersIndexed, NamesIndexed
<1>7. TargetsIndexed(records, byTarget)
  BY <1>2 DEF TargetsIndexed
<1>8. Sequenced(records, lastSequence)
  BY <1>2, RegistryAssumption DEF Sequenced
<1>9. RegistryInv
  BY <1>2, <1>3, <1>4, <1>5, <1>6, <1>7, <1>8 DEF RegistryInv, Sound, Indexed
<1>10. RecordInv
  <2>1. Replayed(described, lifecycleRecords) = {}
    BY ReplayedNothing
  <2>2. Range(records) = {}
    BY <1>2 DEF Range
  <2>3. lifecycleRecords \in Seq(LifecycleRecords) /\ Len(lifecycleRecords) = 0
    OBVIOUS
  <2>4. described \subseteq Intents /\ 0 <= MaxBuffered
    BY RegistryAssumption
  <2>5. Described(records, lifecycleRecords)
    <3> HIDE DEF Init
    <3> QED
      BY <2>1, <2>2, <2>3, <2>4 DEF Described
  <2> QED
    BY <2>4, <2>5 DEF RecordInv
<1>11. TransactionInv
  BY DEF TransactionInv, Open, Closed
<1> QED
  BY <1>9, <1>10, <1>11 DEF Inv

-----------------------------------------------------------------------------
(* Creation *)

\* create_impl with a proposal of an owner that has a pool.
Creation(i) ==
  /\ \E o \in Owners, n \in Names \cup {NoName}, c \in Proposals :
       Creatable(o, n) /\ i = Created(o, c[1], c[2], c[3], n)
  /\ CreateIntent(i)

LEMMA CreatedType ==
  ASSUME RegistryInv, NEW i, Creation(i)
  PROVE  /\ i \in Intents
         /\ i.id = NextId
         /\ i.sequence = lastSequence + 1
         /\ i.owner \in DOMAIN byOwner
         /\ i.name # NoName => <<i.owner, i.name>> \notin DOMAIN byOwnerName
<1>1. PICK o \in Owners, n \in Names \cup {NoName}, c \in Proposals :
        Creatable(o, n) /\ i = Created(o, c[1], c[2], c[3], n)
  BY DEF Creation
<1>2. c[1] \in Targets /\ c[2] \in Lifetimes /\ c[3] \in Priorities
  BY DEF Proposals
<1>3. NextSlot \in Slots /\ lastSequence < MaxSequence /\ TakeId
  BY DEF Creation, CreateIntent
<1>4. NextId \in Ids
  BY <1>3, Take DEF RegistryInv, Sound
<1>5. lastSequence + 1 \in 1..MaxSequence
  BY <1>3, RegistryAssumption DEF RegistryInv, Sound, Indexed, Sequenced
<1>6. i = [id |-> NextId, owner |-> o, target |-> c[1], lifetime |-> c[2], priority |-> c[3],
           sequence |-> lastSequence + 1, name |-> n]
  BY <1>1 DEF Created
<1>7. i \in Intents
  BY <1>2, <1>4, <1>5, <1>6 DEF Intents
<1>8. i.id = NextId /\ i.sequence = lastSequence + 1 /\ i.owner = o /\ i.name = n
  BY <1>6
<1> QED
  BY <1>1, <1>7, <1>8 DEF Creatable

LEMMA CreationKeepsRegistry ==
  ASSUME RegistryInv, NEW i, Creation(i)
  PROVE  /\ i.id \notin issued /\ i.id \notin DOMAIN records
         /\ Sound(records', intentTypes', availableSlots', generations', nextSlot',
                  lastSequence', byOwner', byOwnerName', byTarget', issued \cup {i.id})
<1> USE DEF RegistryInv, Sound
<1>1. /\ i \in Intents /\ i.id = NextId /\ i.sequence = lastSequence + 1
      /\ i.owner \in DOMAIN byOwner
      /\ i.name # NoName => <<i.owner, i.name>> \notin DOMAIN byOwnerName
  BY CreatedType
<1>2. /\ NextSlot \in Slots /\ lastSequence < MaxSequence /\ TakeId
      /\ lastSequence' = lastSequence + 1
      /\ records' = With(records, i.id, i)
      /\ intentTypes' = intentTypes \cup {i.id}
      /\ byOwner' = [byOwner EXCEPT ![i.owner] = @ \cup {i.id}]
      /\ byOwnerName' = IF i.name = NoName THEN byOwnerName
                        ELSE With(byOwnerName, <<i.owner, i.name>>, i.id)
      /\ byTarget' = byTarget \cup {<<i.target, i.id>>}
  BY DEF Creation, CreateIntent
<1>3. /\ NextId \notin intentTypes /\ NextId \notin issued
      /\ SlotsSound(intentTypes \cup {NextId}, availableSlots', generations', nextSlot')
      /\ Fresh(availableSlots', generations', nextSlot', issued \cup {NextId})
  BY <1>2, Take
<1>4. i.id \notin DOMAIN records
  BY <1>1, <1>3
<1>5. Grown(records, records', i)
  BY <1>2, <1>4, WithGrows
<1>6. RecordsTyped(records) /\ OwnersIndexed(records, byOwner) /\ NamesIndexed(records, byOwnerName)
      /\ TargetsIndexed(records, byTarget) /\ Sequenced(records, lastSequence)
  BY DEF Indexed
<1>7. RecordsTyped(records')
  BY <1>1, <1>2, <1>4, <1>6, GrownTyped
<1>8. OwnersIndexed(records', byOwner')
  BY <1>1, <1>2, <1>5, <1>6, GrownOwners
<1>9. NamesIndexed(records', byOwnerName')
  <2>1. CASE i.name = NoName
    BY <2>1, <1>2, <1>5, <1>6, GrownUnnamed
  <2>2. CASE i.name # NoName
    <3>1. i.name \in Names /\ i.owner \in Owners
      BY <2>2, <1>1 DEF Intents
    <3> QED
      BY <2>2, <3>1, <1>1, <1>2, <1>5, <1>6, GrownNamed
  <2> QED
    BY <2>1, <2>2
<1>10. TargetsIndexed(records', byTarget')
  BY <1>2, <1>5, <1>6, GrownTargets
<1>11. Sequenced(records', lastSequence')
  BY <1>1, <1>2, <1>5, <1>6, GrownSequence
<1>12. intentTypes' = DOMAIN records'
  BY <1>2, <1>5 DEF Grown
<1>13. Indexed(records', lastSequence', byOwner', byOwnerName', byTarget')
  BY <1>7, <1>8, <1>9, <1>10, <1>11 DEF Indexed
<1> QED
  BY <1>1, <1>2, <1>3, <1>4, <1>12, <1>13

LEMMA CreationIsRecorded ==
  ASSUME RegistryInv, RecordInv, NEW i, Creation(i)
  PROVE  /\ lifecycleRecords' = Append(lifecycleRecords, [created |-> TRUE, intent |-> i])
         /\ Described(records', lifecycleRecords')
<1>1. i \in Intents /\ i.id \notin DOMAIN records
  BY CreatedType, CreationKeepsRegistry
<1>2. /\ Len(lifecycleRecords) < MaxBuffered
      /\ records' = With(records, i.id, i)
      /\ lifecycleRecords' = Append(lifecycleRecords, [created |-> TRUE, intent |-> i])
  BY DEF Creation, CreateIntent
<1>3. lifecycleRecords \in Seq(LifecycleRecords) /\ Replayed(described, lifecycleRecords) = Range(records)
  BY DEF RecordInv, Described
<1>4. [created |-> TRUE, intent |-> i] \in LifecycleRecords
  BY <1>1 DEF LifecycleRecords
<1>5. lifecycleRecords' \in Seq(LifecycleRecords) /\ Len(lifecycleRecords') <= MaxBuffered
  BY <1>2, <1>3, <1>4, RegistryAssumption
<1>6. Replayed(described, lifecycleRecords') = Range(records) \cup {i}
  BY <1>2, <1>3, ReplayedCreated
<1>7. Grown(records, records', i)
  BY <1>1, <1>2, WithGrows
<1>8. Range(records') = Range(records) \cup {i}
  BY <1>7 DEF Grown, Range
<1> QED
  BY <1>2, <1>5, <1>6, <1>8 DEF Described

\* A creation that fails.
LEMMA FailedCreation ==
  ASSUME RegistryInv, CreateUnrecorded \/ CreateOutOfSlots
  PROVE  /\ UNCHANGED <<records, intentTypes, lifecycleRecords, indexes>>
         /\ Sound(records', intentTypes', availableSlots', generations', nextSlot',
                  lastSequence', byOwner', byOwnerName', byTarget', issued)
<1> USE DEF RegistryInv, Sound
<1>1. UNCHANGED <<records, intentTypes, lifecycleRecords, indexes>>
  BY DEF CreateUnrecorded, CreateOutOfSlots
<1>2. UNCHANGED <<records, intentTypes, byOwner, byOwnerName, byTarget>>
  BY <1>1 DEF indexes
<1>3. /\ SlotsSound(intentTypes, availableSlots', generations', nextSlot')
      /\ Fresh(availableSlots', generations', nextSlot', issued)
  <2>1. CASE CreateUnrecorded
    BY <2>1, TakeAndRelease DEF CreateUnrecorded
  <2>2. CASE CreateOutOfSlots
    BY <2>2, OutOfSlots DEF CreateOutOfSlots
  <2> QED
    BY <2>1, <2>2
<1>4. Sequenced(records, lastSequence')
  <2>1. CASE CreateUnrecorded
    BY <2>1, SkippedSequence DEF CreateUnrecorded, Indexed
  <2>2. CASE CreateOutOfSlots
    BY <2>2 DEF CreateOutOfSlots, Indexed
  <2> QED
    BY <2>1, <2>2
<1>5. Indexed(records', lastSequence', byOwner', byOwnerName', byTarget')
  BY <1>2, <1>4 DEF Indexed
<1> QED
  BY <1>1, <1>2, <1>3, <1>5

-----------------------------------------------------------------------------
(* Removal *)

\* destroy or cancel of some intents, of which a pool that goes keeps none.
Removal(gone, pools) ==
  /\ gone \subseteq intentTypes
  /\ pools \subseteq DOMAIN byOwner
  /\ \A id \in DOMAIN records \ gone : records[id].owner \in pools
  /\ RemoveIntents(gone, pools)

LEMMA RemovalShrinks ==
  ASSUME NEW gone, NEW pools, Removal(gone, pools)
  PROVE  Shrunk(records, records', gone)
<1>1. records' = Restrict(records, DOMAIN records \ gone)
  BY DEF Removal, RemoveIntents
<1> QED
  BY <1>1, RestrictShrinks

LEMMA RemovalKeepsRegistry ==
  ASSUME RegistryInv, NEW gone, NEW pools, Removal(gone, pools)
  PROVE  Sound(records', intentTypes', availableSlots', generations', nextSlot',
               lastSequence', byOwner', byOwnerName', byTarget', issued)
<1> USE DEF RegistryInv, Sound
<1>1. /\ gone \in SUBSET intentTypes /\ gone \in SUBSET DOMAIN records
      /\ pools \in SUBSET DOMAIN byOwner
      /\ \A id \in DOMAIN records \ gone : records[id].owner \in pools
  BY DEF Removal
<1>2. /\ records' = Restrict(records, DOMAIN records \ gone)
      /\ intentTypes' = intentTypes \ gone
      /\ RetireIds(gone)
      /\ EraseFromIndexes({records[id] : id \in gone}, pools)
      /\ lastSequence' = lastSequence
  BY DEF Removal, RemoveIntents
<1>3. Shrunk(records, records', gone)
  BY RemovalShrinks
<1>4. RecordsTyped(records) /\ OwnersIndexed(records, byOwner) /\ NamesIndexed(records, byOwnerName)
      /\ TargetsIndexed(records, byTarget) /\ Sequenced(records, lastSequence)
  BY DEF Indexed
<1>5. /\ availableSlots' = availableSlots \o RecycledSlots(gone, generations)
      /\ generations' = Older(gone, generations)
      /\ nextSlot' = nextSlot
  BY <1>2 DEF RetireIds, RecycledSlots, Older, Recycled
<1>6. /\ SlotsSound(intentTypes \ gone, availableSlots', generations', nextSlot')
      /\ Fresh(availableSlots', generations', nextSlot', issued)
  BY <1>1, <1>5, Retire
<1>7. \A id \in gone : records[id].id = id
  BY <1>1, <1>4 DEF RecordsTyped
<1>8. {i.id : i \in {records[id] : id \in gone}} = gone
  BY <1>7
<1>9. {<<i.owner, i.name>> : i \in {records[id] : id \in gone}} = NamesOf(records, gone)
  BY DEF NamesOf
<1>10. {<<i.target, i.id>> : i \in {records[id] : id \in gone}}
         = {<<records[id].target, id>> : id \in gone}
  BY <1>7
<1>11. /\ byOwner' = [o \in pools |-> byOwner[o] \ gone]
       /\ byOwnerName' = Restrict(byOwnerName, DOMAIN byOwnerName \ NamesOf(records, gone))
       /\ byTarget' = byTarget \ {<<records[id].target, id>> : id \in gone}
  BY <1>2, <1>8, <1>9, <1>10 DEF EraseFromIndexes
<1>12. RecordsTyped(records')
  BY <1>2, <1>4, ShrunkTyped
<1>13. OwnersIndexed(records', byOwner')
  <2>1. \A id \in DOMAIN records' : records'[id].owner \in pools
    BY <1>1, <1>3 DEF Shrunk
  <2> QED
    BY <2>1, <1>1, <1>3, <1>4, <1>11, ShrunkOwners
<1>14. NamesIndexed(records', byOwnerName')
  BY <1>1, <1>3, <1>4, <1>11, ShrunkNames
<1>15. TargetsIndexed(records', byTarget')
  BY <1>1, <1>3, <1>4, <1>11, ShrunkTargets
<1>16. Sequenced(records', lastSequence')
  BY <1>2, <1>3, <1>4, ShrunkSequence
<1>17. intentTypes' = DOMAIN records'
  BY <1>2, <1>3 DEF Shrunk
<1>18. Indexed(records', lastSequence', byOwner', byOwnerName', byTarget')
  BY <1>12, <1>13, <1>14, <1>15, <1>16 DEF Indexed
<1> QED
  BY <1>2, <1>6, <1>17, <1>18

\* The lifecycle records of a removal.
Obituaries(gone) ==
  [k \in DOMAIN InOrder(gone) |-> [created |-> FALSE, intent |-> records[InOrder(gone)[k]]]]

LEMMA ObituariesProperties ==
  ASSUME RegistryInv, NEW gone \in SUBSET intentTypes
  PROVE  /\ Obituaries(gone) \in Seq(LifecycleRecords)
         /\ Len(Obituaries(gone)) = Cardinality(gone)
         /\ Cardinality(gone) \in Nat
         /\ \A k \in DOMAIN Obituaries(gone) :
              ~Obituaries(gone)[k].created /\ Obituaries(gone)[k].intent.id \in gone
         /\ \A id \in gone :
              \E k \in DOMAIN Obituaries(gone) : Obituaries(gone)[k].intent.id = id
<1> DEFINE s == InOrder(gone)
           d == Obituaries(gone)
           n == Cardinality(gone)
<1>1. Apart(gone)
  <2>1. Apart(intentTypes)
    BY SoundIsApart DEF RegistryInv, Sound
  <2> QED
    BY <2>1, ApartSubset
<1>2. n \in Nat /\ s \in Seq(gone) /\ DOMAIN s = 1..n
  BY <1>1, InOrderProperties
<1>3. \A id \in gone : \E k \in 1..n : s[k] = id
  BY <1>1, InOrderProperties
<1>4. \A id \in gone : records[id] \in Intents /\ records[id].id = id
  BY DEF RegistryInv, Sound, Indexed, RecordsTyped
<1>5. d = [k \in DOMAIN s |-> [created |-> FALSE, intent |-> records[s[k]]]]
  BY DEF Obituaries
<1> HIDE DEF s, d, n
<1>6. \A k \in 1..n : s[k] \in gone
  BY <1>2
<1>7. DOMAIN d = 1..n /\ \A k \in 1..n : d[k] = [created |-> FALSE, intent |-> records[s[k]]]
  BY <1>2, <1>5
<1>8. \A k \in 1..n : d[k] \in LifecycleRecords
  <2> TAKE k \in 1..n
  <2>1. records[s[k]] \in Intents
    BY <1>4, <1>6
  <2>2. [created |-> FALSE, intent |-> records[s[k]]] \in LifecycleRecords
    BY <2>1 DEF LifecycleRecords
  <2> QED
    BY <2>2, <1>7
<1>9. d \in [1..n -> LifecycleRecords]
  BY <1>2, <1>5, <1>8
<1>10. d \in Seq(LifecycleRecords) /\ Len(d) = n
  BY <1>2, <1>7, <1>9
<1>11. \A k \in 1..n : ~d[k].created /\ d[k].intent.id = s[k]
  BY <1>4, <1>6, <1>7
<1>12. \A k \in DOMAIN d : ~d[k].created /\ d[k].intent.id \in gone
  BY <1>6, <1>7, <1>11
<1>13. \A id \in gone : \E k \in DOMAIN d : d[k].intent.id = id
  BY <1>3, <1>7, <1>11
<1> QED
  BY <1>2, <1>10, <1>12, <1>13 DEF d, n

LEMMA RemovalIsRecorded ==
  ASSUME RegistryInv, RecordInv, NEW gone, NEW pools, Removal(gone, pools),
         Cardinality(gone) <= MaxBuffered - Len(lifecycleRecords)
  PROVE  /\ lifecycleRecords' = lifecycleRecords \o Obituaries(gone)
         /\ Described(records', lifecycleRecords')
<1> DEFINE d == Obituaries(gone)
<1>1. gone \in SUBSET intentTypes /\ lifecycleRecords' = lifecycleRecords \o d
  BY DEF Removal, RemoveIntents, Obituaries
<1>2. lifecycleRecords \in Seq(LifecycleRecords) /\ Replayed(described, lifecycleRecords) = Range(records)
  BY DEF RecordInv, Described
<1>3. /\ d \in Seq(LifecycleRecords) /\ Len(d) = Cardinality(gone) /\ Cardinality(gone) \in Nat
      /\ \A k \in DOMAIN d : ~d[k].created /\ d[k].intent.id \in gone
      /\ \A id \in gone : \E k \in DOMAIN d : d[k].intent.id = id
  BY <1>1, ObituariesProperties
<1> HIDE DEF d
<1>4. /\ lifecycleRecords' \in Seq(LifecycleRecords)
      /\ Len(lifecycleRecords') = Len(lifecycleRecords) + Cardinality(gone)
  <2>1. /\ lifecycleRecords \o d \in Seq(LifecycleRecords)
        /\ Len(lifecycleRecords \o d) = Len(lifecycleRecords) + Len(d)
    <3>1. d \in Seq(LifecycleRecords)
      BY <1>3
    <3> QED
      BY <1>2, <3>1, ConcatProperties
  <2> QED
    BY <2>1, <1>1, <1>3
<1>5. Len(lifecycleRecords') <= MaxBuffered
  BY <1>2, <1>3, <1>4, RegistryAssumption
<1>6. Replayed(described, lifecycleRecords')
        = {i \in Range(records) : \A k \in DOMAIN d : d[k].intent.id # i.id}
  <2>1. Replayed(described, lifecycleRecords \o d)
          = {i \in Replayed(described, lifecycleRecords) : \A k \in DOMAIN d : d[k].intent.id # i.id}
    BY <1>2, <1>3, ReplayedDestroyed
  <2> QED
    BY <2>1, <1>1, <1>2
<1>7. \A id \in DOMAIN records : records[id].id = id
  BY DEF RegistryInv, Sound, Indexed, RecordsTyped
<1>8. Shrunk(records, records', gone)
  BY RemovalShrinks
<1>9. \A i \in Range(records) : (\A k \in DOMAIN d : d[k].intent.id # i.id) <=> i.id \notin gone
  BY <1>3
<1>10. Range(records') = {i \in Range(records) : i.id \notin gone}
  BY <1>7, <1>8 DEF Shrunk, Range
<1>11. Replayed(described, lifecycleRecords') = Range(records')
  BY <1>6, <1>9, <1>10
<1> QED
  BY <1>1, <1>4, <1>5, <1>11 DEF Described, d

\* destroy stops when the buffer is full.
LEMMA DestroyableFits ==
  ASSUME RegistryInv, RecordInv, NEW ids \in SUBSET intentTypes
  PROVE  /\ Destroyable(ids) \in SUBSET ids
         /\ Cardinality(Destroyable(ids)) <= MaxBuffered - Len(lifecycleRecords)
<1> DEFINE room == MaxBuffered - Len(lifecycleRecords)
           gone == Destroyable(ids)
           f == [id \in gone |-> Rank(ids, id)]
<1>1. Apart(ids)
  <2>1. Apart(intentTypes)
    BY SoundIsApart DEF RegistryInv, Sound
  <2> QED
    BY <2>1, ApartSubset
<1>2. gone \in SUBSET ids /\ \A id \in gone : Rank(ids, id) < room
  BY DEF Destroyable
<1>3. room \in Nat
  BY RegistryAssumption DEF RecordInv, Described
<1> HIDE DEF room, gone
<1>4. \A id \in gone : Rank(ids, id) \in Nat
  BY <1>1, <1>2, RankInRange
<1>5. f \in [gone -> 0..(room - 1)]
  BY <1>2, <1>3, <1>4
<1>6. \A x, y \in gone : Rank(ids, x) = Rank(ids, y) => x = y
  BY <1>1, <1>2, RankInjective
<1>7. f \in Injection(gone, 0..(room - 1))
  BY <1>5, <1>6 DEF Injection, IsInjective
<1>8. IsFiniteSet(0..(room - 1)) /\ Cardinality(0..(room - 1)) = room
  <2>1. 0 \in Int /\ room - 1 \in Int /\ (0 > room - 1 <=> room = 0) /\ (room - 1) - 0 + 1 = room
    BY <1>3
  <2>2. /\ IsFiniteSet(0..(room - 1))
        /\ Cardinality(0..(room - 1)) = IF 0 > room - 1 THEN 0 ELSE (room - 1) - 0 + 1
    BY <2>1, FS_Interval
  <2> QED
    BY <2>1, <2>2
<1>9. Cardinality(gone) <= room
  BY <1>7, <1>8, FS_Injection
<1> QED
  BY <1>2, <1>9 DEF room, gone

LEMMA OneFits ==
  ASSUME RegistryInv, RecordInv, NEW id \in intentTypes, Len(lifecycleRecords) < MaxBuffered
  PROVE  Cardinality({id}) <= MaxBuffered - Len(lifecycleRecords)
<1>1. Cardinality({id}) = 1
  BY FS_Singleton
<1>2. Len(lifecycleRecords) \in Nat
  BY DEF RecordInv, Described
<1> QED
  BY <1>1, <1>2, RegistryAssumption

-----------------------------------------------------------------------------
(* The steps outside of a transaction *)

LEMMA OwnersHavePools ==
  ASSUME RegistryInv
  PROVE  \A id \in DOMAIN records : records[id].owner \in DOMAIN byOwner
BY DEF RegistryInv, Sound, Indexed, OwnersIndexed

LEMMA ClosedStep ==
  ASSUME TransactionInv, ~Open, transaction' = transaction, intentTypes' \subseteq issued'
  PROVE  TransactionInv'
BY DEF TransactionInv, Open

LEMMA RemovalStep ==
  ASSUME Inv, ~Open, NEW gone, NEW pools, Removal(gone, pools),
         Cardinality(gone) <= MaxBuffered - Len(lifecycleRecords),
         UNCHANGED <<transaction, ghosts>>
  PROVE  Inv'
<1>1. RegistryInv /\ RecordInv /\ TransactionInv
  BY DEF Inv
<1>2. issued' = issued /\ described' = described /\ transaction' = transaction
  BY DEF ghosts
<1>3. RegistryInv'
  BY <1>1, <1>2, RemovalKeepsRegistry DEF RegistryInv
<1>4. Described(records', lifecycleRecords')
  BY <1>1, RemovalIsRecorded
<1>5. RecordInv'
  BY <1>1, <1>2, <1>4 DEF RecordInv, Described
<1>6. intentTypes' \subseteq issued'
  BY <1>1, <1>2 DEF Removal, RemoveIntents, TransactionInv
<1>7. TransactionInv'
  BY <1>1, <1>2, <1>6, ClosedStep
<1> QED
  BY <1>3, <1>5, <1>7 DEF Inv

LEMMA DestroyStep ==
  ASSUME Inv, NEW id \in intentTypes, Destroy(id)
  PROVE  Removal({id}, DOMAIN byOwner) /\ Inv'
<1>1. RegistryInv /\ RecordInv
  BY DEF Inv
<1>2. Removal({id}, DOMAIN byOwner)
  BY <1>1, OwnersHavePools DEF Destroy, Removal
<1>3. Cardinality({id}) <= MaxBuffered - Len(lifecycleRecords)
  BY <1>1, OneFits DEF Destroy
<1> QED
  BY <1>2, <1>3, RemovalStep DEF Destroy

LEMMA DestroyExpiredStep ==
  ASSUME Inv, NEW now, DestroyExpired(now)
  PROVE  (\E gone : Removal(gone, DOMAIN byOwner)) /\ Inv'
<1> DEFINE expired == {id \in intentTypes :
                         records[id].lifetime # Persistent /\ now >= records[id].lifetime}
           gone == Destroyable(expired)
<1>1. RegistryInv /\ RecordInv
  BY DEF Inv
<1>2. expired \in SUBSET intentTypes
  OBVIOUS
<1>3. /\ ~Open /\ RemoveIntents(gone, DOMAIN byOwner)
      /\ UNCHANGED <<transaction, ghosts>>
  BY DEF DestroyExpired
<1> HIDE DEF expired
<1>4. gone \in SUBSET expired /\ Cardinality(gone) <= MaxBuffered - Len(lifecycleRecords)
  BY <1>1, <1>2, DestroyableFits
<1> HIDE DEF gone
<1>5. Removal(gone, DOMAIN byOwner)
  BY <1>1, <1>2, <1>3, <1>4, OwnersHavePools DEF Removal
<1> QED
  BY <1>3, <1>4, <1>5, RemovalStep

LEMMA DestroyOwnedByStep ==
  ASSUME Inv, NEW o, DestroyOwnedBy(o)
  PROVE  (\E gone, pools : Removal(gone, pools)) /\ Inv'
<1> DEFINE gone == Destroyable(byOwner[o])
           pools == IF gone = byOwner[o] THEN DOMAIN byOwner \ {o} ELSE DOMAIN byOwner
<1>1. RegistryInv /\ RecordInv
  BY DEF Inv
<1>2. /\ ~Open /\ o \in DOMAIN byOwner /\ RemoveIntents(gone, pools)
      /\ UNCHANGED <<transaction, ghosts>>
  BY DEF DestroyOwnedBy
<1>3. byOwner[o] = {id \in DOMAIN records : records[id].owner = o}
  BY <1>1, <1>2 DEF RegistryInv, Sound, Indexed, OwnersIndexed
<1>4. byOwner[o] \in SUBSET intentTypes
  BY <1>1, <1>3 DEF RegistryInv, Sound
<1>5. gone \in SUBSET byOwner[o] /\ Cardinality(gone) <= MaxBuffered - Len(lifecycleRecords)
  BY <1>1, <1>4, DestroyableFits
<1> HIDE DEF gone
<1>6. \A id \in DOMAIN records \ gone : records[id].owner \in pools
  BY <1>1, <1>3, OwnersHavePools
<1>7. pools \subseteq DOMAIN byOwner
  OBVIOUS
<1> HIDE DEF pools
<1>8. Removal(gone, pools)
  BY <1>2, <1>4, <1>5, <1>6, <1>7 DEF Removal
<1> QED
  BY <1>2, <1>5, <1>8, RemovalStep

LEMMA CreateBehaviorPoolStep ==
  ASSUME Inv, NEW o \in Owners, CreateBehaviorPool(o)
  PROVE  Inv'
<1>1. RegistryInv /\ RecordInv /\ TransactionInv
  BY DEF Inv
<1>2. /\ ~Open /\ o \notin DOMAIN byOwner /\ byOwner' = With(byOwner, o, {})
      /\ UNCHANGED <<records, intentTypes, slots, lastSequence, lifecycleRecords,
                     byOwnerName, byTarget, transaction, ghosts>>
  BY DEF CreateBehaviorPool
<1>3. UNCHANGED <<records, intentTypes, availableSlots, generations, nextSlot, lastSequence,
                  lifecycleRecords, byOwnerName, byTarget, transaction, issued, described>>
  BY <1>2 DEF slots, ghosts
<1>4. OwnersIndexed(records, byOwner')
  <2>1. OwnersIndexed(records, byOwner)
    BY <1>1 DEF RegistryInv, Sound, Indexed
  <2>2. /\ DOMAIN byOwner' = DOMAIN byOwner \cup {o}
        /\ byOwner'[o] = {}
        /\ \A x \in DOMAIN byOwner : byOwner'[x] = byOwner[x]
    BY <1>2 DEF With
  <2>3. {id \in DOMAIN records : records[id].owner = o} = {}
    BY <2>1, <1>2 DEF OwnersIndexed
  <2> QED
    BY <2>1, <2>2, <2>3 DEF OwnersIndexed
<1>5. RegistryInv'
  BY <1>1, <1>3, <1>4 DEF RegistryInv, Sound, Indexed
<1>6. RecordInv'
  BY <1>1, <1>3 DEF RecordInv, Described
<1>7. TransactionInv'
  BY <1>1, <1>2, <1>3, ClosedStep DEF TransactionInv
<1> QED
  BY <1>5, <1>6, <1>7 DEF Inv

\* A creation outside of a transaction succeeds or leaves no intent.
LEMMA CreateStep ==
  ASSUME Inv, NEW o \in Owners, NEW n \in Names \cup {NoName}, Create(o, n)
  PROVE  /\ \/ \E i : Creation(i) /\ issued' = issued \cup {i.id}
            \/ records' = records /\ issued' = issued
         /\ Inv'
<1>1. RegistryInv /\ RecordInv /\ TransactionInv
  BY DEF Inv
<1>2. ~Open /\ Creatable(o, n) /\ transaction' = transaction /\ described' = described
  BY DEF Create
<1>3. intentTypes \subseteq issued
  BY <1>1, <1>2 DEF TransactionInv
<1>4. ASSUME NEW c \in Proposals,
             CreateIntent(Created(o, c[1], c[2], c[3], n)),
             issued' = issued \cup {Created(o, c[1], c[2], c[3], n).id}
      PROVE  (\E i : Creation(i) /\ issued' = issued \cup {i.id}) /\ Inv'
  <2> DEFINE i == Created(o, c[1], c[2], c[3], n)
  <2>1. Creation(i)
    BY <1>2, <1>4 DEF Creation
  <2>2. intentTypes' = intentTypes \cup {i.id}
    BY <1>4 DEF CreateIntent
  <2>3. issued' = issued \cup {i.id}
    BY <1>4
  <2> HIDE DEF i
  <2>4. RegistryInv'
    BY <2>1, <2>3, <1>1, CreationKeepsRegistry DEF RegistryInv
  <2>5. Described(records', lifecycleRecords')
    BY <2>1, <1>1, CreationIsRecorded
  <2>6. RecordInv'
    BY <2>5, <1>1, <1>2 DEF RecordInv, Described
  <2>7. TransactionInv'
    BY <2>2, <2>3, <1>1, <1>2, <1>3, ClosedStep
  <2> QED
    BY <2>1, <2>3, <2>4, <2>6, <2>7 DEF Inv
<1>5. ASSUME CreateUnrecorded \/ CreateOutOfSlots, issued' = issued
      PROVE  records' = records /\ issued' = issued /\ Inv'
  <2>1. UNCHANGED <<records, intentTypes, lifecycleRecords, indexes>>
    BY <1>1, <1>5, FailedCreation
  <2>2. RegistryInv'
    BY <1>1, <1>5, FailedCreation DEF RegistryInv
  <2>3. RecordInv'
    BY <2>1, <1>1, <1>2 DEF RecordInv, Described
  <2>4. TransactionInv'
    BY <2>1, <1>1, <1>2, <1>3, <1>5, ClosedStep
  <2> QED
    BY <2>1, <2>2, <2>3, <2>4, <1>5 DEF Inv
<1>6. \/ \E c \in Proposals :
           /\ CreateIntent(Created(o, c[1], c[2], c[3], n))
           /\ issued' = issued \cup {Created(o, c[1], c[2], c[3], n).id}
      \/ (CreateUnrecorded \/ CreateOutOfSlots) /\ issued' = issued
  BY DEF Create
<1> QED
  BY <1>4, <1>5, <1>6

LEMMA ClearStep ==
  ASSUME Inv, ClearLifecycleRecords
  PROVE  Inv'
<1>1. RegistryInv /\ RecordInv /\ TransactionInv
  BY DEF Inv
<1>2. /\ ~Open /\ lifecycleRecords' = <<>>
      /\ described' = Replayed(described, lifecycleRecords)
      /\ UNCHANGED <<records, intentTypes, slots, lastSequence, indexes, transaction, issued>>
  BY DEF ClearLifecycleRecords
<1>3. RegistryInv'
  BY <1>1, <1>2 DEF RegistryInv, slots, indexes
<1>4. RecordInv'
  <2>1. described' = Range(records)
    BY <1>1, <1>2 DEF RecordInv, Described
  <2>2. Range(records) \subseteq Intents
    BY <1>1 DEF RegistryInv, Sound, Indexed, RecordsTyped, Range
  <2>3. Replayed(described', lifecycleRecords') = described'
    BY <1>2, ReplayedNothing
  <2>4. lifecycleRecords' \in Seq(LifecycleRecords) /\ Len(lifecycleRecords') <= MaxBuffered
    BY <1>2, RegistryAssumption
  <2> QED
    BY <1>2, <2>1, <2>2, <2>3, <2>4 DEF RecordInv, Described
<1>5. TransactionInv'
  BY <1>1, <1>2, ClosedStep DEF TransactionInv
<1> QED
  BY <1>3, <1>4, <1>5 DEF Inv

-----------------------------------------------------------------------------
(* The steps of a transaction *)

\* What is appended does not touch the records from before.
LEMMA KeptIsKept ==
  ASSUME NEW S, NEW s \in Seq(S), NEW d \in Seq(S), NEW n \in 0..Len(s)
  PROVE  /\ n \in 0..Len(s \o d)
         /\ SubSeq(s \o d, 1, n) = SubSeq(s, 1, n)
<1> DEFINE s2 == s \o d
<1>1. /\ s2 \in Seq(S) /\ Len(s2) = Len(s) + Len(d)
      /\ \A k \in 1..(Len(s) + Len(d)) : s2[k] = IF k <= Len(s) THEN s[k] ELSE d[k - Len(s)]
  BY ConcatProperties
<1>2. Len(s) \in Nat /\ Len(d) \in Nat /\ n \in Nat /\ n <= Len(s)
  OBVIOUS
<1> HIDE DEF s2
<1>3. n \in 0..Len(s2)
  BY <1>1, <1>2
<1>4. SubSeq(s2, 1, n) = [k \in 1..n |-> s2[k]] /\ SubSeq(s, 1, n) = [k \in 1..n |-> s[k]]
  BY <1>1, <1>2, <1>3
<1>5. \A k \in 1..n : s2[k] = s[k]
  BY <1>1, <1>2
<1>6. SubSeq(s2, 1, n) = SubSeq(s, 1, n)
  BY <1>4, <1>5
<1> QED
  BY <1>3, <1>6 DEF s2

\* The copy stays what it is while the buffer only grows.
SameCopy ==
  /\ DOMAIN transaction' = TransactionFields
  /\ transaction'.active = transaction.active
  /\ transaction'.owner = transaction.owner
  /\ transaction'.lifecycleRecordCount = transaction.lifecycleRecordCount
  /\ transaction'.intentTypes = transaction.intentTypes
  /\ transaction'.availableSlots = transaction.availableSlots
  /\ transaction'.generations = transaction.generations
  /\ transaction'.nextSlot = transaction.nextSlot
  /\ transaction'.lastSequence = transaction.lastSequence
  /\ transaction'.byOwner = transaction.byOwner
  /\ transaction'.byOwnerName = transaction.byOwnerName
  /\ transaction'.byTarget = transaction.byTarget
  /\ transaction'.origin = transaction.origin

LEMMA OpenStep ==
  ASSUME RecordInv, TransactionInv, Open, SameCopy, issued' = issued, described' = described,
         NEW d \in Seq(LifecycleRecords), lifecycleRecords' = lifecycleRecords \o d,
         Undoable'
  PROVE  TransactionInv'
<1>1. /\ DOMAIN transaction = TransactionFields /\ transaction.owner \in Owners
      /\ Saved /\ BufferSaved
  BY DEF TransactionInv
<1>2. Open' /\ Before' = Before
  BY DEF SameCopy, Open, Before
<1>3. Saved'
  BY <1>1, <1>2 DEF Saved, SameCopy
<1>4. BufferSaved'
  <2>1. lifecycleRecords \in Seq(LifecycleRecords)
    BY DEF RecordInv, Described
  <2>2. /\ transaction.lifecycleRecordCount \in 0..Len(lifecycleRecords')
        /\ SubSeq(lifecycleRecords', 1, transaction.lifecycleRecordCount) = Kept
    BY <1>1, <2>1, KeptIsKept DEF BufferSaved, Kept
  <2>3. transaction'.lifecycleRecordCount = transaction.lifecycleRecordCount
    BY DEF SameCopy
  <2>4. Kept' = Kept
    BY <2>2, <2>3 DEF Kept
  <2>5. Described(Before, Kept)
    BY <1>1 DEF BufferSaved
  <2> QED
    BY <1>2, <2>2, <2>3, <2>4, <2>5 DEF BufferSaved, Described
<1>5. DOMAIN transaction' = TransactionFields /\ transaction'.owner \in Owners
  BY <1>1 DEF SameCopy
<1> QED
  BY <1>2, <1>3, <1>4, <1>5 DEF TransactionInv

LEMMA BeginStep ==
  ASSUME Inv, NEW o \in Owners, NEW ids, BeginTransaction(o, ids)
  PROVE  Inv'
<1>1. RegistryInv /\ RecordInv /\ TransactionInv
  BY DEF Inv
<1>2. /\ ~Open /\ o \in DOMAIN byOwner /\ ids \subseteq byOwner[o]
      /\ UNCHANGED <<registry, ghosts>>
  BY DEF BeginTransaction
<1>3. UNCHANGED <<records, intentTypes, availableSlots, generations, nextSlot, lastSequence,
                  lifecycleRecords, byOwner, byOwnerName, byTarget, issued, described>>
  BY <1>2 DEF registry, slots, indexes, ghosts
<1>4. /\ DOMAIN transaction' = TransactionFields
      /\ transaction'.active = TRUE
      /\ transaction'.owner = o
      /\ transaction'.pending = ids
      /\ transaction'.cancelled = {}
      /\ transaction'.lifecycleRecordCount = Len(lifecycleRecords)
  BY DEF BeginTransaction, TransactionFields
<1>5. /\ transaction'.intentTypes = intentTypes
      /\ transaction'.availableSlots = availableSlots
      /\ transaction'.generations = generations
      /\ transaction'.nextSlot = nextSlot
      /\ transaction'.lastSequence = lastSequence
      /\ transaction'.byOwner = byOwner
      /\ transaction'.byOwnerName = byOwnerName
      /\ transaction'.byTarget = byTarget
  BY DEF BeginTransaction
<1>6. Before' = records
  BY DEF BeginTransaction, Before, registry
<1>7. RegistryInv'
  BY <1>1, <1>3 DEF RegistryInv
<1>8. RecordInv'
  BY <1>1, <1>3 DEF RecordInv, Described
<1>9. Saved'
  BY <1>1, <1>3, <1>5, <1>6 DEF Saved, RegistryInv
<1>10. BufferSaved'
  <2>1. lifecycleRecords \in Seq(LifecycleRecords) /\ Len(lifecycleRecords) \in Nat
    BY <1>1 DEF RecordInv, Described
  <2>2. SubSeq(lifecycleRecords, 1, Len(lifecycleRecords)) = lifecycleRecords
    BY <2>1
  <2>3. Kept' = lifecycleRecords
    BY <1>3, <1>4, <2>2 DEF Kept
  <2>4. Len(lifecycleRecords) \in 0..Len(lifecycleRecords)
    BY <2>1
  <2> QED
    BY <1>1, <1>3, <1>4, <1>6, <2>3, <2>4 DEF BufferSaved, RecordInv, Described
<1>11. Undoable'
  <2>1. intentTypes \subseteq issued /\ intentTypes = DOMAIN records
    BY <1>1, <1>2 DEF TransactionInv, RegistryInv, Sound
  <2>2. byOwner[o] = {id \in DOMAIN records : records[id].owner = o}
    BY <1>1, <1>2 DEF RegistryInv, Sound, Indexed, OwnersIndexed
  <2>3. \A id \in ids : id \in DOMAIN records /\ records[id].owner = o
    BY <1>2, <2>2
  <2> QED
    BY <1>3, <1>4, <1>5, <1>6, <2>1, <2>3 DEF Undoable
<1>12. TransactionInv'
  BY <1>4, <1>9, <1>10, <1>11 DEF TransactionInv, Open
<1> QED
  BY <1>7, <1>8, <1>12 DEF Inv

LEMMA CancelStep ==
  ASSUME Inv, Cancel
  PROVE  Inv' /\ Open' /\ Before' = Before
<1> DEFINE id == InOrder(transaction.pending)[1]
<1>1. RegistryInv /\ RecordInv /\ TransactionInv
  BY DEF Inv
<1>2. /\ Open /\ transaction.pending # {} /\ Len(lifecycleRecords) < MaxBuffered
      /\ RemoveIntents({id}, DOMAIN byOwner)
      /\ transaction' = [transaction EXCEPT !.pending = @ \ {id},
                                            !.cancelled = @ \cup {records[id]}]
      /\ UNCHANGED ghosts
  BY DEF Cancel
<1>3. issued' = issued /\ described' = described
  BY <1>2 DEF ghosts
<1>4. Undoable /\ DOMAIN transaction = TransactionFields
  BY <1>1, <1>2 DEF TransactionInv
<1>5. intentTypes = DOMAIN records /\ Apart(intentTypes)
  BY <1>1, SoundIsApart DEF RegistryInv, Sound
<1>6. id \in transaction.pending
  <2>1. transaction.pending \in SUBSET intentTypes
    BY <1>4, <1>5 DEF Undoable
  <2>2. Apart(transaction.pending)
    BY <1>5, <2>1, ApartSubset
  <2>3. /\ IsFiniteSet(transaction.pending) /\ Cardinality(transaction.pending) \in Nat
        /\ InOrder(transaction.pending) \in Seq(transaction.pending)
        /\ DOMAIN InOrder(transaction.pending) = 1..Cardinality(transaction.pending)
    BY <2>2, InOrderProperties
  <2>4. Cardinality(transaction.pending) # 0
    BY <1>2, <2>3, FS_EmptySet
  <2>5. 1 \in 1..Cardinality(transaction.pending)
    BY <2>3, <2>4
  <2> QED
    BY <2>3, <2>5
<1> HIDE DEF id
<1>7. /\ id \in DOMAIN records /\ id \in transaction.intentTypes
      /\ records[id].owner = transaction.owner /\ records[id] = Before[id]
  BY <1>4, <1>6 DEF Undoable
<1>8. records[id].id = id
  BY <1>1, <1>7 DEF RegistryInv, Sound, Indexed, RecordsTyped
<1>9. Removal({id}, DOMAIN byOwner)
  BY <1>1, <1>2, <1>5, <1>7, OwnersHavePools DEF Removal
<1>10. Cardinality({id}) <= MaxBuffered - Len(lifecycleRecords)
  BY <1>1, <1>2, <1>5, <1>7, OneFits
<1>11. RegistryInv'
  BY <1>1, <1>3, <1>9, RemovalKeepsRegistry DEF RegistryInv
<1>12. lifecycleRecords' = lifecycleRecords \o Obituaries({id}) /\ Described(records', lifecycleRecords')
  BY <1>1, <1>9, <1>10, RemovalIsRecorded
<1>13. RecordInv'
  BY <1>1, <1>3, <1>12 DEF RecordInv, Described
<1>14. Obituaries({id}) \in Seq(LifecycleRecords)
  BY <1>1, <1>5, <1>7, ObituariesProperties
<1>15. SameCopy
  BY <1>2, <1>4 DEF SameCopy, TransactionFields
<1>16. /\ transaction'.pending = transaction.pending \ {id}
       /\ transaction'.cancelled = transaction.cancelled \cup {records[id]}
  BY <1>2, <1>4 DEF TransactionFields
<1>17. Shrunk(records, records', {id})
  BY <1>9, RemovalShrinks
<1>18. Before' = Before /\ transaction'.intentTypes = transaction.intentTypes
       /\ transaction'.owner = transaction.owner
  BY <1>15 DEF SameCopy, Before
<1>19. Undoable'
  <2>1. transaction'.intentTypes \subseteq issued'
    BY <1>3, <1>4, <1>18 DEF Undoable
  <2>2. \A x \in DOMAIN records' :
          IF x \in transaction.intentTypes THEN records'[x] = Before[x]
          ELSE x \notin issued /\ records'[x].owner = transaction.owner
    BY <1>4, <1>17 DEF Undoable, Shrunk
  <2>3. \A c \in transaction.cancelled \cup {records[id]} :
          c.id \in transaction.intentTypes /\ c = Before[c.id] /\ c.owner = transaction.owner
    BY <1>4, <1>7, <1>8 DEF Undoable
  <2>4. \A x \in transaction.intentTypes :
          x \in DOMAIN records' \/ \E c \in transaction.cancelled \cup {records[id]} : c.id = x
    BY <1>4, <1>8, <1>17 DEF Undoable, Shrunk
  <2>5. \A x \in transaction.pending \ {id} :
          /\ x \in DOMAIN records' /\ x \in transaction.intentTypes
          /\ records'[x].owner = transaction.owner
    BY <1>4, <1>17 DEF Undoable, Shrunk
  <2> QED
    BY <1>3, <1>16, <1>18, <2>1, <2>2, <2>3, <2>4, <2>5 DEF Undoable
<1>20. TransactionInv'
  BY <1>1, <1>2, <1>3, <1>12, <1>14, <1>15, <1>19, OpenStep
<1>21. Open'
  BY <1>2, <1>15 DEF SameCopy, Open
<1> QED
  BY <1>11, <1>13, <1>18, <1>20, <1>21 DEF Inv

LEMMA ProposeStep ==
  ASSUME Inv, NEW n \in Names \cup {NoName}, Propose(n)
  PROVE  Inv' /\ Open' /\ Before' = Before
<1>1. RegistryInv /\ RecordInv /\ TransactionInv
  BY DEF Inv
<1>2. /\ Open /\ transaction.pending = {} /\ Creatable(transaction.owner, n)
      /\ issued' = issued /\ described' = described
  BY DEF Propose, ghosts
<1>3. Undoable /\ DOMAIN transaction = TransactionFields /\ transaction.owner \in Owners
  BY <1>1, <1>2 DEF TransactionInv
<1>4. lifecycleRecords \in Seq(LifecycleRecords)
  BY <1>1 DEF RecordInv, Described
<1>5. ASSUME NEW c \in Proposals,
             CreateIntent(Created(transaction.owner, c[1], c[2], c[3], n)),
             transaction' = transaction
      PROVE  Inv'
  <2> DEFINE i == Created(transaction.owner, c[1], c[2], c[3], n)
  <2>1. Creation(i)
    BY <1>2, <1>3, <1>5 DEF Creation
  <2>2. i.owner = transaction.owner
    BY DEF Created
  <2> HIDE DEF i
  <2>3. /\ i \in Intents /\ i.id \notin issued /\ i.id \notin DOMAIN records
        /\ Sound(records', intentTypes', availableSlots', generations', nextSlot',
                 lastSequence', byOwner', byOwnerName', byTarget', issued \cup {i.id})
    BY <1>1, <2>1, CreatedType, CreationKeepsRegistry
  <2>4. RegistryInv'
    <3>1. issued \in SUBSET (issued \cup {i.id})
      OBVIOUS
    <3>2. Fresh(availableSlots', generations', nextSlot', issued)
      BY <2>3, <3>1, FreshSubset DEF Sound
    <3> QED
      BY <1>2, <2>3, <3>2 DEF RegistryInv, Sound
  <2>5. /\ lifecycleRecords' = Append(lifecycleRecords, [created |-> TRUE, intent |-> i])
        /\ Described(records', lifecycleRecords')
    BY <1>1, <2>1, CreationIsRecorded
  <2>6. RecordInv'
    BY <1>1, <1>2, <2>5 DEF RecordInv, Described
  <2> DEFINE r == [created |-> TRUE, intent |-> i]
  <2>7. r \in LifecycleRecords
    BY <2>3 DEF LifecycleRecords
  <2>8. <<r>> \in Seq(LifecycleRecords) /\ lifecycleRecords' = lifecycleRecords \o <<r>>
    <3> HIDE DEF r
    <3>1. Append(lifecycleRecords, r) = lifecycleRecords \o <<r>>
      BY <1>4, <2>7, AppendIsConcat
    <3>2. lifecycleRecords' = Append(lifecycleRecords, r)
      BY <2>5 DEF r
    <3> QED
      BY <2>7, <3>1, <3>2
  <2> HIDE DEF r
  <2>9. SameCopy
    BY <1>3, <1>5 DEF SameCopy
  <2>10. Grown(records, records', i)
    BY <2>1, <2>3, WithGrows DEF Creation, CreateIntent
  <2>11. Before' = Before
    BY <1>5 DEF Before
  <2>12. Undoable'
    <3>1. transaction.intentTypes \subseteq issued
      BY <1>3 DEF Undoable
    <3>2. i.id \notin transaction.intentTypes
      BY <2>3, <3>1
    <3>3. \A x \in DOMAIN records' :
            IF x \in transaction.intentTypes THEN records'[x] = Before[x]
            ELSE x \notin issued /\ records'[x].owner = transaction.owner
      BY <1>3, <2>2, <2>3, <2>10, <3>2 DEF Undoable, Grown
    <3>4. \A x \in transaction.intentTypes :
            x \in DOMAIN records' \/ \E c2 \in transaction.cancelled : c2.id = x
      BY <1>3, <2>10 DEF Undoable, Grown
    <3> QED
      BY <1>2, <1>3, <1>5, <2>11, <3>1, <3>3, <3>4 DEF Undoable
  <2>13. TransactionInv'
    BY <1>1, <1>2, <2>8, <2>9, <2>12, OpenStep
  <2> QED
    BY <2>4, <2>6, <2>13 DEF Inv
<1>6. ASSUME CreateUnrecorded \/ CreateOutOfSlots,
             transaction' = [transaction EXCEPT !.failed = TRUE]
      PROVE  Inv'
  <2>1. UNCHANGED <<records, intentTypes, lifecycleRecords, indexes>>
    BY <1>1, <1>6, FailedCreation
  <2>2. RegistryInv'
    BY <1>1, <1>2, <1>6, FailedCreation DEF RegistryInv
  <2>3. RecordInv'
    BY <2>1, <1>1, <1>2 DEF RecordInv, Described
  <2>4. SameCopy
    BY <1>3, <1>6 DEF SameCopy, TransactionFields
  <2>5. transaction'.pending = transaction.pending /\ transaction'.cancelled = transaction.cancelled
    BY <1>3, <1>6 DEF TransactionFields
  <2>6. Undoable'
    BY <1>2, <1>3, <2>1, <2>4, <2>5 DEF Undoable, SameCopy, Before
  <2>7. <<>> \in Seq(LifecycleRecords) /\ lifecycleRecords' = lifecycleRecords \o <<>>
    BY <1>4, <2>1, ConcatEmptySeq
  <2>8. TransactionInv'
    BY <1>1, <1>2, <2>4, <2>6, <2>7, OpenStep
  <2> QED
    BY <2>2, <2>3, <2>8 DEF Inv
<1>7. \/ /\ \E c \in Proposals : CreateIntent(Created(transaction.owner, c[1], c[2], c[3], n))
         /\ transaction' = transaction
      \/ /\ CreateUnrecorded \/ CreateOutOfSlots
         /\ transaction' = [transaction EXCEPT !.failed = TRUE]
  BY DEF Propose
<1>8. Inv'
  BY <1>5, <1>6, <1>7
<1>9. Open' /\ Before' = Before
  <2>1. CASE transaction' = transaction
    BY <2>1, <1>2 DEF Open, Before
  <2>2. CASE transaction' = [transaction EXCEPT !.failed = TRUE]
    BY <2>2, <1>2, <1>3 DEF Open, Before, TransactionFields
  <2> QED
    BY <2>1, <2>2, <1>7
<1> QED
  BY <1>8, <1>9

LEMMA FreshLive ==
  ASSUME NEW ids, NEW free, NEW gens, NEW next, NEW seen,
         SlotsSound(ids, free, gens, next), Fresh(free, gens, next, seen)
  PROVE  Fresh(free, gens, next, seen \cup ids)
<1>1. ASSUME NEW x \in ids
      PROVE  /\ x \in Ids
             /\ x.generation <= gens[x.slot]
             /\ ~(x.slot >= next)
             /\ \A i \in DOMAIN free : free[i] # x.slot
  <2>1. /\ x \in Ids /\ x.generation = gens[x.slot] /\ x.slot < next
        /\ \A i \in DOMAIN free : free[i] # x.slot
    BY DEF SlotsSound
  <2>2. x.slot \in Nat /\ x.generation \in Nat /\ next \in Nat
    BY <2>1, RegistryAssumption DEF Ids, Slots, SlotsSound
  <2> QED
    BY <2>1, <2>2
<1> QED
  BY <1>1 DEF Fresh

LEMMA CommitStep ==
  ASSUME Inv, Commit
  PROVE  Inv'
<1>1. RegistryInv /\ RecordInv
  BY DEF Inv
<1>2. /\ transaction' = Closed /\ issued' = issued \cup intentTypes
      /\ UNCHANGED <<registry, described>>
  BY DEF Commit
<1>3. UNCHANGED <<records, intentTypes, availableSlots, generations, nextSlot, lastSequence,
                  lifecycleRecords, byOwner, byOwnerName, byTarget, described>>
  BY <1>2 DEF registry, slots, indexes
<1>4. Fresh(availableSlots, generations, nextSlot, issued')
  BY <1>1, <1>2, FreshLive DEF RegistryInv, Sound
<1>5. RegistryInv'
  BY <1>1, <1>3, <1>4 DEF RegistryInv, Sound
<1>6. RecordInv'
  BY <1>1, <1>3 DEF RecordInv, Described
<1>7. TransactionInv'
  BY <1>2, <1>3 DEF TransactionInv, Open, Closed
<1> QED
  BY <1>5, <1>6, <1>7 DEF Inv

\* Rollback rebuilds the storages as they were.
LEMMA RestoredIsBefore ==
  ASSUME RegistryInv, TransactionInv, Open
  PROVE  RestoreRecords = Before
<1> DEFINE kept == DOMAIN records \ (intentTypes \ transaction.intentTypes)
           restored == {c.id : c \in transaction.cancelled}
<1>1. Undoable /\ Saved
  BY DEF TransactionInv
<1>2. /\ intentTypes = DOMAIN records
      /\ transaction.intentTypes = DOMAIN Before
      /\ Before \in [DOMAIN Before -> Intents]
  BY <1>1 DEF RegistryInv, Saved, Sound, Indexed, RecordsTyped
<1>3. kept \cup restored = DOMAIN Before
  BY <1>1, <1>2 DEF Undoable
<1>4. ASSUME NEW id \in DOMAIN Before
      PROVE  (IF id \in restored THEN CHOOSE c \in transaction.cancelled : c.id = id
              ELSE records[id]) = Before[id]
  <2>1. CASE id \in restored
    <3> DEFINE c == CHOOSE x \in transaction.cancelled : x.id = id
    <3>1. c \in transaction.cancelled /\ c.id = id
      BY <2>1
    <3>2. c = Before[c.id]
      BY <3>1, <1>1 DEF Undoable
    <3> QED
      BY <2>1, <3>1, <3>2
  <2>2. CASE id \notin restored
    BY <2>2, <1>1, <1>2 DEF Undoable
  <2> QED
    BY <2>1, <2>2
<1>5. RestoreRecords = [id \in kept \cup restored |->
        IF id \in restored THEN CHOOSE c \in transaction.cancelled : c.id = id
        ELSE records[id]]
  BY DEF RestoreRecords
<1> HIDE DEF kept, restored
<1>6. RestoreRecords = [id \in DOMAIN Before |-> Before[id]]
  BY <1>3, <1>4, <1>5
<1> QED
  BY <1>2, <1>6

LEMMA RollbackStep ==
  ASSUME Inv, Rollback
  PROVE  Inv' /\ records' = Before
<1>1. RegistryInv /\ RecordInv /\ TransactionInv
  BY DEF Inv
<1>2. /\ Open
      /\ records' = RestoreRecords
      /\ intentTypes' = transaction.intentTypes
      /\ availableSlots' = transaction.availableSlots
      /\ generations' = transaction.generations
      /\ nextSlot' = transaction.nextSlot
      /\ lastSequence' = transaction.lastSequence
      /\ byOwner' = transaction.byOwner
      /\ byOwnerName' = transaction.byOwnerName
      /\ byTarget' = transaction.byTarget
      /\ lifecycleRecords' = Kept
      /\ transaction' = Closed
      /\ issued' = issued /\ described' = described
  BY DEF Rollback, Kept, ghosts
<1>3. Saved /\ BufferSaved /\ Undoable
  BY <1>1, <1>2 DEF TransactionInv
<1>4. records' = Before
  BY <1>1, <1>2, RestoredIsBefore
<1>5. RegistryInv'
  BY <1>2, <1>3, <1>4 DEF RegistryInv, Saved
<1>6. RecordInv'
  BY <1>1, <1>2, <1>3, <1>4 DEF RecordInv, Described, BufferSaved
<1>7. TransactionInv'
  BY <1>2, <1>3 DEF TransactionInv, Open, Closed, Undoable
<1> QED
  BY <1>4, <1>5, <1>6, <1>7 DEF Inv

-----------------------------------------------------------------------------
(* The invariant holds *)

LEMMA StutterStep ==
  ASSUME Inv, UNCHANGED vars
  PROVE  Inv'
<1>1. /\ UNCHANGED <<records, intentTypes, availableSlots, generations, nextSlot, lastSequence,
                     lifecycleRecords, byOwner, byOwnerName, byTarget>>
      /\ UNCHANGED <<transaction, issued, described>>
  BY DEF vars, registry, slots, indexes, ghosts
<1>2. RegistryInv'
  BY <1>1 DEF Inv, RegistryInv
<1>3. RecordInv'
  BY <1>1 DEF Inv, RecordInv, Described
<1>4. TransactionInv'
  BY <1>1 DEF Inv, TransactionInv, Open, Saved, BufferSaved, Described, Kept, Undoable, Before
<1> QED
  BY <1>2, <1>3, <1>4 DEF Inv

LEMMA NextKeepsInv ==
  ASSUME Inv, Next
  PROVE  Inv'
<1>1. ASSUME NEW o \in Owners, CreateBehaviorPool(o)
      PROVE  Inv'
  BY <1>1, CreateBehaviorPoolStep
<1>2. ASSUME NEW o \in Owners, DestroyOwnedBy(o)
      PROVE  Inv'
  BY <1>2, DestroyOwnedByStep
<1>3. ASSUME NEW o \in Owners, NEW n \in Names \cup {NoName}, Create(o, n)
      PROVE  Inv'
  BY <1>3, CreateStep
<1>4. ASSUME NEW o \in Owners, NEW ids \in SUBSET intentTypes, BeginTransaction(o, ids)
      PROVE  Inv'
  BY <1>4, BeginStep
<1>5. ASSUME NEW id \in intentTypes, Destroy(id)
      PROVE  Inv'
  BY <1>5, DestroyStep
<1>6. ASSUME NEW now \in Expirations, DestroyExpired(now)
      PROVE  Inv'
  BY <1>6, DestroyExpiredStep
<1>7. CASE ClearLifecycleRecords
  BY <1>7, ClearStep
<1>8. CASE Cancel
  BY <1>8, CancelStep
<1>9. ASSUME NEW n \in Names \cup {NoName}, Propose(n)
      PROVE  Inv'
  BY <1>9, ProposeStep
<1>10. CASE Commit
  BY <1>10, CommitStep
<1>11. CASE Rollback
  BY <1>11, RollbackStep
<1> QED
  BY <1>1, <1>2, <1>3, <1>4, <1>5, <1>6, <1>7, <1>8, <1>9, <1>10, <1>11 DEF Next

\* The invariant of the registry, its buffer and its open transaction.
THEOREM Invariant == Spec => []Inv
<1>1. Init => Inv
  BY InitInv
<1>2. Inv /\ [Next]_vars => Inv'
  BY NextKeepsInv, StutterStep
<1> QED
  BY <1>1, <1>2, PTL DEF Spec

LEMMA InvIsConsistent ==
  Inv => Consistent
<1> HAVE Inv
<1>1. /\ SlotsSound(intentTypes, availableSlots, generations, nextSlot)
      /\ Fresh(availableSlots, generations, nextSlot, issued)
      /\ intentTypes = DOMAIN records
      /\ RecordsTyped(records) /\ OwnersIndexed(records, byOwner)
      /\ NamesIndexed(records, byOwnerName) /\ TargetsIndexed(records, byTarget)
      /\ Sequenced(records, lastSequence)
      /\ described \subseteq Intents /\ Len(lifecycleRecords) <= MaxBuffered
  BY DEF Inv, RegistryInv, Sound, Indexed, RecordInv, Described
<1>2. \A id \in DOMAIN records : records[id] \in Intents /\ records[id].id = id
  BY <1>1 DEF RecordsTyped
<1>3. TypeOK
  <2>1. DOMAIN records \subseteq Ids
    BY <1>1 DEF SlotsSound
  <2>2. \A o \in DOMAIN byOwner : byOwner[o] \subseteq Ids
    BY <1>1, <2>1 DEF OwnersIndexed
  <2>3. \A id \in DOMAIN records : records[id].target \in Targets
    BY <1>2 DEF Intents
  <2>4. byTarget \subseteq Targets \X Ids
    BY <1>1, <2>1, <2>3 DEF TargetsIndexed
  <2>5. DOMAIN byOwner \subseteq Owners /\ DOMAIN byOwnerName \subseteq Owners \X Names
    BY <1>1 DEF OwnersIndexed, NamesIndexed
  <2>6. /\ availableSlots \in Seq(Slots) /\ generations \in [Slots -> 1..MaxGeneration]
        /\ nextSlot \in 1..(MaxIntents + 2) /\ lastSequence \in 0..MaxSequence
        /\ issued \subseteq Ids /\ intentTypes \subseteq Ids
    BY <1>1 DEF SlotsSound, Sequenced, Fresh
  <2> QED
    BY <1>1, <1>2, <2>1, <2>2, <2>4, <2>5, <2>6 DEF TypeOK
<1>4. IndexesAgree
  <2>1. \A id \in DOMAIN records : records[id].owner \in DOMAIN byOwner
    BY <1>1 DEF OwnersIndexed
  <2>2. \A o \in DOMAIN byOwner : byOwner[o] = {id \in DOMAIN records : records[id].owner = o}
    BY <1>1 DEF OwnersIndexed
  <2>3. \A e \in DOMAIN byOwnerName :
          LET id == byOwnerName[e]
          IN  id \in DOMAIN records /\ records[id].owner = e[1] /\ records[id].name = e[2]
    BY <1>1 DEF NamesIndexed
  <2>4. \A id \in DOMAIN records :
          records[id].name # NoName =>
            LET e == <<records[id].owner, records[id].name>>
            IN  e \in DOMAIN byOwnerName /\ byOwnerName[e] = id
    BY <1>1 DEF NamesIndexed
  <2>5. byTarget = {<<records[id].target, id>> : id \in DOMAIN records}
    BY <1>1 DEF TargetsIndexed
  <2> QED
    BY <1>1, <1>2, <2>1, <2>2, <2>3, <2>4, <2>5 DEF IndexesAgree
<1>5. SlotsConserved
  <2>1. IsInjective(availableSlots)
    BY <1>1 DEF IsInjective, SlotsSound
  <2>2. \A id \in intentTypes : id.generation = generations[id.slot]
    BY <1>1 DEF SlotsSound
  <2>3. ASSUME NEW k \in Slots
        PROVE  LET used == \E id \in intentTypes : id.slot = k
                   free == k \in Range(availableSlots)
               IN  /\ ~(used /\ free)
                   /\ k >= nextSlot => ~used /\ ~free
                   /\ k < nextSlot /\ ~used /\ ~free => generations[k] = MaxGeneration
    <3> DEFINE used == \E id \in intentTypes : id.slot = k
               free == k \in Range(availableSlots)
    <3>1. free <=> \E i \in DOMAIN availableSlots : availableSlots[i] = k
      BY DEF Range
    <3>2. ~(used /\ free)
      BY <1>1, <3>1 DEF SlotsSound
    <3>3. k \in Nat /\ nextSlot \in Nat
      BY <1>1, RegistryAssumption DEF SlotsSound, Slots
    <3>4. used => k < nextSlot
      BY <1>1 DEF SlotsSound
    <3>5. free => k < nextSlot
      BY <1>1, <3>1 DEF SlotsSound
    <3>6. k < nextSlot /\ ~used /\ ~free => generations[k] = MaxGeneration
      BY <1>1, <3>1, <3>3 DEF SlotsSound
    <3> HIDE DEF used, free
    <3>7. /\ ~(used /\ free)
          /\ k >= nextSlot => ~used /\ ~free
          /\ k < nextSlot /\ ~used /\ ~free => generations[k] = MaxGeneration
      BY <3>2, <3>3, <3>4, <3>5, <3>6
    <3> QED
      BY <3>7 DEF used, free
  <2> QED
    BY <2>1, <2>2, <2>3 DEF SlotsConserved
<1> QED
  BY <1>3, <1>4, <1>5 DEF Consistent

\* The registry's indexes describe the same intents and every slot is accounted
\* for, whatever fails or is rolled back (create_impl, destroy, cancel, rollback,
\* retire_intent_id and release_intent_id of IntentRegistry).
THEOREM AlwaysConsistent == Spec => []Consistent
BY Invariant, InvIsConsistent, PTL

LEMMA InvTellsTheTruth ==
  Inv => RecordsTellTheTruth
BY DEF Inv, RecordInv, Described, RecordsTellTheTruth, LiveIntents, Range

\* The lifecycle records give exactly the live intents, although a rollback
\* cuts the buffer (lifecycleRecords of create_impl, destroy, cancel, rollback).
THEOREM RecordsAlwaysTrue == Spec => []RecordsTellTheTruth
BY Invariant, InvTellsTheTruth, PTL
-----------------------------------------------------------------------------
(* The registry implements IntentStore *)

\* What others see: the registry as it was while a transaction is open.
Live == IF Open THEN Range(Before) ELSE Range(records)

LEMMA LiveIsMapped ==
  Live = IF Open THEN Range(transaction.origin[1]) ELSE LiveIntents
BY DEF Live, Before, LiveIntents, Range

LEMMA LiveIsMappedNext ==
  Live' = (IF Open THEN Range(transaction.origin[1]) ELSE LiveIntents)'
BY DEF Live, Before, LiveIntents, Range

\* An owner uses a name once, because the index by name has one handle for it.
LEMMA NamesOnce ==
  ASSUME NEW recs, NEW names, NamesIndexed(recs, names)
  PROVE  Store!NamesUnique(Range(recs))
<1>1. ASSUME NEW i \in Range(recs), NEW j \in Range(recs),
             i.owner = j.owner, i.name = j.name, i.name # NoName
      PROVE  i = j
  <2>1. PICK x \in DOMAIN recs : i = recs[x]
    BY DEF Range
  <2>2. PICK y \in DOMAIN recs : j = recs[y]
    BY DEF Range
  <2>3. names[<<i.owner, i.name>>] = x
    BY <1>1, <2>1 DEF NamesIndexed
  <2>4. names[<<j.owner, j.name>>] = y
    BY <1>1, <2>2 DEF NamesIndexed
  <2> QED
    BY <1>1, <2>1, <2>2, <2>3, <2>4
<1> QED
  BY <1>1 DEF Store!NamesUnique

LEMMA LiveNamesUnique ==
  ASSUME Inv'
  PROVE  Store!NamesUnique(Live')
<1>1. NamesIndexed(records', byOwnerName')
  BY DEF Inv, RegistryInv, Sound, Indexed
<1>2. Open' => NamesIndexed(Before', transaction'.byOwnerName)
  BY DEF Inv, TransactionInv, Saved, Sound, Indexed
<1>3. CASE Open'
  BY <1>2, <1>3, NamesOnce DEF Live
<1>4. CASE ~Open'
  BY <1>1, <1>4, NamesOnce DEF Live
<1> QED
  BY <1>3, <1>4

LEMMA DropRefined ==
  ASSUME Inv', Live' \subseteq Live, issued' = issued
  PROVE  Store!Drop
<1>1. Store!NamesUnique(Live')
  BY LiveNamesUnique
<1>2. Store!Exchange(Live \ Live', {})
  BY <1>1, LiveIsMapped, LiveIsMappedNext DEF Store!Exchange, Store!Handles
<1> QED
  BY <1>2, LiveIsMapped, LiveIsMappedNext DEF Store!Drop

LEMMA AddRefined ==
  ASSUME Inv', NEW i, Live' = Live \cup {i}, i.id \notin issued, issued' = issued \cup {i.id}
  PROVE  Store!Add
<1>1. Store!NamesUnique(Live')
  BY LiveNamesUnique
<1>2. Store!Handles({i}) = {i.id}
  BY DEF Store!Handles
<1>3. Store!Exchange({}, {i})
  BY <1>1, <1>2, LiveIsMapped, LiveIsMappedNext DEF Store!Exchange
<1>4. i \in Live'
  OBVIOUS
<1> QED
  BY <1>3, <1>4, LiveIsMappedNext DEF Store!Add

LEMMA BundleRefined ==
  ASSUME Inv', NEW o, Live' # Live,
         issued' = issued \cup {i.id : i \in Live' \ Live},
         \A i \in Live' \ Live : i.id \notin issued,
         \A i, j \in Live' \ Live : i.id = j.id => i = j,
         \A i \in (Live \ Live') \cup (Live' \ Live) : i.owner = o
  PROVE  Store!Bundle
<1>1. Store!NamesUnique(Live')
  BY LiveNamesUnique
<1>2. Store!Handles(Live' \ Live) = {i.id : i \in Live' \ Live}
  BY DEF Store!Handles
<1>3. Live' = (Live \ (Live \ Live')) \cup (Live' \ Live)
  OBVIOUS
<1>4. Store!Handles(Live' \ Live) \cap issued = {}
  BY <1>2
<1>5. Store!Exchange(Live \ Live', Live' \ Live)
  BY <1>1, <1>2, <1>3, <1>4, LiveIsMapped, LiveIsMappedNext DEF Store!Exchange
<1>6. o \in {i.owner : i \in Live \cup Live'}
  <2>1. PICK i \in (Live \ Live') \cup (Live' \ Live) : TRUE
    OBVIOUS
  <2> QED
    BY <2>1
<1> QED
  BY <1>5, <1>6, LiveIsMapped, LiveIsMappedNext DEF Store!Bundle

\* A call outside of transactions that destroys intents.
LEMMA RemovalRefined ==
  ASSUME Inv', ~Open, UNCHANGED <<transaction, ghosts>>,
         NEW gone, NEW pools, Removal(gone, pools)
  PROVE  Store!Drop
<1>1. Live = Range(records) /\ Live' = Range(records') /\ issued' = issued
  BY DEF Live, Open, ghosts
<1>2. Shrunk(records, records', gone)
  BY RemovalShrinks
<1>3. Live' \subseteq Live
  BY <1>1, <1>2 DEF Shrunk, Range
<1> QED
  BY <1>1, <1>3, DropRefined

LEMMA CreationRefined ==
  ASSUME Inv, Inv', ~Open, transaction' = transaction,
         NEW i, Creation(i), issued' = issued \cup {i.id}
  PROVE  Store!Add
<1>1. Live = Range(records) /\ Live' = Range(records')
  BY DEF Live, Open
<1>2. i.id \notin issued /\ i.id \notin DOMAIN records
  BY CreationKeepsRegistry DEF Inv
<1>3. Grown(records, records', i)
  BY <1>2, WithGrows DEF Creation, CreateIntent
<1>4. Live' = Live \cup {i}
  <2>1. \A x \in Live' : x \in Live \cup {i}
    BY <1>1, <1>3 DEF Grown, Range
  <2>2. \A x \in Live : x \in Live'
    BY <1>1, <1>3 DEF Grown, Range
  <2>3. i \in Live'
    BY <1>1, <1>3 DEF Grown, Range
  <2> QED
    BY <2>1, <2>2, <2>3
<1> QED
  BY <1>2, <1>4, AddRefined

\* Nobody else sees a transaction before its commit, and then all of it at once.
LEMMA CommitRefined ==
  ASSUME Inv, Inv', Commit
  PROVE  Store!Bundle \/ (Live' = Live /\ issued' = issued)
<1>1. /\ Open /\ transaction' = Closed /\ issued' = issued \cup DOMAIN records
      /\ records' = records
  BY DEF Commit, registry, Inv, RegistryInv, Sound
<1>2. Live = Range(Before) /\ Live' = Range(records)
  BY <1>1 DEF Live, Open, Closed
<1>3. Undoable /\ transaction.intentTypes = DOMAIN Before /\ RecordsTyped(Before)
  BY <1>1 DEF Inv, TransactionInv, Saved, Sound, Indexed
<1>4. RecordsTyped(records)
  BY DEF Inv, RegistryInv, Sound, Indexed
<1>5. ASSUME NEW i \in Live' \ Live
      PROVE  /\ i.id \in DOMAIN records /\ i = records[i.id]
             /\ i.id \notin issued /\ i.owner = transaction.owner
  <2>1. PICK x \in DOMAIN records : i = records[x]
    BY <1>2 DEF Range
  <2>2. x \notin transaction.intentTypes
    BY <1>2, <1>3, <2>1 DEF Undoable, Range
  <2> QED
    BY <1>3, <1>4, <2>1, <2>2 DEF Undoable, RecordsTyped
<1>6. ASSUME NEW i \in Live \ Live'
      PROVE  i.owner = transaction.owner
  <2>1. PICK x \in DOMAIN Before : i = Before[x]
    BY <1>2 DEF Range
  <2>2. x \notin DOMAIN records
    BY <1>2, <1>3, <2>1 DEF Undoable, Range
  <2>3. PICK c \in transaction.cancelled : c.id = x
    BY <1>3, <2>2 DEF Undoable
  <2> QED
    BY <1>3, <2>1, <2>3 DEF Undoable
<1>7. ASSUME NEW x \in DOMAIN records, x \notin issued
      PROVE  records[x] \in Live' \ Live /\ records[x].id = x
  <2>1. records[x].id = x /\ records[x] \in Live'
    BY <1>2, <1>4 DEF RecordsTyped, Range
  <2>2. ASSUME NEW y \in DOMAIN Before, records[x] = Before[y]
        PROVE  FALSE
    BY <1>3, <1>7, <2>1, <2>2 DEF RecordsTyped, Undoable
  <2> QED
    BY <1>2, <2>1, <2>2 DEF Range
<1>8. issued' = issued \cup {i.id : i \in Live' \ Live}
  <2>1. \A x \in issued' : x \in issued \cup {i.id : i \in Live' \ Live}
    BY <1>1, <1>7
  <2>2. \A i \in Live' \ Live : i.id \in issued'
    BY <1>1, <1>5
  <2> QED
    BY <1>1, <2>1, <2>2
<1>9. \A i, j \in Live' \ Live : i.id = j.id => i = j
  BY <1>5
<1>10. CASE Live' = Live
  BY <1>8, <1>10
<1>11. CASE Live' # Live
  BY <1>5, <1>6, <1>8, <1>9, <1>11, BundleRefined
<1> QED
  BY <1>10, <1>11

LEMMA InitRefined ==
  ASSUME Init
  PROVE  Store!Init
<1>1. DOMAIN records = {} /\ ~Open /\ issued = {}
  BY DEF Init, Open, Closed
<1> QED
  BY <1>1 DEF Store!Init, LiveIntents

LEMMA NextRefined ==
  ASSUME Inv, Inv', [Next]_vars
  PROVE  Store!Next \/ (Live' = Live /\ issued' = issued)
<1>1. CASE UNCHANGED vars
  BY <1>1 DEF vars, registry, ghosts, Live, Open, Before
<1>2. ASSUME NEW o \in Owners, CreateBehaviorPool(o)
      PROVE  Live' = Live /\ issued' = issued
  BY <1>2 DEF CreateBehaviorPool, ghosts, Live, Open, Before
<1>3. ASSUME NEW o \in Owners, DestroyOwnedBy(o)
      PROVE  Store!Drop
  <2>1. PICK gone, pools : Removal(gone, pools)
    BY <1>3, DestroyOwnedByStep
  <2> QED
    BY <1>3, <2>1, RemovalRefined DEF DestroyOwnedBy
<1>4. ASSUME NEW o \in Owners, NEW n \in Names \cup {NoName}, Create(o, n)
      PROVE  Store!Add \/ (Live' = Live /\ issued' = issued)
  <2>1. ~Open /\ transaction' = transaction
    BY <1>4 DEF Create
  <2>2. CASE \E i : Creation(i) /\ issued' = issued \cup {i.id}
    BY <2>1, <2>2, CreationRefined
  <2>3. CASE records' = records /\ issued' = issued
    BY <2>1, <2>3 DEF Live, Open, Before
  <2> QED
    BY <1>4, <2>2, <2>3, CreateStep
<1>5. ASSUME NEW o \in Owners, NEW ids \in SUBSET intentTypes, BeginTransaction(o, ids)
      PROVE  Live' = Live /\ issued' = issued
  <2>1. ~Open /\ Open' /\ transaction'.origin = registry /\ issued' = issued
    BY <1>5 DEF BeginTransaction, Open, ghosts
  <2>2. Before' = records
    BY <2>1 DEF Before, registry
  <2> QED
    BY <2>1, <2>2 DEF Live
<1>6. ASSUME NEW id \in intentTypes, Destroy(id)
      PROVE  Store!Drop
  <2>1. Removal({id}, DOMAIN byOwner)
    BY <1>6, DestroyStep
  <2> QED
    BY <1>6, <2>1, RemovalRefined DEF Destroy
<1>7. ASSUME NEW now \in Expirations, DestroyExpired(now)
      PROVE  Store!Drop
  <2>1. PICK gone : Removal(gone, DOMAIN byOwner)
    BY <1>7, DestroyExpiredStep
  <2> QED
    BY <1>7, <2>1, RemovalRefined DEF DestroyExpired
<1>8. CASE ClearLifecycleRecords
  BY <1>8 DEF ClearLifecycleRecords, Live, Open, Before
<1>9. CASE Cancel
  <2>1. Open /\ Open' /\ Before' = Before /\ issued' = issued
    BY <1>9, CancelStep DEF Cancel, ghosts
  <2> QED
    BY <2>1 DEF Live
<1>10. ASSUME NEW n \in Names \cup {NoName}, Propose(n)
       PROVE  Live' = Live /\ issued' = issued
  <2>1. Open /\ Open' /\ Before' = Before /\ issued' = issued
    BY <1>10, ProposeStep DEF Propose, ghosts
  <2> QED
    BY <2>1 DEF Live
<1>11. CASE Commit
  BY <1>11, CommitRefined DEF Store!Next
<1>12. CASE Rollback
  <2>1. Open /\ ~Open' /\ records' = Before /\ issued' = issued
    BY <1>12, RollbackStep DEF Rollback, Open, Closed, ghosts
  <2> QED
    BY <2>1 DEF Live
<1> QED
  BY <1>1, <1>2, <1>3, <1>4, <1>5, <1>6, <1>7, <1>8, <1>9, <1>10, <1>11, <1>12
  DEF Next, Store!Next

\* The registry implements IntentStore: a script's bundle is seen in one step or,
\* after a rollback, not at all, a name is live once per owner, and no handle is
\* ever given to another intent (Transaction, next_intent_id, retire_intent_id).
THEOREM ImplementsStore == Spec => IsIntentStore
<1>1. Init => Store!Init
  BY InitRefined
<1>2. Inv /\ Inv' /\ [Next]_vars =>
        [Store!Next]_<<IF Open THEN Range(transaction.origin[1]) ELSE LiveIntents, issued>>
  BY NextRefined, LiveIsMapped, LiveIsMappedNext
<1> QED
  BY <1>1, <1>2, Invariant, PTL DEF Spec, IsIntentStore, Store!Spec

-----------------------------------------------------------------------------
(* Selection *)

LEMMA LeastNatural ==
  ASSUME NEW S \in SUBSET Nat, S # {}
  PROVE  \E m \in S : \A k \in S : m <= k
<1>1. IsWellFoundedOn(OpToRel(<, Nat), Nat)
  BY NatLessThanWellFounded
<1>2. PICK m \in S : \A k \in S : ~(<<k, m>> \in OpToRel(<, Nat))
  BY <1>1, WFMin
<1>3. \A k \in S : ~(k < m)
  BY <1>2 DEF OpToRel
<1> QED
  BY <1>3

\* The best of the first k handles, from the best of those before.
Step(recs, c, f, k) ==
  IF k = 1 THEN c[1]
  ELSE IF Better(recs[c[k]], recs[f[k - 1]]) THEN c[k] ELSE f[k - 1]

\* f is what the loop of select() has found after each of its first n rounds.
Scan(recs, c, n, f) == f = [k \in 1..n |-> Step(recs, c, f, k)]

\* The loop can be run: a scan of some handles extends to one more. The least
\* number of rounds for which there is none would contradict that.
LEMMA ScanExtends ==
  ASSUME NEW recs, NEW c, NEW m \in Nat \ {0}, NEW g, Scan(recs, c, m - 1, g)
  PROVE  \E f : Scan(recs, c, m, f)
<1> DEFINE f == [k \in 1..m |-> IF k = m THEN Step(recs, c, g, m) ELSE g[k]]
<1>1. \A k \in 1..(m - 1) : g[k] = Step(recs, c, g, k)
  BY DEF Scan
<1>2. \A k \in 1..(m - 1) : f[k] = g[k]
  OBVIOUS
<1>3. f[m] = Step(recs, c, g, m)
  OBVIOUS
<1> HIDE DEF f
<1>4. \A k \in 1..m : Step(recs, c, f, k) = Step(recs, c, g, k)
  <2> TAKE k \in 1..m
  <2>1. CASE k = 1
    BY <2>1 DEF Step
  <2>2. CASE k # 1
    <3>1. f[k - 1] = g[k - 1]
      BY <1>2, <2>2
    <3> QED
      BY <2>2, <3>1 DEF Step
  <2> QED
    BY <2>1, <2>2
<1>5. \A k \in 1..m : f[k] = Step(recs, c, f, k)
  <2> TAKE k \in 1..m
  <2>1. k = m \/ k \in 1..(m - 1)
    OBVIOUS
  <2> QED
    BY <1>1, <1>2, <1>3, <1>4, <2>1
<1>6. f = [k \in 1..m |-> Step(recs, c, f, k)]
  <2>1. f = [k \in 1..m |-> f[k]]
    BY DEF f
  <2> QED
    BY <1>5, <2>1
<1> QED
  BY <1>6 DEF Scan

LEMMA ScanExists ==
  ASSUME NEW recs, NEW c, NEW n \in Nat
  PROVE  \E f : Scan(recs, c, n, f)
<1> DEFINE Bad == {m \in Nat : ~\E f : Scan(recs, c, m, f)}
<1>1. SUFFICES ASSUME n \in Bad PROVE FALSE
  OBVIOUS
<1>2. PICK m \in Bad : \A k \in Bad : m <= k
  BY <1>1, LeastNatural
<1>3. Scan(recs, c, 0, [k \in 1..0 |-> 0])
  BY DEF Scan
<1>4. m \in Nat \ {0}
  BY <1>2, <1>3
<1>5. m - 1 \in Nat /\ ~(m <= m - 1)
  BY <1>4
<1>6. PICK g : Scan(recs, c, m - 1, g)
  BY <1>2, <1>5
<1>7. \E f : Scan(recs, c, m, f)
  BY <1>4, <1>6, ScanExtends
<1> QED
  BY <1>2, <1>7

LEMMA RankedIntents ==
  ASSUME NEW i \in Intents
  PROVE  i.priority \in Nat /\ i.sequence \in Nat
<1>1. i.priority \in Priorities /\ i.sequence \in 1..MaxSequence
  BY DEF Intents
<1>2. Priorities \subseteq Nat /\ MaxSequence \in Nat
  BY RegistryAssumption
<1>3. i.priority \in Nat
  BY <1>1, <1>2
<1>4. i.sequence \in Nat
  BY <1>1, <1>2
<1> QED
  BY <1>3, <1>4

\* select()'s comparison orders intents of different sequence numbers.
LEMMA BetterTransitive ==
  ASSUME NEW i \in Intents, NEW j \in Intents, NEW k \in Intents, Better(i, j), Better(j, k)
  PROVE  Better(i, k)
<1>1. i.priority \in Nat /\ j.priority \in Nat /\ k.priority \in Nat
  BY RankedIntents
<1>2. i.sequence \in Nat /\ j.sequence \in Nat /\ k.sequence \in Nat
  BY RankedIntents
<1> QED
  BY <1>1, <1>2 DEF Better

LEMMA BetterTotal ==
  ASSUME NEW i \in Intents, NEW j \in Intents, i.sequence # j.sequence, ~Better(i, j)
  PROVE  Better(j, i)
<1>1. i.priority \in Nat /\ j.priority \in Nat /\ i.sequence \in Nat /\ j.sequence \in Nat
  BY RankedIntents
<1> QED
  BY <1>1 DEF Better

\* After k rounds the loop holds one of the first k, and no other is better.
BestOfFirst(recs, c, f, k) ==
  /\ f[k] \in DOMAIN recs
  /\ \A j \in 1..k : c[j] = f[k] \/ Better(recs[f[k]], recs[c[j]])

LEMMA ScanStep ==
  ASSUME NEW recs, NEW n \in Nat, NEW c \in [1..n -> DOMAIN recs], NEW f, Scan(recs, c, n, f),
         \A x \in DOMAIN recs : recs[x] \in Intents,
         \A x, y \in DOMAIN recs : recs[x].sequence = recs[y].sequence => x = y,
         NEW k \in 1..n, k # 1, BestOfFirst(recs, c, f, k - 1)
  PROVE  BestOfFirst(recs, c, f, k)
<1>1. f[k] = IF Better(recs[c[k]], recs[f[k - 1]]) THEN c[k] ELSE f[k - 1]
  BY DEF Scan, Step
<1>2. f[k - 1] \in DOMAIN recs /\ c[k] \in DOMAIN recs
  BY DEF BestOfFirst
<1>3. ASSUME NEW j \in 1..k
      PROVE  c[j] = f[k] \/ Better(recs[f[k]], recs[c[j]])
  <2>1. j = k \/ j \in 1..(k - 1)
    OBVIOUS
  <2>2. c[j] \in DOMAIN recs
    OBVIOUS
  <2>3. CASE j = k
    BY <1>1, <1>2, <2>3, BetterTotal
  <2>4. CASE j \in 1..(k - 1)
    <3>1. c[j] = f[k - 1] \/ Better(recs[f[k - 1]], recs[c[j]])
      BY <2>4 DEF BestOfFirst
    <3> QED
      BY <1>1, <1>2, <2>2, <3>1, BetterTransitive
  <2> QED
    BY <2>1, <2>3, <2>4
<1> QED
  BY <1>1, <1>2, <1>3 DEF BestOfFirst

LEMMA ScanFindsBest ==
  ASSUME NEW recs, NEW n \in Nat, NEW c \in [1..n -> DOMAIN recs], NEW f, Scan(recs, c, n, f),
         \A x \in DOMAIN recs : recs[x] \in Intents,
         \A x, y \in DOMAIN recs : recs[x].sequence = recs[y].sequence => x = y,
         n # 0
  PROVE  BestOfFirst(recs, c, f, n)
<1> DEFINE Bad == {k \in 1..n : ~BestOfFirst(recs, c, f, k)}
<1>1. SUFFICES ASSUME Bad # {} PROVE FALSE
  OBVIOUS
<1>2. Bad \in SUBSET Nat
  OBVIOUS
<1>3. PICK k \in Bad : \A j \in Bad : k <= j
  BY <1>1, <1>2, LeastNatural
<1>4. CASE k = 1
  <2>1. f[1] = c[1]
    BY <1>3, <1>4 DEF Scan, Step
  <2>2. BestOfFirst(recs, c, f, 1)
    BY <1>3, <1>4, <2>1 DEF BestOfFirst
  <2> QED
    BY <1>3, <1>4, <2>2
<1>5. CASE k # 1
  <2>1. k - 1 \in 1..n /\ ~(k <= k - 1)
    BY <1>3, <1>5
  <2>2. BestOfFirst(recs, c, f, k - 1)
    BY <1>3, <2>1
  <2> QED
    BY <1>3, <1>5, <2>2, ScanStep
<1> QED
  BY <1>4, <1>5

LEMMA BestOfScans ==
  ASSUME NEW n \in Nat, NEW c, DOMAIN c = 1..n
  PROVE  Scan(records, c, n, BestOf(c))
<1>1. BestOf(c) = CHOOSE f : Scan(records, c, n, f)
  BY DEF BestOf, Scan, Step
<1> QED
  BY <1>1, ScanExists

\* Select returns an intent of the target, and any other is worse.
LEMMA SelectFindsBest ==
  ASSUME RegistryInv, NEW t, NEW x \in DOMAIN records, records[x].target = t
  PROVE  /\ Select(t) \in DOMAIN records
         /\ x = Select(t) \/ Better(records[Select(t)], records[x])
<1> DEFINE ids == {e[2] : e \in {y \in byTarget : y[1] = t}}
           c == InOrder(ids)
           n == Cardinality(ids)
<1>1. /\ SlotsSound(intentTypes, availableSlots, generations, nextSlot)
      /\ intentTypes = DOMAIN records
      /\ RecordsTyped(records)
      /\ TargetsIndexed(records, byTarget)
      /\ Sequenced(records, lastSequence)
  BY DEF RegistryInv, Sound, Indexed
<1>2. ids \in SUBSET DOMAIN records
  BY <1>1 DEF TargetsIndexed
<1>3. x \in ids
  <2>1. <<t, x>> \in byTarget
    BY <1>1 DEF TargetsIndexed
  <2>2. <<t, x>>[1] = t /\ <<t, x>>[2] = x
    OBVIOUS
  <2> QED
    BY <2>1, <2>2
<1>4. Select(t) = BestOf(c)[n]
  BY DEF Select
<1> HIDE DEF ids
<1>5. Apart(ids)
  BY <1>1, <1>2, SoundIsApart, ApartSubset
<1>6. /\ n \in Nat /\ c \in Seq(ids) /\ Len(c) = n /\ DOMAIN c = 1..n
      /\ \E k \in 1..n : c[k] = x
  BY <1>3, <1>5, InOrderProperties
<1> HIDE DEF c, n
<1>7. c \in [1..n -> DOMAIN records]
  BY <1>2, <1>6
<1>8. n # 0
  BY <1>6
<1>9. Scan(records, c, n, BestOf(c))
  BY <1>6, BestOfScans
<1>10. \A y \in DOMAIN records : records[y] \in Intents
  BY <1>1 DEF RecordsTyped
<1>11. \A y, z \in DOMAIN records : records[y].sequence = records[z].sequence => y = z
  BY <1>1 DEF Sequenced
<1> DEFINE f == BestOf(c)
<1>12. Scan(records, c, n, f)
  BY <1>9
<1> HIDE DEF f
<1>13. BestOfFirst(records, c, f, n)
  BY <1>6, <1>7, <1>8, <1>10, <1>11, <1>12, ScanFindsBest
<1>14. Select(t) = f[n]
  BY <1>4 DEF f
<1> QED
  BY <1>6, <1>13, <1>14 DEF BestOfFirst

LEMMA InvSelects ==
  Inv => SelectsNewestOfHighest
<1> SUFFICES ASSUME Inv, NEW t, NEW i \in LiveIntents, i.target = t
             PROVE  \/ i.id = Select(t)
                    \/ i.priority < records[Select(t)].priority
                    \/ /\ i.priority = records[Select(t)].priority
                       /\ i.sequence < records[Select(t)].sequence
  BY DEF SelectsNewestOfHighest
<1>1. RegistryInv /\ RecordsTyped(records)
  BY DEF Inv, RegistryInv, Sound, Indexed
<1>2. PICK x \in DOMAIN records : i = records[x]
  BY DEF LiveIntents
<1>3. i.id = x /\ i \in Intents
  BY <1>1, <1>2 DEF RecordsTyped
<1>4. /\ Select(t) \in DOMAIN records
      /\ x = Select(t) \/ Better(records[Select(t)], i)
  BY <1>1, <1>2, SelectFindsBest
<1> DEFINE b == records[Select(t)]
<1>5. b \in Intents
  BY <1>1, <1>4 DEF RecordsTyped
<1>6. x = Select(t) \/ Better(b, i)
  BY <1>4
<1> HIDE DEF b
<1>7. /\ i.priority \in Nat /\ i.sequence \in Nat
      /\ b.priority \in Nat /\ b.sequence \in Nat
  BY <1>3, <1>5, RankedIntents
<1>8. Better(b, i) => \/ i.priority < b.priority
                      \/ i.priority = b.priority /\ i.sequence < b.sequence
  BY <1>7 DEF Better
<1> QED
  BY <1>3, <1>6, <1>8 DEF b

\* select() finds the newest of the intents of the highest priority of a target,
\* whatever slots they occupy (the loop and the comparison of select).
THEOREM AlwaysSelectsNewestOfHighest == Spec => []SelectsNewestOfHighest
BY Invariant, InvSelects, PTL
=============================================================================
