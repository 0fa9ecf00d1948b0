----------------------------- MODULE WorldProofs -----------------------------
(***************************************************************************)
(* The world keeps its promises between operations, and in the middle of   *)
(* one when a callback uses it: intents are backed by the access of their  *)
(* owner, handles are never given out twice, memberships follow the        *)
(* signatures, and the evidence tells what exists.                         *)
(***************************************************************************)
EXTENDS World, TLAPS, SequenceTheorems, NaturalsInduction, WellFoundedInduction

-----------------------------------------------------------------------------
(* Handles *)

BehaviorIds == [slot : 1..MaxBehaviours, generation : 1..MaxGeneration]
SlotIds == [slot : Nat, generation : Nat]

\* The handles of behaviors: a live one has the generation of its slot, its
\* slot is not free, and a free slot has a generation nobody has seen.
Pool(live, gens, free, seen) ==
  /\ live \subseteq BehaviorIds
  /\ gens \in [1..MaxBehaviours -> 1..MaxGeneration]
  /\ free \in Seq(1..MaxBehaviours)
  /\ \A i, j \in DOMAIN free : free[i] = free[j] => i = j
  /\ \A b \in live :
       /\ b.generation = gens[b.slot]
       /\ \A i \in DOMAIN free : free[i] # b.slot
  /\ seen \subseteq BehaviorIds
  /\ \A h \in seen :
       /\ h.generation <= gens[h.slot]
       /\ \A i \in DOMAIN free : free[i] = h.slot => h.generation < gens[h.slot]

\* The same of the slots of one type of components: names are names of
\* different current slots, a free slot has a generation nobody has seen, and
\* one whose generations ran out has generation 0.
SlotsOf(names, gens, free, seen) ==
  /\ gens \in Seq(Nat) /\ free \in Seq(Nat)
  /\ \A i \in DOMAIN free : free[i] \in DOMAIN gens /\ gens[free[i]] > 0
  /\ \A i, j \in DOMAIN free : free[i] = free[j] => i = j
  /\ \A n \in DOMAIN names :
       /\ names[n] \in SlotIds
       /\ names[n].slot \in DOMAIN gens
       /\ gens[names[n].slot] = names[n].generation
       /\ names[n].generation > 0
       /\ \A i \in DOMAIN free : free[i] # names[n].slot
       /\ \A m \in DOMAIN names : names[m].slot = names[n].slot => m = n
  /\ \A h \in seen :
       /\ h \in SlotIds
       /\ h.slot \in DOMAIN gens
       /\ gens[h.slot] = 0 \/ h.generation <= gens[h.slot]
       /\ \A i \in DOMAIN free : free[i] = h.slot => h.generation < gens[h.slot]


LEMMA FrontItems ==
  ASSUME NEW S, NEW s \in Seq(S), s # <<>>
  PROVE  /\ Front(s) \in Seq(S) /\ Len(Front(s)) = Len(s) - 1 /\ Len(s) > 0
         /\ DOMAIN Front(s) = 1..(Len(s) - 1) /\ DOMAIN s = 1..Len(s)
         /\ \A i \in 1..(Len(s) - 1) : Front(s)[i] = s[i]
         /\ Last(s) = s[Len(s)] /\ Last(s) \in S
<1>1. Len(s) \in Nat /\ Len(s) > 0
  BY EmptySeq
<1>2. /\ SubSeq(s, 1, Len(s) - 1) \in Seq(S)
      /\ Len(SubSeq(s, 1, Len(s) - 1)) = Len(s) - 1
      /\ \A i \in 1..(Len(s) - 1) : SubSeq(s, 1, Len(s) - 1)[i] = s[i]
  <2> DEFINE n == Len(s) - 1
  <2>1. n \in Nat /\ 1 \in Int /\ n \in Int /\ \A i \in 1..n : s[i] \in S
    BY <1>1
  <2> HIDE DEF n
  <2>2. /\ SubSeq(s, 1, n) \in Seq(S)
        /\ Len(SubSeq(s, 1, n)) = IF 1 <= n THEN n - 1 + 1 ELSE 0
        /\ \A i \in 1..(n - 1 + 1) : SubSeq(s, 1, n)[i] = s[1 + i - 1]
    BY <2>1, SubSeqProperties
  <2>3. /\ SubSeq(s, 1, n) \in Seq(S) /\ Len(SubSeq(s, 1, n)) = n
        /\ \A i \in 1..n : SubSeq(s, 1, n)[i] = s[i]
    BY <2>1, <2>2
  <2> QED BY <2>3 DEF n
<1> QED BY <1>1, <1>2 DEF Front, Last

LEMMA AppendItems ==
  ASSUME NEW S, NEW s \in Seq(S), NEW x \in S
  PROVE  /\ Append(s, x) \in Seq(S) /\ Len(Append(s, x)) = Len(s) + 1
         /\ DOMAIN Append(s, x) = 1..(Len(s) + 1) /\ DOMAIN s = 1..Len(s)
         /\ \A i \in 1..Len(s) : Append(s, x)[i] = s[i]
         /\ Append(s, x)[Len(s) + 1] = x
BY AppendProperties

\* BehaviorRegistry::create hands out a handle nobody has seen.
LEMMA PoolTakes ==
  ASSUME NEW live, NEW gens, NEW free, NEW seen, Pool(live, gens, free, seen),
         free # <<>>, NEW b, b = [slot |-> Last(free), generation |-> gens[Last(free)]]
  PROVE  /\ b \in BehaviorIds /\ b \notin live /\ b \notin seen
         /\ Pool(live \cup {b}, gens, Front(free), seen \cup {b})
<1> DEFINE n == Len(free)
           front == Front(free)
<1>1. /\ live \subseteq BehaviorIds /\ seen \subseteq BehaviorIds
      /\ gens \in [1..MaxBehaviours -> 1..MaxGeneration]
      /\ free \in Seq(1..MaxBehaviours)
  BY DEF Pool
<1>2. /\ front \in Seq(1..MaxBehaviours) /\ n \in Nat /\ n > 0
      /\ DOMAIN front = 1..(n - 1) /\ DOMAIN free = 1..n
      /\ \A i \in 1..(n - 1) : front[i] = free[i]
      /\ Last(free) = free[n] /\ Last(free) \in 1..MaxBehaviours
  <2> DEFINE S == 1..MaxBehaviours
  <2>1. free \in Seq(S)
    BY <1>1
  <2> HIDE DEF S
  <2>2. /\ front \in Seq(S) /\ Len(front) = n - 1 /\ n > 0
        /\ DOMAIN front = 1..(n - 1) /\ DOMAIN free = 1..n
        /\ \A i \in 1..(n - 1) : front[i] = free[i]
        /\ Last(free) = free[n] /\ Last(free) \in S
    BY <2>1, FrontItems
  <2>3. n \in Nat
    BY <2>1
  <2> QED BY <2>2, <2>3 DEF S
<1>3. b.slot = free[n] /\ b.generation = gens[b.slot] /\ b \in BehaviorIds
  BY <1>1, <1>2 DEF BehaviorIds
<1> HIDE DEF n, front
<1>4. b \notin live /\ b \notin seen
  BY <1>2, <1>3 DEF Pool
<1>5. \A i \in DOMAIN front : i \in DOMAIN free /\ i # n /\ front[i] = free[i]
  BY <1>2
<1>6. \A i \in DOMAIN front : front[i] # b.slot
  BY <1>2, <1>3, <1>5 DEF Pool
<1>7. \A i, j \in DOMAIN front : front[i] = front[j] => i = j
  BY <1>5 DEF Pool
<1>8. \A x \in live \cup {b} :
        x.generation = gens[x.slot] /\ \A i \in DOMAIN front : front[i] # x.slot
  BY <1>3, <1>5, <1>6 DEF Pool
<1>9. ASSUME NEW h \in seen \cup {b}
      PROVE  /\ h.generation <= gens[h.slot]
             /\ \A i \in DOMAIN front : front[i] = h.slot => h.generation < gens[h.slot]
  <2>1. CASE h \in seen
    BY <1>5, <2>1 DEF Pool
  <2>2. CASE h = b
    <3>1. h.generation \in Int /\ h.generation = gens[h.slot]
      BY <1>3, <2>2 DEF BehaviorIds
    <3> QED BY <1>6, <2>2, <3>1
  <2> QED BY <2>1, <2>2
<1>10. Pool(live \cup {b}, gens, front, seen \cup {b})
  BY <1>1, <1>2, <1>3, <1>7, <1>8, <1>9 DEF Pool
<1> QED BY <1>3, <1>4, <1>10 DEF front

\* BehaviorRegistry::destroy moves the generation on, or gives up the slot.
LEMMA PoolRetires ==
  ASSUME NEW live, NEW gens, NEW free, NEW seen, Pool(live, gens, free, seen),
         NEW b \in live
  PROVE  /\ Pool(live \ {b}, gens, free, seen)
         /\ (gens[b.slot] # MaxGeneration =>
              Pool(live \ {b}, [gens EXCEPT ![b.slot] = @ + 1], Append(free, b.slot), seen))
<1>1. /\ live \subseteq BehaviorIds /\ seen \subseteq BehaviorIds
      /\ gens \in [1..MaxBehaviours -> 1..MaxGeneration]
      /\ free \in Seq(1..MaxBehaviours)
  BY DEF Pool
<1>2. Pool(live \ {b}, gens, free, seen)
  BY DEF Pool
<1>3. ASSUME gens[b.slot] # MaxGeneration
      PROVE  Pool(live \ {b}, [gens EXCEPT ![b.slot] = @ + 1], Append(free, b.slot), seen)
  <2> DEFINE next == [gens EXCEPT ![b.slot] = @ + 1]
             longer == Append(free, b.slot)
             n == Len(free)
  <2>1. b.slot \in 1..MaxBehaviours /\ b \in BehaviorIds
    BY <1>1 DEF BehaviorIds
  <2>2. /\ longer \in Seq(1..MaxBehaviours) /\ n \in Nat
        /\ DOMAIN longer = 1..(n + 1) /\ DOMAIN free = 1..n
        /\ \A i \in 1..n : longer[i] = free[i]
        /\ longer[n + 1] = b.slot
    BY <1>1, <2>1, AppendItems
  <2>3. /\ next \in [1..MaxBehaviours -> 1..MaxGeneration]
        /\ next[b.slot] = gens[b.slot] + 1
        /\ \A k \in 1..MaxBehaviours : k # b.slot => next[k] = gens[k]
    BY <1>1, <1>3, <2>1, WorldAssumption
  <2> HIDE DEF next, longer, n
  <2>4. \A x \in live \ {b} : x.slot # b.slot
    <3> SUFFICES ASSUME NEW x \in live, x.slot = b.slot
                 PROVE  x = b
      OBVIOUS
    <3>1. x.generation = b.generation
      BY DEF Pool
    <3> QED BY <1>1, <3>1 DEF BehaviorIds
  <2>5. \A i \in DOMAIN longer : (i \in DOMAIN free /\ longer[i] = free[i])
                                \/ (i = n + 1 /\ longer[i] = b.slot)
    BY <2>2
  <2>6. \A i, j \in DOMAIN longer : longer[i] = longer[j] => i = j
    BY <2>5 DEF Pool
  <2>7. ASSUME NEW x \in live \ {b}
        PROVE  x.generation = next[x.slot] /\ \A i \in DOMAIN longer : longer[i] # x.slot
    <3>1. x.slot \in 1..MaxBehaviours /\ x.slot # b.slot
      BY <1>1, <2>4 DEF BehaviorIds
    <3> QED BY <2>3, <2>5, <3>1 DEF Pool
  <2>8. ASSUME NEW h \in seen
        PROVE  /\ h.generation <= next[h.slot]
               /\ \A i \in DOMAIN longer : longer[i] = h.slot => h.generation < next[h.slot]
    <3>1. h.slot \in 1..MaxBehaviours /\ h.generation \in Int
      BY <1>1 DEF BehaviorIds
    <3>2. gens[h.slot] \in Int /\ h.generation <= gens[h.slot]
      BY <1>1, <3>1 DEF Pool
    <3>3. CASE h.slot = b.slot
      BY <2>3, <3>1, <3>2, <3>3
    <3>4. CASE h.slot # b.slot
      BY <2>3, <2>5, <3>1, <3>2, <3>4 DEF Pool
    <3> QED BY <3>3, <3>4
  <2>9. Pool(live \ {b}, next, longer, seen)
    BY <1>1, <2>2, <2>3, <2>6, <2>7, <2>8 DEF Pool
  <2> QED BY <2>9 DEF next, longer
<1> QED BY <1>2, <1>3

\* make_slot_handle takes a slot that was given back.
LEMMA SlotsReuse ==
  ASSUME NEW names, NEW gens, NEW free, NEW seen, SlotsOf(names, gens, free, seen),
         free # <<>>, NEW n, n \notin DOMAIN names,
         NEW h, h = [slot |-> Last(free), generation |-> gens[Last(free)]]
  PROVE  /\ h \in SlotIds /\ h \notin seen
         /\ SlotsOf(With(names, n, h), gens, Front(free), seen \cup {h})
<1> DEFINE len == Len(free)
           front == Front(free)
           more == With(names, n, h)
<1>1. gens \in Seq(Nat) /\ free \in Seq(Nat)
  BY DEF SlotsOf
<1>2. /\ front \in Seq(Nat) /\ len \in Nat /\ len > 0
      /\ DOMAIN front = 1..(len - 1) /\ DOMAIN free = 1..len
      /\ \A i \in 1..(len - 1) : front[i] = free[i]
      /\ Last(free) = free[len] /\ Last(free) \in Nat
  <2>1. /\ front \in Seq(Nat) /\ Len(front) = len - 1 /\ len > 0
        /\ DOMAIN front = 1..(len - 1) /\ DOMAIN free = 1..len
        /\ \A i \in 1..(len - 1) : front[i] = free[i]
        /\ Last(free) = free[len] /\ Last(free) \in Nat
    BY <1>1, FrontItems
  <2> QED BY <1>1, <2>1
<1>3. h.slot = free[len] /\ h.generation = gens[h.slot] /\ h.slot \in Nat
  BY <1>2
<1>4. h.slot \in DOMAIN gens /\ gens[h.slot] > 0 /\ h.generation \in Nat
  <2>1. \A i \in DOMAIN free : free[i] \in DOMAIN gens /\ gens[free[i]] > 0
    BY DEF SlotsOf
  <2>2. len \in DOMAIN free
    BY <1>2
  <2>3. free[len] \in DOMAIN gens /\ gens[free[len]] > 0
    BY <2>1, <2>2
  <2>4. gens[free[len]] \in Nat
    BY <1>1, <2>3
  <2> QED BY <1>3, <2>3, <2>4
<1>5. h \in SlotIds
  BY <1>3, <1>4 DEF SlotIds
<1> HIDE DEF len, front
<1>6. h \notin seen
  <2> SUFFICES ASSUME h \in seen PROVE FALSE
    OBVIOUS
  <2>1. len \in DOMAIN free /\ free[len] = h.slot
    BY <1>2, <1>3
  <2>2. h.generation < gens[h.slot]
    BY <2>1 DEF SlotsOf
  <2> QED BY <1>3, <1>4, <2>2
<1>7. \A i \in DOMAIN front : i \in DOMAIN free /\ i # len /\ front[i] = free[i]
  BY <1>2
<1>8. len \in DOMAIN free
  BY <1>2
<1>9. \A i \in DOMAIN front : front[i] # h.slot
  BY <1>3, <1>7, <1>8 DEF SlotsOf
<1>10. /\ DOMAIN more = DOMAIN names \cup {n} /\ more[n] = h
       /\ \A m \in DOMAIN names : more[m] = names[m]
  BY DEF With
<1> HIDE DEF more
<1>11. \A m \in DOMAIN names : names[m].slot # h.slot
  BY <1>3, <1>8 DEF SlotsOf
<1>12. ASSUME NEW m \in DOMAIN more
       PROVE  /\ more[m] \in SlotIds /\ more[m].slot \in DOMAIN gens
              /\ gens[more[m].slot] = more[m].generation
              /\ more[m].generation > 0
              /\ \A i \in DOMAIN front : front[i] # more[m].slot
              /\ \A k \in DOMAIN more : more[k].slot = more[m].slot => k = m
  <2>1. CASE m = n
    BY <1>3, <1>4, <1>5, <1>9, <1>10, <1>11, <2>1
  <2>2. CASE m \in DOMAIN names
    BY <1>7, <1>10, <1>11, <2>2 DEF SlotsOf
  <2> QED BY <1>10, <2>1, <2>2
<1>13. ASSUME NEW x \in seen \cup {h}
       PROVE  /\ x \in SlotIds /\ x.slot \in DOMAIN gens
              /\ gens[x.slot] = 0 \/ x.generation <= gens[x.slot]
              /\ \A i \in DOMAIN front : front[i] = x.slot => x.generation < gens[x.slot]
  <2>1. CASE x \in seen
    BY <1>7, <2>1 DEF SlotsOf
  <2>2. CASE x = h
    <3>1. x.generation <= gens[x.slot]
      BY <1>3, <1>4, <2>2
    <3> QED BY <1>4, <1>5, <1>9, <2>2, <3>1
  <2> QED BY <2>1, <2>2
<1>14. \A i \in DOMAIN front : front[i] \in DOMAIN gens /\ gens[front[i]] > 0
  BY <1>7 DEF SlotsOf
<1>15. \A i, j \in DOMAIN front : front[i] = front[j] => i = j
  BY <1>7 DEF SlotsOf
<1>16. SlotsOf(more, gens, front, seen \cup {h})
  BY <1>1, <1>2, <1>12, <1>13, <1>14, <1>15 DEF SlotsOf
<1> QED BY <1>5, <1>6, <1>16 DEF more, front

\* make_slot_handle takes the next slot.
LEMMA SlotsExtend ==
  ASSUME NEW names, NEW gens, NEW free, NEW seen, SlotsOf(names, gens, free, seen),
         NEW n, n \notin DOMAIN names,
         NEW h, h = [slot |-> Len(gens) + 1, generation |-> 1]
  PROVE  /\ h \in SlotIds /\ h \notin seen
         /\ SlotsOf(With(names, n, h), Append(gens, 1), free, seen \cup {h})
<1> DEFINE len == Len(gens)
           longer == Append(gens, 1)
           more == With(names, n, h)
<1>1. gens \in Seq(Nat) /\ free \in Seq(Nat)
  BY DEF SlotsOf
<1>2. /\ longer \in Seq(Nat) /\ len \in Nat
      /\ DOMAIN longer = 1..(len + 1) /\ DOMAIN gens = 1..len
      /\ \A i \in 1..len : longer[i] = gens[i]
      /\ longer[len + 1] = 1
  <2>1. 1 \in Nat
    OBVIOUS
  <2>2. /\ longer \in Seq(Nat) /\ Len(longer) = len + 1
        /\ DOMAIN longer = 1..(len + 1) /\ DOMAIN gens = 1..len
        /\ \A i \in 1..len : longer[i] = gens[i]
        /\ longer[len + 1] = 1
    BY <1>1, <2>1, AppendItems
  <2> QED BY <1>1, <2>2
<1>3. h.slot = len + 1 /\ h.generation = 1 /\ h \in SlotIds
  BY <1>2 DEF SlotIds
<1> HIDE DEF len, longer
<1>4. \A k \in DOMAIN gens : k \in DOMAIN longer /\ longer[k] = gens[k] /\ k # h.slot
  BY <1>2, <1>3
<1>5. h.slot \in DOMAIN longer /\ longer[h.slot] = 1
  BY <1>2, <1>3
<1>6. h \notin seen
  BY <1>4 DEF SlotsOf
<1>7. \A i \in DOMAIN free :
        /\ free[i] \in DOMAIN longer /\ longer[free[i]] > 0
        /\ free[i] # h.slot
  BY <1>4 DEF SlotsOf
<1>8. /\ DOMAIN more = DOMAIN names \cup {n} /\ more[n] = h
      /\ \A m \in DOMAIN names : more[m] = names[m]
  BY DEF With
<1> HIDE DEF more
<1>9. \A m \in DOMAIN names : names[m].slot # h.slot
  BY <1>4 DEF SlotsOf
<1>10. ASSUME NEW m \in DOMAIN more
       PROVE  /\ more[m] \in SlotIds /\ more[m].slot \in DOMAIN longer
              /\ longer[more[m].slot] = more[m].generation
              /\ more[m].generation > 0
              /\ \A i \in DOMAIN free : free[i] # more[m].slot
              /\ \A k \in DOMAIN more : more[k].slot = more[m].slot => k = m
  <2>1. CASE m = n
    BY <1>3, <1>5, <1>7, <1>8, <1>9, <2>1
  <2>2. CASE m \in DOMAIN names
    BY <1>4, <1>8, <1>9, <2>2 DEF SlotsOf
  <2> QED BY <1>8, <2>1, <2>2
<1>11. ASSUME NEW x \in seen \cup {h}
       PROVE  /\ x \in SlotIds /\ x.slot \in DOMAIN longer
              /\ longer[x.slot] = 0 \/ x.generation <= longer[x.slot]
              /\ \A i \in DOMAIN free : free[i] = x.slot => x.generation < longer[x.slot]
  <2>1. CASE x \in seen
    BY <1>4, <2>1 DEF SlotsOf
  <2>2. CASE x = h
    <3>1. x.generation <= longer[x.slot]
      BY <1>3, <1>5, <2>2
    <3> QED BY <1>3, <1>5, <1>7, <2>2, <3>1
  <2> QED BY <2>1, <2>2
<1>12. \A i, j \in DOMAIN free : free[i] = free[j] => i = j
  BY DEF SlotsOf
<1>13. SlotsOf(more, longer, free, seen \cup {h})
  BY <1>1, <1>2, <1>7, <1>10, <1>11, <1>12 DEF SlotsOf
<1> QED BY <1>3, <1>6, <1>13 DEF more, longer

\* The generation of the slot of a component that goes moves on, to a number
\* nobody has seen, or to 0 for good.
LEMMA SlotsAdvance ==
  ASSUME NEW names, NEW gens, NEW free, NEW seen, SlotsOf(names, gens, free, seen),
         NEW n \in DOMAIN names, NEW k, k = names[n].slot
  PROVE  /\ SlotsOf(Restrict(names, DOMAIN names \ {n}), [gens EXCEPT ![k] = 0], free, seen)
         /\ SlotsOf(Restrict(names, DOMAIN names \ {n}), [gens EXCEPT ![k] = @ + 1],
                    Append(free, k), seen)
<1> DEFINE less == Restrict(names, DOMAIN names \ {n})
<1>1. gens \in Seq(Nat) /\ free \in Seq(Nat)
  BY DEF SlotsOf
<1>2. k \in DOMAIN gens /\ k \in Nat /\ gens[k] \in Nat
  BY <1>1 DEF SlotsOf
<1>3. \A i \in DOMAIN free : free[i] # k
  BY DEF SlotsOf
<1>4. /\ DOMAIN less = DOMAIN names \ {n}
      /\ \A m \in DOMAIN less : m \in DOMAIN names /\ m # n /\ less[m] = names[m]
  BY DEF Restrict
<1> HIDE DEF less
<1>5. \A m \in DOMAIN less : less[m].slot # k
  BY <1>4 DEF SlotsOf
<1>6. ASSUME NEW next, NEW value \in Nat, next = [gens EXCEPT ![k] = value]
      PROVE  /\ next \in Seq(Nat) /\ DOMAIN next = DOMAIN gens /\ next[k] = value
             /\ \A j \in DOMAIN gens \ {k} : next[j] = gens[j]
  BY <1>1, <1>2, <1>6
<1>7. SlotsOf(less, [gens EXCEPT ![k] = 0], free, seen)
  <2> DEFINE next == [gens EXCEPT ![k] = 0]
  <2>1. /\ next \in Seq(Nat) /\ DOMAIN next = DOMAIN gens /\ next[k] = 0
        /\ \A j \in DOMAIN gens \ {k} : next[j] = gens[j]
    BY <1>6
  <2> HIDE DEF next
  <2>2. \A i \in DOMAIN free : free[i] \in DOMAIN next /\ next[free[i]] > 0
    BY <1>3, <2>1 DEF SlotsOf
  <2>3. \A i, j \in DOMAIN free : free[i] = free[j] => i = j
    BY DEF SlotsOf
  <2>4. \A m \in DOMAIN less :
          /\ less[m] \in SlotIds /\ less[m].slot \in DOMAIN next
          /\ next[less[m].slot] = less[m].generation
          /\ less[m].generation > 0
          /\ \A i \in DOMAIN free : free[i] # less[m].slot
          /\ \A j \in DOMAIN less : less[j].slot = less[m].slot => j = m
    BY <1>4, <1>5, <2>1 DEF SlotsOf
  <2>5. ASSUME NEW x \in seen
        PROVE  /\ x \in SlotIds /\ x.slot \in DOMAIN next
               /\ next[x.slot] = 0 \/ x.generation <= next[x.slot]
               /\ \A i \in DOMAIN free : free[i] = x.slot => x.generation < next[x.slot]
    BY <1>3, <2>1 DEF SlotsOf
  <2>6. SlotsOf(less, next, free, seen)
    BY <1>1, <2>1, <2>2, <2>3, <2>4, <2>5 DEF SlotsOf
  <2> QED BY <2>6 DEF next
<1>8. SlotsOf(less, [gens EXCEPT ![k] = @ + 1], Append(free, k), seen)
  <2> DEFINE next == [gens EXCEPT ![k] = @ + 1]
             longer == Append(free, k)
             len == Len(free)
  <2>1. /\ next \in Seq(Nat) /\ DOMAIN next = DOMAIN gens /\ next[k] = gens[k] + 1
        /\ \A j \in DOMAIN gens \ {k} : next[j] = gens[j]
    <3>1. gens[k] + 1 \in Nat
      BY <1>2
    <3> QED BY <1>6, <3>1
  <2>2. /\ longer \in Seq(Nat) /\ len \in Nat
        /\ DOMAIN longer = 1..(len + 1) /\ DOMAIN free = 1..len
        /\ \A i \in 1..len : longer[i] = free[i]
        /\ longer[len + 1] = k
    BY <1>1, <1>2, AppendItems
  <2> HIDE DEF next, longer, len
  <2>3. \A i \in DOMAIN longer : (i \in DOMAIN free /\ longer[i] = free[i])
                                \/ (i = len + 1 /\ longer[i] = k)
    BY <2>2
  <2>4. \A i \in DOMAIN longer : longer[i] \in DOMAIN next /\ next[longer[i]] > 0
    <3> TAKE i \in DOMAIN longer
    <3>1. CASE i \in DOMAIN free /\ longer[i] = free[i]
      BY <1>3, <2>1, <3>1 DEF SlotsOf
    <3>2. CASE longer[i] = k
      BY <1>2, <2>1, <3>2
    <3> QED BY <2>3, <3>1, <3>2
  <2>5. \A i, j \in DOMAIN longer : longer[i] = longer[j] => i = j
    BY <1>3, <2>3 DEF SlotsOf
  <2>6. \A m \in DOMAIN less :
          /\ less[m] \in SlotIds /\ less[m].slot \in DOMAIN next
          /\ next[less[m].slot] = less[m].generation
          /\ less[m].generation > 0
          /\ \A j \in DOMAIN less : less[j].slot = less[m].slot => j = m
    BY <1>4, <1>5, <2>1 DEF SlotsOf
  <2>7. \A m \in DOMAIN less : \A i \in DOMAIN longer : longer[i] # less[m].slot
    BY <1>4, <1>5, <2>3 DEF SlotsOf
  <2>8. ASSUME NEW x \in seen
        PROVE  /\ x \in SlotIds /\ x.slot \in DOMAIN next
               /\ next[x.slot] = 0 \/ x.generation <= next[x.slot]
               /\ \A i \in DOMAIN longer : longer[i] = x.slot => x.generation < next[x.slot]
    <3>1. x \in SlotIds /\ x.slot \in DOMAIN gens /\ x.generation \in Nat
      BY DEF SlotsOf, SlotIds
    <3>2. CASE x.slot = k
      <4>1. gens[k] > 0
        BY <1>2 DEF SlotsOf
      <4>2. gens[x.slot] = 0 \/ x.generation <= gens[x.slot]
        BY DEF SlotsOf
      <4>3. x.generation <= gens[k]
        BY <1>2, <3>2, <4>1, <4>2
      <4> QED BY <1>2, <2>1, <3>1, <3>2, <4>3
    <3>3. CASE x.slot # k
      BY <2>1, <2>3, <3>1, <3>3 DEF SlotsOf
    <3> QED BY <3>2, <3>3
  <2>9. SlotsOf(less, next, longer, seen)
    BY <2>1, <2>2, <2>4, <2>5, <2>6, <2>7, <2>8 DEF SlotsOf
  <2> QED BY <2>9 DEF next, longer
<1> QED BY <1>7, <1>8 DEF less

-----------------------------------------------------------------------------
(* The invariant of handles, accesses and intents *)

BehaviorInv == Pool(active, generations, availableSlots, issued.behaviors)

\* The slots of type t that a caller has seen.
SeenSlots(t) == {h \in SlotIds : <<t, h>> \in issued.slots}

ComponentInv ==
  /\ DOMAIN componentNames = Types
  /\ DOMAIN slotGenerations = Types
  /\ DOMAIN availableComponentSlots = Types
  /\ issued.slots \subseteq Types \X SlotIds
  /\ \A t \in Types :
       SlotsOf(componentNames[t], slotGenerations[t], availableComponentSlots[t], SeenSlots(t))

IssuedShape == issued = [behaviors |-> issued.behaviors, slots |-> issued.slots]

\* An access is one of a live behavior to a component that has a name.
AccessInv ==
  \A a \in accesses :
    /\ a.type \in Types
    /\ a.behavior \in active
    /\ a.slot \in Range(componentNames[a.type])

CallInv ==
  \/ call = Idle
  \/ /\ call = [operation |-> call.operation, subject |-> call.subject, todo |-> call.todo,
                inCallback |-> call.inCallback, threw |-> call.threw]
     /\ call.operation # "none"

BehaviorOperations == {"create_behavior", "undo_behavior", "destroy_behavior"}

\* A behavior that is created, undone or destroyed is live and has no access.
SubjectInv ==
  call.operation \in BehaviorOperations =>
    call.subject \in active /\ \A a \in accesses : a.behavior # call.subject

StrandedShape ==
  stranded = [behaviors |-> stranded.behaviors, intents |-> stranded.intents]

\* Some access of an intent's owner to its target.
Held(i) ==
  \E a \in accesses : a.behavior = i.owner /\ a.type = i.type /\ a.slot = i.slot

\* An intent without any access has an owner that has no revision either:
\* one being destroyed, or half destroyed.
IntentInv ==
  /\ StrandedShape
  /\ \A i \in intents :
       i.type \in Types /\ (i.owner \in DOMAIN behaviorAccessRevisions => Held(i))
  /\ IntentsAuthorised

AccessesInv ==
  BehaviorInv /\ ComponentInv /\ IssuedShape /\ AccessInv /\ CallInv /\ SubjectInv /\ IntentInv

\* Between two steps of an operation only the changes to make, and whether a
\* callback runs or has thrown, change.
LEMMA CallGoesOn ==
  ASSUME CallInv, ChangeMembership \/ \E throws \in BOOLEAN : CallbackEnds(throws)
  PROVE  /\ CallInv' /\ call # Idle /\ call' # Idle
         /\ call'.operation = call.operation /\ call'.subject = call.subject
<1>1. CASE ChangeMembership
  <2> DEFINE rest == call.todo \ {NextChange}
  <2>1. call' = [call EXCEPT !.todo = rest, !.inCallback = TRUE] /\ call.todo # {}
    BY <1>1 DEF ChangeMembership
  <2> HIDE DEF rest
  <2>2. call # Idle
    BY <2>1 DEF Idle
  <2>3. call = [operation |-> call.operation, subject |-> call.subject, todo |-> call.todo,
                inCallback |-> call.inCallback, threw |-> call.threw]
    BY <2>2 DEF CallInv
  <2>4. call' = [operation |-> call.operation, subject |-> call.subject, todo |-> rest,
                 inCallback |-> TRUE, threw |-> call.threw]
    BY <2>1, <2>3
  <2> QED BY <2>2, <2>4 DEF CallInv, Idle
<1>2. ASSUME NEW throws \in BOOLEAN, CallbackEnds(throws)
      PROVE  /\ CallInv' /\ call # Idle /\ call' # Idle
             /\ call'.operation = call.operation /\ call'.subject = call.subject
  <2> DEFINE thrown == call.threw \/ throws
  <2>1. call' = [call EXCEPT !.inCallback = FALSE, !.threw = thrown] /\ call.inCallback
    BY <1>2 DEF CallbackEnds
  <2> HIDE DEF thrown
  <2>2. call # Idle
    BY <2>1 DEF Idle
  <2>3. call = [operation |-> call.operation, subject |-> call.subject, todo |-> call.todo,
                inCallback |-> call.inCallback, threw |-> call.threw]
    BY <2>2 DEF CallInv
  <2>4. call' = [operation |-> call.operation, subject |-> call.subject, todo |-> call.todo,
                 inCallback |-> FALSE, threw |-> thrown]
    BY <2>1, <2>3
  <2> QED BY <2>2, <2>4 DEF CallInv, Idle
<1> QED BY <1>1, <1>2

LEMMA CallStep ==
  ASSUME CallInv, [Next]_vars
  PROVE  CallInv'
<1>1. CASE ChangeMembership \/ \E throws \in BOOLEAN : CallbackEnds(throws)
  BY <1>1, CallGoesOn
<1>2. CASE call' = call \/ call' = Idle
  BY <1>2 DEF CallInv
<1>3. ASSUME NEW operation, NEW subject, NEW todo, call' = Began(operation, subject, todo),
             operation # "none"
      PROVE  CallInv'
  BY <1>3 DEF CallInv, Began
<1>4. CASE CreateBehavior \/ UndoBehavior \/ \E b \in active : DestroyBehavior(b)
  BY <1>2, <1>3, <1>4 DEF CreateBehavior, UndoBehavior, DestroyBehavior
<1>5. ASSUME NEW t \in Types, NEW n \in Names,
             \/ AddComponent(t, n)
             \/ RemoveComponent(t, n) \/ ComponentNotRemoved(t, n)
             \/ \E b \in active :
                  \/ \E mode \in Modes : GrantComponentAccess(b, t, n, mode)
                  \/ IntentsNotDestroyed(b, t, n)
                  \/ RevokeComponentAccess(b, t, n) \/ AccessNotRevoked(b, t, n)
      PROVE  CallInv'
  <2>1. CASE AddComponent(t, n)
    BY <1>2, <2>1 DEF AddComponent
  <2>5. ASSUME NEW b \in active,
               \/ ComponentNotRemoved(t, n) \/ IntentsNotDestroyed(b, t, n)
               \/ AccessNotRevoked(b, t, n)
        PROVE  CallInv'
    <3>1. call' = call
      BY <2>5, Zenon DEF ComponentNotRemoved, IntentsNotDestroyed, AccessNotRevoked
    <3> QED BY <1>2, <3>1
  <2>6. CASE ComponentNotRemoved(t, n)
    BY <1>2, <2>6, Zenon DEF ComponentNotRemoved
  <2>2. CASE RemoveComponent(t, n)
    <3>1. \E todo : call' = Began("remove_component", <<t, n>>, todo)
      BY <2>2, Zenon DEF RemoveComponent
    <3> QED BY <1>3, <3>1
  <2>3. ASSUME NEW b \in active, NEW mode \in Modes, GrantComponentAccess(b, t, n, mode)
        PROVE  CallInv'
    <3>1. \E todo : call' = Began("grant_component_access", b, todo)
      BY <2>3, Zenon DEF GrantComponentAccess
    <3> QED BY <1>3, <3>1
  <2>4. ASSUME NEW b \in active, RevokeComponentAccess(b, t, n)
        PROVE  CallInv'
    <3>1. \E todo : call' = Began("revoke_component_access", b, todo)
      BY <2>4, Zenon DEF RevokeComponentAccess
    <3> QED BY <1>3, <3>1
  <2> QED BY <1>5, <2>1, <2>2, <2>3, <2>4, <2>5, <2>6
<1>6. CASE \E s \in Systems :
             \/ \E signature \in SUBSET Types :
                  RegisterSystem(s, signature) \/ SetSystemSignature(s, signature)
             \/ DestroySystem(s)
  BY <1>2, <1>3, <1>6 DEF RegisterSystem, SetSystemSignature, DestroySystem
<1>7. CASE RunSystems
  BY <1>3, <1>7 DEF RunSystems
<1>8. CASE \/ BehaviorCreated \/ BehaviorUndone \/ BehaviorDestroyed \/ ComponentRemoved
           \/ AccessDone \/ SystemRegistered \/ SystemSignatureSet \/ SystemsRun
           \/ BehaviorNotDestroyed
  BY <1>2, <1>8 DEF BehaviorCreated, BehaviorUndone, BehaviorDestroyed, ComponentRemoved,
     AccessDone, SystemRegistered, SystemSignatureSet, SystemsRun, BehaviorNotDestroyed
<1>9. CASE \/ \E b \in active, h \in issued.slots : CreateIntent(b, h[1], h[2])
           \/ \E i \in intents : DestroyIntent(i)
  BY <1>2, <1>9 DEF CreateIntent, DestroyIntent
<1>10. CASE UNCHANGED vars
  BY <1>2, <1>10 DEF vars
<1> QED BY <1>1, <1>4, <1>5, <1>6, <1>7, <1>8, <1>9, <1>10 DEF Next

-----------------------------------------------------------------------------
(* Behaviors *)

\* The operations on one thing, whichever it is.
Adding == \E t \in Types, n \in Names : AddComponent(t, n)
Removing == \E t \in Types, n \in Names : RemoveComponent(t, n)
Granting ==
  \E t \in Types, n \in Names, b \in active, mode \in Modes : GrantComponentAccess(b, t, n, mode)
\* The operations that run out of lifecycle records.
NotRemoving == \E t \in Types, n \in Names : ComponentNotRemoved(t, n)
Lowering == \E t \in Types, n \in Names, b \in active : IntentsNotDestroyed(b, t, n)
NotRevoking == \E t \in Types, n \in Names, b \in active : AccessNotRevoked(b, t, n)
Revoking == \E t \in Types, n \in Names, b \in active : RevokeComponentAccess(b, t, n)
Destroying == \E b \in active : DestroyBehavior(b)
Registering == \E s \in Systems, signature \in SUBSET Types : RegisterSystem(s, signature)
Resigning == \E s \in Systems, signature \in SUBSET Types : SetSystemSignature(s, signature)
DestroyingSystem == \E s \in Systems : DestroySystem(s)
Intending == \E b \in active, h \in issued.slots : CreateIntent(b, h[1], h[2])
Dropping == \E i \in intents : DestroyIntent(i)
CallingBack == \E throws \in BOOLEAN : CallbackEnds(throws)

LEMMA NextCases ==
  ASSUME [Next]_vars
  PROVE  \/ ChangeMembership \/ CallingBack
         \/ CreateBehavior \/ BehaviorCreated \/ UndoBehavior \/ BehaviorUndone
         \/ Destroying \/ BehaviorDestroyed \/ BehaviorNotDestroyed
         \/ NotRemoving \/ Lowering \/ NotRevoking
         \/ Adding \/ Removing \/ Granting \/ Revoking \/ ComponentRemoved \/ AccessDone
         \/ Registering \/ Resigning \/ DestroyingSystem
         \/ SystemRegistered \/ SystemSignatureSet \/ RunSystems \/ SystemsRun
         \/ Intending \/ Dropping \/ UNCHANGED vars
BY Zenon DEF Next, CallingBack, Destroying, Adding, Removing, Granting, Revoking, Registering,
   Resigning, DestroyingSystem, Intending, Dropping, NotRemoving, Lowering, NotRevoking

\* What each operation leaves alone.
Frame ==
  /\ UNCHANGED behaviorVars \/ CreateBehavior \/ BehaviorUndone \/ BehaviorDestroyed
  /\ UNCHANGED issued \/ CreateBehavior \/ Adding
  /\ UNCHANGED componentVars \/ Adding \/ Removing
  /\ UNCHANGED accesses \/ Destroying \/ Removing \/ Granting \/ Revoking \/ Lowering
  /\ \/ UNCHANGED behaviorSignatures
     \/ CreateBehavior \/ BehaviorUndone \/ Destroying \/ BehaviorDestroyed
     \/ Removing \/ Granting \/ Revoking
  /\ \/ UNCHANGED systems
     \/ ChangeMembership \/ Registering \/ Resigning \/ DestroyingSystem \/ SystemRegistered
  /\ UNCHANGED registrationOrder \/ Registering \/ DestroyingSystem \/ SystemRegistered
  /\ \/ UNCHANGED behaviorAccessRevisions
     \/ CreateBehavior \/ BehaviorUndone \/ Destroying \/ BehaviorDestroyed
     \/ Removing \/ Granting \/ Revoking \/ Lowering
  /\ \/ UNCHANGED evidenceVars
     \/ BehaviorCreated \/ BehaviorDestroyed \/ Adding \/ ComponentRemoved
     \/ SystemRegistered \/ SystemSignatureSet \/ DestroyingSystem
  /\ \/ UNCHANGED stranded
     \/ BehaviorUndone \/ BehaviorDestroyed \/ BehaviorNotDestroyed
     \/ Removing \/ NotRemoving \/ Granting \/ Lowering \/ Revoking \/ Dropping

LEMMA Frames ==
  ASSUME [Next]_vars
  PROVE  Frame
<1>1. CASE ChangeMembership
  BY <1>1, Zenon DEF ChangeMembership, signatureVars, intentVars, Frame
<1>2. CASE CallingBack
  BY <1>2, Zenon DEF CallingBack, CallbackEnds, systemVars, signatureVars, intentVars, Frame
<1>3. CASE CreateBehavior
  <2>1. UNCHANGED <<componentVars, accesses, systemVars, intentVars, evidenceVars>>
    BY <1>3 DEF CreateBehavior
  <2> QED BY <1>3, <2>1, Zenon DEF systemVars, intentVars, Frame
<1>4. CASE BehaviorCreated
  BY <1>4, Zenon DEF BehaviorCreated, systemVars, signatureVars, intentVars, Frame
<1>5. CASE UndoBehavior
  BY <1>5, Zenon DEF UndoBehavior, systemVars, signatureVars, intentVars, Frame
<1>6. CASE BehaviorUndone
  BY <1>6, Zenon DEF BehaviorUndone, systemVars, Frame
<1>7. CASE Destroying
  BY <1>7, Zenon DEF Destroying, DestroyBehavior, systemVars, intentVars, Frame
<1>8. CASE BehaviorDestroyed
  BY <1>8, Zenon DEF BehaviorDestroyed, systemVars, Frame
<1>9. CASE Adding
  BY <1>9, Zenon DEF Adding, AddComponent, systemVars, signatureVars, intentVars, Frame
<1>10. CASE Removing
  BY <1>10, Zenon DEF Removing, RemoveComponent, systemVars, Frame
<1>11. CASE Granting
  <2>1. UNCHANGED <<behaviorVars, componentVars, systemVars, evidenceVars, issued>>
    BY <1>11 DEF Granting, GrantComponentAccess
  <2> QED BY <1>11, <2>1, Zenon DEF systemVars, Frame
<1>12. CASE Revoking
  <2>1. UNCHANGED <<behaviorVars, componentVars, systemVars, evidenceVars, issued>>
    BY <1>12 DEF Revoking, RevokeComponentAccess
  <2> QED BY <1>12, <2>1, Zenon DEF systemVars, Frame
<1>13. CASE ComponentRemoved
  BY <1>13, Zenon DEF ComponentRemoved, systemVars, signatureVars, intentVars, Frame
<1>14. CASE AccessDone
  BY <1>14, Zenon DEF AccessDone, systemVars, signatureVars, intentVars, Frame
<1>15. CASE Registering
  BY <1>15, Zenon DEF Registering, RegisterSystem, signatureVars, intentVars, Frame
<1>16. CASE Resigning
  BY <1>16, Zenon DEF Resigning, SetSystemSignature, signatureVars, intentVars, Frame
<1>17. CASE DestroyingSystem
  BY <1>17, Zenon DEF DestroyingSystem, DestroySystem, signatureVars, intentVars, Frame
<1>18. CASE SystemRegistered
  BY <1>18, Zenon DEF SystemRegistered, signatureVars, intentVars, Frame
<1>19. CASE SystemSignatureSet
  BY <1>19, Zenon DEF SystemSignatureSet, systemVars, signatureVars, intentVars, Frame
<1>20. CASE RunSystems
  BY <1>20, Zenon DEF RunSystems, systemVars, signatureVars, intentVars, Frame
<1>21. CASE SystemsRun
  BY <1>21, Zenon DEF SystemsRun, systemVars, signatureVars, intentVars, Frame
<1>22. CASE Intending
  BY <1>22, Zenon DEF Intending, CreateIntent, systemVars, signatureVars, Frame
<1>23. CASE Dropping
  BY <1>23, Zenon DEF Dropping, DestroyIntent, systemVars, signatureVars, Frame
<1>24. CASE UNCHANGED vars
  BY <1>24, Zenon DEF vars, systemVars, signatureVars, intentVars, Frame
<1>25. CASE BehaviorNotDestroyed
  <2>1. UNCHANGED <<behaviorVars, componentVars, accesses, signatureVars, systemVars,
                    evidenceVars, issued>>
    BY <1>25 DEF BehaviorNotDestroyed
  <2> QED BY <1>25, <2>1, Zenon DEF systemVars, signatureVars, Frame
<1>26. CASE NotRemoving
  <2>1. UNCHANGED <<behaviorVars, componentVars, accesses, behaviorSignatures,
                    behaviorAccessRevisions, systemVars, evidenceVars, issued>>
    BY <1>26 DEF NotRemoving, ComponentNotRemoved
  <2> QED BY <1>26, <2>1, Zenon DEF systemVars, Frame
<1>27. CASE Lowering
  <2>1. UNCHANGED <<behaviorVars, componentVars, behaviorSignatures, systemVars, evidenceVars, issued>>
    BY <1>27 DEF Lowering, IntentsNotDestroyed
  <2> QED BY <1>27, <2>1, Zenon DEF systemVars, Frame
<1>28. CASE NotRevoking
  <2>1. UNCHANGED <<behaviorVars, componentVars, accesses, behaviorSignatures,
                    behaviorAccessRevisions, systemVars, intentVars, evidenceVars, issued>>
    BY <1>28 DEF NotRevoking, AccessNotRevoked
  <2> QED BY <1>28, <2>1, Zenon DEF systemVars, intentVars, Frame
<1> QED
  BY NextCases, <1>25, <1>26, <1>27, <1>28, <1>1, <1>2, <1>3, <1>4, <1>5, <1>6, <1>7, <1>8, <1>9, <1>10, <1>11, <1>12,
     <1>13, <1>14, <1>15, <1>16, <1>17, <1>18, <1>19, <1>20, <1>21, <1>22, <1>23, <1>24, Zenon

LEMMA IssuedFrame ==
  ASSUME IssuedShape, [Next]_vars, ~CreateBehavior
  PROVE  issued'.behaviors = issued.behaviors
<1>1. CASE Adding
  BY <1>1 DEF Adding, AddComponent, IssuedShape
<1>2. CASE UNCHANGED issued
  BY <1>2
<1> QED BY <1>1, <1>2, Frames, Zenon DEF Frame

\* CreateBehavior, when there is room.
LEMMA Created ==
  ASSUME BehaviorInv, IssuedShape, CreateBehavior, availableSlots # <<>>,
         NEW b, b = [slot |-> Last(availableSlots), generation |-> generations[Last(availableSlots)]]
  PROVE  /\ b \in BehaviorIds /\ b \notin active /\ b \notin issued.behaviors
         /\ active' = active \cup {b} /\ BehaviorInv'
<1>1. /\ active' = active \cup {b} /\ generations' = generations
      /\ availableSlots' = Front(availableSlots)
      /\ issued' = [issued EXCEPT !.behaviors = @ \cup {b}]
  BY DEF CreateBehavior
<1>2. issued'.behaviors = issued.behaviors \cup {b}
  BY <1>1 DEF IssuedShape
<1>3. /\ b \in BehaviorIds /\ b \notin active /\ b \notin issued.behaviors
      /\ Pool(active \cup {b}, generations, Front(availableSlots), issued.behaviors \cup {b})
  BY PoolTakes DEF BehaviorInv
<1> QED BY <1>1, <1>2, <1>3 DEF BehaviorInv

LEMMA BehaviorStep ==
  ASSUME BehaviorInv, IssuedShape, SubjectInv, [Next]_vars
  PROVE  BehaviorInv'
<1>1. CASE CreateBehavior
  <2>1. CASE availableSlots = <<>>
    BY <1>1, <2>1 DEF CreateBehavior, behaviorVars, BehaviorInv
  <2>2. CASE availableSlots # <<>>
    BY <1>1, <2>2, Created
  <2> QED BY <2>1, <2>2
<1>2. CASE BehaviorUndone \/ BehaviorDestroyed
  <2>1. call.subject \in active /\ issued' = issued /\ Retire(call.subject)
    BY <1>2 DEF BehaviorUndone, BehaviorDestroyed, BehaviorGone, Finishing, SubjectInv,
       BehaviorOperations
  <2> DEFINE b == call.subject
  <2> HIDE DEF b
  <2>2. /\ Pool(active \ {b}, generations, availableSlots, issued.behaviors)
        /\ (generations[b.slot] # MaxGeneration =>
              Pool(active \ {b}, [generations EXCEPT ![b.slot] = @ + 1],
                   Append(availableSlots, b.slot), issued.behaviors))
    BY <2>1, PoolRetires DEF BehaviorInv, b
  <2>3. Retire(b)
    BY <2>1 DEF b
  <2> QED BY <2>1, <2>2, <2>3 DEF Retire, BehaviorInv
<1>3. CASE ~CreateBehavior /\ ~BehaviorUndone /\ ~BehaviorDestroyed
  <2>1. UNCHANGED behaviorVars
    BY <1>3, Frames, Zenon DEF Frame
  <2>2. issued'.behaviors = issued.behaviors
    BY <1>3, IssuedFrame
  <2> QED BY <2>1, <2>2 DEF BehaviorInv, behaviorVars
<1> QED BY <1>1, <1>2, <1>3

LEMMA IssuedStep ==
  ASSUME IssuedShape, [Next]_vars
  PROVE  IssuedShape'
<1>1. CASE CreateBehavior
  BY <1>1 DEF CreateBehavior, IssuedShape
<1>2. CASE Adding
  BY <1>2 DEF Adding, AddComponent, IssuedShape
<1>3. CASE UNCHANGED issued
  BY <1>3 DEF IssuedShape
<1> QED BY <1>1, <1>2, <1>3, Frames, Zenon DEF Frame

-----------------------------------------------------------------------------
(* Components *)

\* AddComponent gives a slot no caller has seen, and counts it as seen.
LEMMA Added ==
  ASSUME ComponentInv, IssuedShape, NEW t \in Types, NEW n \in Names, AddComponent(t, n)
  PROVE  /\ FreshSlot(t) \in SlotIds /\ FreshSlot(t) \notin SeenSlots(t)
         /\ n \notin DOMAIN componentNames[t]
         /\ componentNames' = [componentNames EXCEPT ![t] = With(@, n, FreshSlot(t))]
         /\ ComponentInv'
<1> DEFINE names == componentNames[t]
           gens == slotGenerations[t]
           free == availableComponentSlots[t]
           seen == SeenSlots(t)
           h == FreshSlot(t)
<1>1. SlotsOf(names, gens, free, seen) /\ n \notin DOMAIN names
  BY DEF ComponentInv, AddComponent
<1>2. gens \in Seq(Nat) /\ free \in Seq(Nat)
  BY <1>1 DEF SlotsOf
<1>3. ASSUME free # <<>>
      PROVE  h = [slot |-> Last(free), generation |-> gens[Last(free)]]
  <2>1. h = [slot |-> Last(free), generation |-> Append(gens, 1)[Last(free)]]
    BY <1>3 DEF FreshSlot
  <2>2. Len(free) \in DOMAIN free /\ Last(free) = free[Len(free)]
    <3> HIDE DEF free
    <3>1. DOMAIN free = 1..Len(free) /\ Len(free) > 0 /\ Last(free) = free[Len(free)]
      BY <1>2, <1>3, FrontItems
    <3>2. Len(free) \in Nat
      BY <1>2
    <3> QED BY <3>1, <3>2
  <2>3. Last(free) \in DOMAIN gens
    BY <1>1, <2>2 DEF SlotsOf
  <2>4. \A i \in DOMAIN gens : Append(gens, 1)[i] = gens[i]
    BY <1>2
  <2> QED BY <2>1, <2>3, <2>4
<1>4. ASSUME free = <<>>
      PROVE  h = [slot |-> Len(gens) + 1, generation |-> 1]
  <2>1. h = [slot |-> Len(gens) + 1, generation |-> Append(gens, 1)[Len(gens) + 1]]
    BY <1>4 DEF FreshSlot
  <2>2. Append(gens, 1)[Len(gens) + 1] = 1
    BY <1>2
  <2> QED BY <2>1, <2>2
<1> HIDE DEF names, gens, free, seen, h
<1>5. /\ h \in SlotIds /\ h \notin seen
      /\ free # <<>> => SlotsOf(With(names, n, h), gens, Front(free), seen \cup {h})
      /\ free = <<>> => SlotsOf(With(names, n, h), Append(gens, 1), free, seen \cup {h})
  <2>1. CASE free # <<>>
    BY <1>1, <1>3, <2>1, SlotsReuse
  <2>2. CASE free = <<>>
    BY <1>1, <1>4, <2>2, SlotsExtend
  <2> QED BY <2>1, <2>2
<1>6. issued'.slots = issued.slots \cup {<<t, h>>}
  BY DEF AddComponent, IssuedShape, h
<1>7. SeenSlots(t)' = seen \cup {h}
  BY <1>5, <1>6 DEF SeenSlots, seen
<1>8. \A u \in Types \ {t} : SeenSlots(u)' = SeenSlots(u)
  BY <1>6 DEF SeenSlots
<1>9. /\ DOMAIN componentNames = Types /\ DOMAIN slotGenerations = Types
      /\ DOMAIN availableComponentSlots = Types /\ issued.slots \subseteq Types \X SlotIds
  BY DEF ComponentInv
<1>10. componentNames' = [componentNames EXCEPT ![t] = With(names, n, h)]
  BY DEF AddComponent, names, h
<1>11. \/ /\ free # <<>>
          /\ availableComponentSlots' = [availableComponentSlots EXCEPT ![t] = Front(free)]
          /\ slotGenerations' = slotGenerations
       \/ /\ free = <<>>
          /\ slotGenerations' = [slotGenerations EXCEPT ![t] = Append(gens, 1)]
          /\ availableComponentSlots' = availableComponentSlots
  BY DEF AddComponent, free, gens
<1>12. SlotsOf(componentNames'[t], slotGenerations'[t], availableComponentSlots'[t],
               SeenSlots(t)')
  <2>1. componentNames'[t] = With(names, n, h)
    BY <1>9, <1>10
  <2>2. CASE free # <<>> /\ availableComponentSlots' = [availableComponentSlots EXCEPT ![t] = Front(free)]
             /\ slotGenerations' = slotGenerations
    BY <1>5, <1>7, <1>9, <2>1, <2>2 DEF gens
  <2>3. CASE free = <<>> /\ slotGenerations' = [slotGenerations EXCEPT ![t] = Append(gens, 1)]
             /\ availableComponentSlots' = availableComponentSlots
    BY <1>5, <1>7, <1>9, <2>1, <2>3 DEF free
  <2> QED BY <1>11, <2>2, <2>3
<1>13. ASSUME NEW u \in Types \ {t}
       PROVE  SlotsOf(componentNames'[u], slotGenerations'[u], availableComponentSlots'[u],
                      SeenSlots(u)')
  <2>1. SlotsOf(componentNames[u], slotGenerations[u], availableComponentSlots[u], SeenSlots(u))
    BY DEF ComponentInv
  <2>2. /\ componentNames'[u] = componentNames[u] /\ slotGenerations'[u] = slotGenerations[u]
        /\ availableComponentSlots'[u] = availableComponentSlots[u]
    BY <1>9, <1>10, <1>11
  <2> QED BY <1>8, <2>1, <2>2
<1>14. ComponentInv'
  <2>1. /\ DOMAIN componentNames' = Types /\ DOMAIN slotGenerations' = Types
        /\ DOMAIN availableComponentSlots' = Types
    BY <1>9, <1>10, <1>11
  <2>2. issued'.slots \subseteq Types \X SlotIds
    BY <1>5, <1>6, <1>9
  <2> QED BY <1>12, <1>13, <2>1, <2>2 DEF ComponentInv
<1> QED BY <1>1, <1>5, <1>10, <1>14 DEF h, seen, names

\* What RemoveComponent does to the components.
LEMMA Removed ==
  ASSUME ComponentInv, NEW t \in Types, NEW n \in Names, RemoveComponent(t, n)
  PROVE  /\ n \in DOMAIN componentNames[t]
         /\ UNCHANGED <<behaviorVars, systemVars, evidenceVars, issued>>
         /\ componentNames' =
              [componentNames EXCEPT ![t] = Restrict(@, DOMAIN @ \ {n})]
         /\ \E value \in Nat :
              slotGenerations' = [slotGenerations EXCEPT ![t] =
                [slotGenerations[t] EXCEPT ![componentNames[t][n].slot] = value]]
         /\ ComponentInv'
<1> DEFINE names == componentNames[t]
           gens == slotGenerations[t]
           free == availableComponentSlots[t]
           seen == SeenSlots(t)
           k == names[n].slot
           less == Restrict(names, DOMAIN names \ {n})
<1>1. /\ n \in DOMAIN names
      /\ UNCHANGED <<behaviorVars, systemVars, evidenceVars, issued>>
      /\ componentNames' = [componentNames EXCEPT ![t] = less]
      /\ AdvanceSlotGeneration(t, k)
  BY DEF RemoveComponent
<1>2. /\ DOMAIN componentNames = Types /\ DOMAIN slotGenerations = Types
      /\ DOMAIN availableComponentSlots = Types /\ issued.slots \subseteq Types \X SlotIds
      /\ SlotsOf(names, gens, free, seen)
  BY DEF ComponentInv
<1> HIDE DEF less
<1>3. /\ SlotsOf(less, [gens EXCEPT ![k] = 0], free, seen)
      /\ SlotsOf(less, [gens EXCEPT ![k] = @ + 1], Append(free, k), seen)
  BY <1>1, <1>2, SlotsAdvance DEF less
<1>4. k \in DOMAIN gens /\ gens[k] \in Nat
  BY <1>1, <1>2 DEF SlotsOf, SlotIds
<1>5. \A u \in Types : SeenSlots(u)' = SeenSlots(u)
  BY <1>1 DEF SeenSlots
<1>6. CASE gens[k] = MaxGeneration
  <2>1. /\ slotGenerations' = [slotGenerations EXCEPT ![t] = [gens EXCEPT ![k] = 0]]
        /\ availableComponentSlots' = availableComponentSlots
    BY <1>1, <1>6 DEF AdvanceSlotGeneration
  <2>2. /\ componentNames'[t] = less /\ slotGenerations'[t] = [gens EXCEPT ![k] = 0]
        /\ availableComponentSlots'[t] = free
    BY <1>1, <1>2, <2>1
  <2>3. \A u \in Types \ {t} :
          /\ componentNames'[u] = componentNames[u] /\ slotGenerations'[u] = slotGenerations[u]
          /\ availableComponentSlots'[u] = availableComponentSlots[u]
    BY <1>1, <1>2, <2>1
  <2>4. /\ DOMAIN componentNames' = Types /\ DOMAIN slotGenerations' = Types
        /\ DOMAIN availableComponentSlots' = Types /\ issued' = issued
    BY <1>1, <1>2, <2>1
  <2> HIDE DEF names, gens, free, k
  <2>5. SlotsOf(componentNames'[t], slotGenerations'[t], availableComponentSlots'[t],
               SeenSlots(t)')
    BY <1>3, <1>5, <2>2
  <2>6. \A u \in Types \ {t} : SlotsOf(componentNames'[u], slotGenerations'[u],
                                  availableComponentSlots'[u], SeenSlots(u)')
    BY <1>5, <2>3 DEF ComponentInv
  <2>7. ComponentInv'
    BY <1>2, <2>4, <2>5, <2>6 DEF ComponentInv
  <2>8. 0 \in Nat
    OBVIOUS
  <2> QED BY <1>1, <2>1, <2>7, <2>8 DEF names, gens, k, less
<1>7. CASE gens[k] # MaxGeneration
  <2>1. /\ slotGenerations' = [slotGenerations EXCEPT ![t] = [gens EXCEPT ![k] = @ + 1]]
        /\ availableComponentSlots' = [availableComponentSlots EXCEPT ![t] = Append(free, k)]
    BY <1>1, <1>7 DEF AdvanceSlotGeneration
  <2>2. /\ componentNames'[t] = less /\ slotGenerations'[t] = [gens EXCEPT ![k] = @ + 1]
        /\ availableComponentSlots'[t] = Append(free, k)
    BY <1>1, <1>2, <2>1
  <2>3. \A u \in Types \ {t} :
          /\ componentNames'[u] = componentNames[u] /\ slotGenerations'[u] = slotGenerations[u]
          /\ availableComponentSlots'[u] = availableComponentSlots[u]
    BY <1>1, <1>2, <2>1
  <2>4. /\ DOMAIN componentNames' = Types /\ DOMAIN slotGenerations' = Types
        /\ DOMAIN availableComponentSlots' = Types /\ issued' = issued
    BY <1>1, <1>2, <2>1
  <2> HIDE DEF names, gens, free, k
  <2>5. SlotsOf(componentNames'[t], slotGenerations'[t], availableComponentSlots'[t],
               SeenSlots(t)')
    BY <1>3, <1>5, <2>2
  <2>6. \A u \in Types \ {t} : SlotsOf(componentNames'[u], slotGenerations'[u],
                                  availableComponentSlots'[u], SeenSlots(u)')
    BY <1>5, <2>3 DEF ComponentInv
  <2>7. ComponentInv'
    BY <1>2, <2>4, <2>5, <2>6 DEF ComponentInv
  <2>8. gens[k] + 1 \in Nat
    BY <1>4
  <2>9. \E value \in Nat :
          slotGenerations' = [slotGenerations EXCEPT ![t] = [gens EXCEPT ![k] = value]]
    BY <2>1, <2>8
  <2> QED BY <1>1, <2>7, <2>9 DEF names, gens, k, less
<1> QED BY <1>6, <1>7

LEMMA ComponentStep ==
  ASSUME ComponentInv, IssuedShape, [Next]_vars
  PROVE  ComponentInv'
<1>1. CASE Adding
  BY <1>1, Added, Zenon DEF Adding
<1>2. CASE Removing
  BY <1>2, Removed, Zenon DEF Removing
<1>3. CASE UNCHANGED componentVars /\ issued'.slots = issued.slots
  BY <1>3 DEF ComponentInv, componentVars, SeenSlots
<1>4. CASE CreateBehavior
  <2>1. UNCHANGED componentVars /\ issued'.slots = issued.slots
    BY <1>4 DEF CreateBehavior, IssuedShape
  <2> QED BY <1>3, <2>1
<1>5. CASE UNCHANGED componentVars /\ UNCHANGED issued
  BY <1>3, <1>5
<1> QED BY <1>1, <1>2, <1>4, <1>5, Frames, Zenon DEF Frame

-----------------------------------------------------------------------------
(* Access *)

\* Intents that go are not stranded any more.
LEMMA StrandedWithout ==
  ASSUME NEW gone, stranded' = [stranded EXCEPT !.intents = @ \ gone], StrandedShape
  PROVE  /\ StrandedShape' /\ stranded'.behaviors = stranded.behaviors
         /\ stranded'.intents = stranded.intents \ gone
<1> DEFINE left == stranded.intents \ gone
<1>1. stranded' = [stranded EXCEPT !.intents = left]
  OBVIOUS
<1> HIDE DEF left
<1>2. stranded' = [behaviors |-> stranded.behaviors, intents |-> left]
  BY <1>1 DEF StrandedShape
<1> QED BY <1>2 DEF StrandedShape, left

LEMMA Removes ==
  ASSUME NEW t, NEW n, RemoveComponent(t, n), NEW slot, slot = componentNames[t][n]
  PROVE  /\ call = Idle
         /\ accesses' = {a \in accesses : ~(a.type = t /\ a.slot = slot)}
         /\ intents' = {i \in intents : ~(i.type = t /\ i.slot = slot)}
         /\ call'.operation = "remove_component" /\ call'.subject = <<t, n>>
         /\ DOMAIN behaviorAccessRevisions' = DOMAIN behaviorAccessRevisions
         /\ StrandedShape =>
              /\ StrandedShape' /\ stranded'.behaviors = stranded.behaviors
              /\ \A i \in intents' : i \in stranded.intents => i \in stranded'.intents
<1>1. /\ call = Idle
      /\ accesses' = {a \in accesses : ~(a.type = t /\ a.slot = slot)}
      /\ intents' = {i \in intents : ~(i.type = t /\ i.slot = slot)}
      /\ call'.operation = "remove_component" /\ call'.subject = <<t, n>>
  BY DEF RemoveComponent, StructureMayChange, Began, IntentsTargeting
<1>2. \E losing : behaviorAccessRevisions' = Revised(losing)
  BY Zenon DEF RemoveComponent
<1>3. stranded' = [stranded EXCEPT !.intents = @ \ IntentsTargeting(t, slot)]
  BY DEF RemoveComponent
<1>4. DOMAIN behaviorAccessRevisions' = DOMAIN behaviorAccessRevisions
  BY <1>2 DEF Revised
<1>5. \A i \in intents' : i \notin IntentsTargeting(t, slot)
  BY <1>1 DEF IntentsTargeting
<1> QED BY <1>1, <1>3, <1>4, <1>5, StrandedWithout

LEMMA Raises ==
  ASSUME NEW b, NEW t, NEW slot, NEW mode, AccessGranted(b, t, slot, mode)
  PROVE  /\ b \in DOMAIN behaviorAccessRevisions
         /\ DOMAIN behaviorAccessRevisions' = DOMAIN behaviorAccessRevisions
         /\ accesses' = {a \in accesses : ~(a.behavior = b /\ a.type = t /\ a.slot = slot)}
                        \cup {[behavior |-> b, type |-> t, slot |-> slot, mode |-> mode]}
<1>1. /\ b \in DOMAIN behaviorAccessRevisions
      /\ accesses' = {a \in accesses : ~(a.behavior = b /\ a.type = t /\ a.slot = slot)}
                     \cup {[behavior |-> b, type |-> t, slot |-> slot, mode |-> mode]}
      /\ \E changed : behaviorAccessRevisions' = Revised(changed)
  BY Zenon DEF AccessGranted
<1> QED BY <1>1 DEF Revised

LEMMA Grants ==
  ASSUME NEW b, NEW t, NEW n, NEW mode, GrantComponentAccess(b, t, n, mode),
         NEW slot, slot = componentNames[t][n]
  PROVE  /\ call = Idle /\ b \in active /\ n \in DOMAIN componentNames[t]
         /\ accesses' = {a \in accesses : ~(a.behavior = b /\ a.type = t /\ a.slot = slot)}
                        \cup {[behavior |-> b, type |-> t, slot |-> slot, mode |-> mode]}
         /\ intents' = IntentsKept(b, t, slot, mode)
         /\ call'.operation = "grant_component_access"
         /\ UNCHANGED <<behaviorVars, componentVars, systemVars, evidenceVars, issued>>
         /\ b \in DOMAIN behaviorAccessRevisions
         /\ DOMAIN behaviorAccessRevisions' = DOMAIN behaviorAccessRevisions
         /\ stranded' = [stranded EXCEPT !.intents = @ \ IntentsOn(b, t, slot)]
<1>1. /\ call = Idle /\ b \in active /\ n \in DOMAIN componentNames[t]
      /\ AccessGranted(b, t, slot, mode)
      /\ intents' = IntentsKept(b, t, slot, mode)
      /\ call'.operation = "grant_component_access"
      /\ UNCHANGED <<behaviorVars, componentVars, systemVars, evidenceVars, issued>>
      /\ stranded' = [stranded EXCEPT !.intents = @ \ IntentsOn(b, t, slot)]
  BY DEF GrantComponentAccess, StructureMayChange, Began
<1> QED BY <1>1, Raises

\* A grant that runs out of lifecycle records.
LEMMA Lowers ==
  ASSUME NEW b, NEW t, NEW n, IntentsNotDestroyed(b, t, n), NEW slot, slot = componentNames[t][n]
  PROVE  /\ call = Idle /\ call' = Idle /\ b \in active /\ n \in DOMAIN componentNames[t]
         /\ accesses' = {a \in accesses : ~(a.behavior = b /\ a.type = t /\ a.slot = slot)}
                        \cup {[behavior |-> b, type |-> t, slot |-> slot, mode |-> "Read"]}
         /\ IntentsOn(b, t, slot) # {}
         /\ stranded' = [stranded EXCEPT !.intents = @ \cup IntentsOn(b, t, slot)]
         /\ UNCHANGED <<behaviorVars, componentVars, behaviorSignatures, systemVars, intents,
                        evidenceVars, issued>>
         /\ b \in DOMAIN behaviorAccessRevisions
         /\ DOMAIN behaviorAccessRevisions' = DOMAIN behaviorAccessRevisions
<1>1. /\ call = Idle /\ call' = Idle /\ b \in active /\ n \in DOMAIN componentNames[t]
      /\ AccessGranted(b, t, slot, "Read") /\ IntentsOn(b, t, slot) # {}
      /\ stranded' = [stranded EXCEPT !.intents = @ \cup IntentsOn(b, t, slot)]
      /\ UNCHANGED <<behaviorVars, componentVars, behaviorSignatures, systemVars, intents,
                     evidenceVars, issued>>
  BY DEF IntentsNotDestroyed, StructureMayChange
<1> QED BY <1>1, Raises

LEMMA Revokes ==
  ASSUME NEW b, NEW t, NEW n, RevokeComponentAccess(b, t, n),
         NEW slot, slot = componentNames[t][n]
  PROVE  /\ call = Idle /\ b \in active /\ n \in DOMAIN componentNames[t]
         /\ accesses' = {a \in accesses : ~(a.behavior = b /\ a.type = t /\ a.slot = slot)}
         /\ intents' = intents \ IntentsOn(b, t, slot)
         /\ call'.operation = "revoke_component_access"
         /\ UNCHANGED <<behaviorVars, componentVars, systemVars, evidenceVars, issued>>
         /\ DOMAIN behaviorAccessRevisions' = DOMAIN behaviorAccessRevisions
         /\ stranded' = [stranded EXCEPT !.intents = @ \ IntentsOn(b, t, slot)]
<1>1. /\ call = Idle /\ b \in active /\ n \in DOMAIN componentNames[t]
      /\ accesses' = {a \in accesses : ~(a.behavior = b /\ a.type = t /\ a.slot = slot)}
      /\ intents' = intents \ IntentsOn(b, t, slot)
      /\ call'.operation = "revoke_component_access"
      /\ UNCHANGED <<behaviorVars, componentVars, systemVars, evidenceVars, issued>>
      /\ stranded' = [stranded EXCEPT !.intents = @ \ IntentsOn(b, t, slot)]
  BY DEF RevokeComponentAccess, StructureMayChange, Began
<1>2. \E losing : behaviorAccessRevisions' = Revised(losing)
  BY Zenon DEF RevokeComponentAccess
<1>3. DOMAIN behaviorAccessRevisions' = DOMAIN behaviorAccessRevisions
  BY <1>2 DEF Revised
<1> QED BY <1>1, <1>3

\* The operations that run out of lifecycle records and leave the access alone.
LEMMA Keeps ==
  ASSUME NotRemoving \/ NotRevoking \/ BehaviorNotDestroyed
  PROVE  /\ UNCHANGED <<behaviorVars, componentVars, accesses, behaviorSignatures,
                        behaviorAccessRevisions, systemVars, evidenceVars, issued>>
         /\ intents' \subseteq intents /\ call' = Idle
         /\ ~BehaviorNotDestroyed => call = Idle
<1>1. CASE NotRemoving
  BY <1>1 DEF NotRemoving, ComponentNotRemoved, StructureMayChange
<1>2. CASE NotRevoking
  BY <1>2 DEF NotRevoking, AccessNotRevoked, StructureMayChange, intentVars
<1>3. CASE BehaviorNotDestroyed
  BY <1>3 DEF BehaviorNotDestroyed, signatureVars
<1> QED BY <1>1, <1>2, <1>3

LEMMA Destroys ==
  ASSUME NEW b, DestroyBehavior(b)
  PROVE  /\ call = Idle /\ b \in active
         /\ accesses' = {a \in accesses : a.behavior # b}
         /\ call'.operation = "destroy_behavior" /\ call'.subject = b
         /\ UNCHANGED <<behaviorVars, componentVars, systemVars, intents, stranded, evidenceVars,
                        issued>>
         /\ DOMAIN behaviorAccessRevisions' = DOMAIN behaviorAccessRevisions \ {b}
BY DEF DestroyBehavior, StructureMayChange, Began, intentVars, Restrict

LEMMA Ends ==
  ASSUME SubjectInv, BehaviorUndone \/ BehaviorDestroyed
  PROVE  /\ active' = active \ {call.subject} /\ call' = Idle
         /\ intents' = {i \in intents : i.owner # call.subject}
         /\ call.subject \in active /\ \A a \in accesses : a.behavior # call.subject
         /\ call.operation \in {"undo_behavior", "destroy_behavior"}
         /\ UNCHANGED <<componentVars, accesses, systemVars>>
         /\ stranded' = [behaviors |-> stranded.behaviors \ {call.subject},
                         intents |-> stranded.intents \intersect intents']
         /\ DOMAIN behaviorAccessRevisions' = DOMAIN behaviorAccessRevisions \ {call.subject}
BY DEF BehaviorUndone, BehaviorDestroyed, BehaviorGone, Retire, Finishing, SubjectInv,
   BehaviorOperations, Restrict

\* The names of a type with one more, or without one of them.
LEMMA NamesRange ==
  ASSUME NEW names, NEW n, NEW h, n \notin DOMAIN names
  PROVE  Range(With(names, n, h)) = Range(names) \cup {h}
BY DEF Range, With

LEMMA FewerNames ==
  ASSUME NEW names, NEW n \in DOMAIN names, NEW x \in Range(names), x # names[n]
  PROVE  x \in Range(Restrict(names, DOMAIN names \ {n}))
BY DEF Range, Restrict

LEMMA AddedRange ==
  ASSUME NEW t, NEW n, n \notin DOMAIN componentNames[t]
  PROVE  Range(With(componentNames[t], n, FreshSlot(t)))
           = Range(componentNames[t]) \cup {FreshSlot(t)}
BY NamesRange

LEMMA AccessStep ==
  ASSUME BehaviorInv, ComponentInv, IssuedShape, AccessInv, SubjectInv, [Next]_vars
  PROVE  AccessInv'
<1>1. CASE Destroying
  <2>1. PICK b \in active : DestroyBehavior(b)
    BY <1>1 DEF Destroying
  <2>2. accesses' \subseteq accesses /\ active' = active /\ componentNames' = componentNames
    BY <2>1, Destroys DEF behaviorVars, componentVars
  <2> QED BY <2>2 DEF AccessInv
<1>2. CASE Removing
  <2>1. PICK t \in Types, n \in Names : RemoveComponent(t, n)
    BY <1>2 DEF Removing
  <2> DEFINE slot == componentNames[t][n]
             less == Restrict(componentNames[t], DOMAIN componentNames[t] \ {n})
  <2>2. accesses' = {a \in accesses : ~(a.type = t /\ a.slot = slot)}
    BY <2>1, Removes
  <2>3. /\ n \in DOMAIN componentNames[t] /\ active' = active
        /\ componentNames' = [componentNames EXCEPT ![t] = less]
    BY <2>1, Removed DEF behaviorVars
  <2>4. \A x \in Range(componentNames[t]) : x # slot => x \in Range(less)
    BY <2>3, FewerNames
  <2>5. DOMAIN componentNames = Types
    BY DEF ComponentInv
  <2> HIDE DEF less, slot
  <2> SUFFICES ASSUME NEW a \in accesses, ~(a.type = t /\ a.slot = slot)
               PROVE  /\ a.type \in Types /\ a.behavior \in active
                      /\ a.slot \in Range(componentNames'[a.type])
    BY <2>2, <2>3 DEF AccessInv
  <2>6. a.type \in Types /\ a.behavior \in active /\ a.slot \in Range(componentNames[a.type])
    BY DEF AccessInv
  <2>7. CASE a.type = t
    <3>1. componentNames'[a.type] = less
      BY <2>3, <2>5, <2>7
    <3> QED BY <2>4, <2>6, <2>7, <3>1
  <2>8. CASE a.type # t
    <3>1. componentNames'[a.type] = componentNames[a.type]
      BY <2>3, <2>5, <2>6, <2>8
    <3> QED BY <2>6, <3>1
  <2> QED BY <2>7, <2>8
<1>3. CASE Granting
  <2>1. PICK t \in Types, n \in Names, b \in active, mode \in Modes :
          GrantComponentAccess(b, t, n, mode)
    BY <1>3 DEF Granting
  <2> DEFINE slot == componentNames[t][n]
             new == [behavior |-> b, type |-> t, slot |-> slot, mode |-> mode]
  <2>2. /\ accesses' = {a \in accesses : ~(a.behavior = b /\ a.type = t /\ a.slot = slot)}
                       \cup {new}
        /\ active' = active /\ componentNames' = componentNames
        /\ n \in DOMAIN componentNames[t]
    BY <2>1, Grants DEF behaviorVars, componentVars
  <2>3. slot \in Range(componentNames[t])
    BY <2>2 DEF Range
  <2>4. new.behavior = b /\ new.type = t /\ new.slot = slot
    OBVIOUS
  <2> HIDE DEF slot, new
  <2> QED BY <2>2, <2>3, <2>4 DEF AccessInv
<1>10. CASE Lowering
  <2>1. PICK t \in Types, n \in Names, b \in active : IntentsNotDestroyed(b, t, n)
    BY <1>10 DEF Lowering
  <2> DEFINE slot == componentNames[t][n]
             new == [behavior |-> b, type |-> t, slot |-> slot, mode |-> "Read"]
  <2>2. /\ accesses' = {a \in accesses : ~(a.behavior = b /\ a.type = t /\ a.slot = slot)}
                       \cup {new}
        /\ active' = active /\ componentNames' = componentNames
        /\ n \in DOMAIN componentNames[t]
    BY <2>1, Lowers DEF behaviorVars, componentVars
  <2>3. slot \in Range(componentNames[t])
    BY <2>2 DEF Range
  <2>4. new.behavior = b /\ new.type = t /\ new.slot = slot
    OBVIOUS
  <2> HIDE DEF slot, new
  <2> QED BY <2>2, <2>3, <2>4 DEF AccessInv
<1>4. CASE Revoking
  <2>1. PICK t \in Types, n \in Names, b \in active : RevokeComponentAccess(b, t, n)
    BY <1>4 DEF Revoking
  <2>2. accesses' \subseteq accesses /\ active' = active /\ componentNames' = componentNames
    BY <2>1, Revokes DEF behaviorVars, componentVars
  <2> QED BY <2>2 DEF AccessInv
<1>5. CASE Adding
  <2>1. PICK t \in Types, n \in Names : AddComponent(t, n)
    BY <1>5 DEF Adding
  <2> DEFINE more == With(componentNames[t], n, FreshSlot(t))
  <2>2. /\ componentNames' = [componentNames EXCEPT ![t] = more]
        /\ n \notin DOMAIN componentNames[t]
    BY <2>1, Added
  <2>3. accesses' = accesses /\ active' = active
    BY <2>1 DEF AddComponent, behaviorVars
  <2>4. Range(componentNames[t]) \subseteq Range(more)
    <3>1. n \notin DOMAIN componentNames[t]
      BY <2>2
    <3>2. Range(more) = Range(componentNames[t]) \cup {FreshSlot(t)}
      BY <3>1, NamesRange
    <3> QED BY <3>2
  <2>5. DOMAIN componentNames = Types
    BY DEF ComponentInv
  <2> HIDE DEF more
  <2>6. \A u \in Types : Range(componentNames[u]) \subseteq Range(componentNames'[u])
    BY <2>2, <2>4, <2>5
  <2> QED BY <2>3, <2>6 DEF AccessInv
<1>6. CASE BehaviorUndone \/ BehaviorDestroyed
  BY <1>6, Ends DEF AccessInv, componentVars
<1>7. CASE UNCHANGED accesses /\ UNCHANGED componentVars /\ active \subseteq active'
  BY <1>7 DEF AccessInv, componentVars
<1>8. CASE CreateBehavior
  BY <1>7, <1>8 DEF CreateBehavior, behaviorVars
<1>9. CASE UNCHANGED accesses /\ UNCHANGED componentVars /\ UNCHANGED behaviorVars
  BY <1>7, <1>9 DEF behaviorVars
<1> QED BY <1>1, <1>2, <1>3, <1>4, <1>5, <1>6, <1>8, <1>9, <1>10, Frames, Zenon DEF Frame

LEMMA SubjectStep ==
  ASSUME BehaviorInv, IssuedShape, AccessInv, CallInv, SubjectInv, [Next]_vars
  PROVE  SubjectInv'
<1>1. CASE ChangeMembership \/ CallingBack
  <2>1. call'.operation = call.operation /\ call'.subject = call.subject
    BY <1>1, CallGoesOn DEF CallingBack
  <2>2. accesses' = accesses /\ active' = active
    BY <1>1 DEF ChangeMembership, CallingBack, CallbackEnds, behaviorVars
  <2> QED BY <2>1, <2>2 DEF SubjectInv
<1>2. CASE CreateBehavior
  <2>1. CASE availableSlots = <<>>
    BY <1>2, <2>1 DEF CreateBehavior, StructureMayChange, SubjectInv, Idle, BehaviorOperations
  <2>2. CASE availableSlots # <<>>
    <3> DEFINE b == [slot |-> Last(availableSlots),
                     generation |-> generations[Last(availableSlots)]]
    <3>1. call'.subject = b /\ accesses' = accesses
      BY <1>2, <2>2 DEF CreateBehavior, Began
    <3> HIDE DEF b
    <3>2. b \notin active /\ active' = active \cup {b}
      BY <1>2, <2>2, Created DEF b
    <3> QED BY <3>1, <3>2 DEF SubjectInv, AccessInv
  <2> QED BY <2>1, <2>2
<1>3. CASE Destroying
  <2>1. PICK b \in active : DestroyBehavior(b)
    BY <1>3 DEF Destroying
  <2> QED BY <2>1, Destroys DEF SubjectInv, behaviorVars
<1>4. CASE UndoBehavior
  <2>1. /\ call.operation = "create_behavior" /\ call'.subject = call.subject
        /\ accesses' = accesses /\ active' = active
    BY <1>4 DEF UndoBehavior, Finishing, Began, behaviorVars
  <2> QED BY <2>1 DEF SubjectInv, BehaviorOperations
<1>5. CASE call'.operation \notin BehaviorOperations
  BY <1>5 DEF SubjectInv
<1>6. CASE call' = Idle
  BY <1>5, <1>6 DEF Idle, BehaviorOperations
<1>7. CASE Removing \/ Granting \/ Revoking
  BY <1>5, <1>7, Removes, Grants, Revokes DEF Removing, Granting, Revoking, BehaviorOperations
<1>8. CASE Registering \/ Resigning \/ RunSystems
  <2>1. \E operation \in {"register_system", "set_system_signature", "run_systems"} :
          \E subject, todo : call' = Began(operation, subject, todo)
    BY <1>8, Zenon DEF Registering, Resigning, RunSystems, RegisterSystem, SetSystemSignature
  <2> QED BY <1>5, <2>1 DEF Began, BehaviorOperations
<1>9. CASE Adding \/ DestroyingSystem
  BY <1>6, <1>9 DEF Adding, AddComponent, DestroyingSystem, DestroySystem, StructureMayChange
<1>10. CASE \/ BehaviorCreated \/ BehaviorUndone \/ BehaviorDestroyed \/ ComponentRemoved
            \/ AccessDone \/ SystemRegistered \/ SystemSignatureSet \/ SystemsRun
  BY <1>6, <1>10 DEF BehaviorCreated, BehaviorUndone, BehaviorDestroyed, ComponentRemoved,
     AccessDone, SystemRegistered, SystemSignatureSet, SystemsRun
<1>12. CASE NotRemoving \/ NotRevoking \/ BehaviorNotDestroyed
  BY <1>6, <1>12, Keeps
<1>13. CASE Lowering
  BY <1>6, <1>13, Lowers DEF Lowering
<1>11. CASE Intending \/ Dropping \/ UNCHANGED vars
  BY <1>11 DEF Intending, CreateIntent, Dropping, DestroyIntent, vars, behaviorVars, SubjectInv
<1> QED
  BY NextCases, <1>1, <1>2, <1>3, <1>4, <1>7, <1>8, <1>9, <1>10, <1>11, <1>12, <1>13, Zenon

-----------------------------------------------------------------------------
(* Intents *)

\* The access an intent is made by.
Granted(i) ==
  \E a \in accesses : /\ a.behavior = i.owner /\ a.type = i.type /\ a.slot = i.slot
                      /\ a.mode \in {"Write", "ReadWrite"}

Leaving(i) == call.operation = "destroy_behavior" /\ call.subject = i.owner

\* What IntentInv says of an intent, in terms of accesses.
Backing(i) ==
  /\ i.type \in Types /\ i.owner \in active /\ i.slot \in Range(componentNames[i.type])
  /\ Leaving(i) \/ Granted(i) \/ i \in stranded.intents
  /\ i.owner \in DOMAIN behaviorAccessRevisions => Held(i)

Backed == StrandedShape /\ \A i \in intents : Backing(i)

\* A name stands for a slot with its current generation.
LEMMA NamedIsCurrent ==
  ASSUME NEW names, NEW gens, NEW free, NEW seen, SlotsOf(names, gens, free, seen),
         NEW slot \in Range(names)
  PROVE  slot.slot \in DOMAIN gens /\ gens[slot.slot] = slot.generation
BY DEF SlotsOf, Range

\* It is enough to know the access: its slot is current.
LEMMA GrantedSuffices ==
  ComponentInv /\ AccessInv /\ Backed => IntentInv
<1> SUFFICES ASSUME ComponentInv, AccessInv, Backed
             PROVE  IntentInv
  OBVIOUS
<1>1. ASSUME NEW i \in intents, Granted(i)
      PROVE  CanWrite(i.owner, i.type, i.slot)
  <2>1. PICK a \in accesses : /\ a.behavior = i.owner /\ a.type = i.type /\ a.slot = i.slot
                              /\ a.mode \in {"Write", "ReadWrite"}
    BY <1>1 DEF Granted
  <2>2. i.owner \in active /\ i.type \in Types /\ i.slot \in Range(componentNames[i.type])
    BY <2>1 DEF AccessInv
  <2>3. SlotIsCurrent(i.type, i.slot)
    BY <2>2, NamedIsCurrent DEF SlotIsCurrent, ComponentInv
  <2>4. a.mode \in AccessOf(i.owner, i.type, i.slot)
    BY <2>1 DEF AccessOf
  <2> QED BY <2>1, <2>2, <2>3, <2>4 DEF CanWrite
<1>2. ASSUME NEW i \in intents
      PROVE  /\ i.owner \in active /\ i.slot \in Range(componentNames[i.type])
             /\ \/ CanWrite(i.owner, i.type, i.slot) \/ Leaving(i) \/ i \in stranded.intents
             /\ i.type \in Types /\ (i.owner \in DOMAIN behaviorAccessRevisions => Held(i))
  BY <1>1 DEF Backed, Backing
<1>3. IntentsAuthorised
  BY <1>2 DEF IntentsAuthorised, Leaving
<1>4. StrandedShape
  BY DEF Backed
<1> QED BY <1>2, <1>3, <1>4 DEF IntentInv

LEMMA IntentsGranted ==
  ASSUME IntentInv
  PROVE  Backed
<1>1. ASSUME NEW i \in intents, CanWrite(i.owner, i.type, i.slot)
      PROVE  Granted(i)
  BY <1>1 DEF Granted, CanWrite, AccessOf
<1>2. ASSUME NEW i \in intents
      PROVE  Backing(i)
  BY <1>1 DEF IntentInv, IntentsAuthorised, Leaving, Backing
<1> QED BY <1>2 DEF Backed, IntentInv

\* What backs an intent still does when it loses nothing.
LEMMA StillBacked ==
  ASSUME NEW i, Backing(i), active \subseteq active' \/ i.owner \in active',
         i.slot \in Range(componentNames'[i.type]),
         \A a \in accesses :
           a.behavior = i.owner /\ a.type = i.type /\ a.slot = i.slot => a \in accesses',
         i.owner \in DOMAIN behaviorAccessRevisions' => i.owner \in DOMAIN behaviorAccessRevisions,
         i \in stranded.intents => i \in stranded'.intents,
         Leaving(i) => Leaving(i)' \/ i \in stranded'.intents
  PROVE  Backing(i)'
<1>1. i.type \in Types /\ i.owner \in active'
  BY DEF Backing
<1>2. Leaving(i)' \/ Granted(i)' \/ i \in stranded'.intents
  BY DEF Backing, Granted
<1>3. i.owner \in DOMAIN behaviorAccessRevisions' => Held(i)'
  BY DEF Backing, Held
<1> QED BY <1>1, <1>2, <1>3 DEF Backing

\* The names the components have stay, if the component is not removed.
LEMMA NamesStay ==
  ASSUME ComponentInv, IssuedShape, [Next]_vars, ~Removing, NEW t \in Types,
         NEW slot \in Range(componentNames[t])
  PROVE  slot \in Range(componentNames'[t])
<1>1. CASE Adding
  <2>1. PICK u \in Types, n \in Names : AddComponent(u, n)
    BY <1>1 DEF Adding
  <2> DEFINE more == With(componentNames[u], n, FreshSlot(u))
  <2>2. /\ componentNames' = [componentNames EXCEPT ![u] = more]
        /\ n \notin DOMAIN componentNames[u]
    BY <2>1, Added
  <2>3. Range(more) = Range(componentNames[u]) \cup {FreshSlot(u)}
    BY <2>2, AddedRange
  <2>4. DOMAIN componentNames = Types
    BY DEF ComponentInv
  <2> HIDE DEF more
  <2> QED BY <2>2, <2>3, <2>4
<1>2. CASE UNCHANGED componentVars
  BY <1>2 DEF componentVars
<1> QED BY <1>1, <1>2, Frames, Zenon DEF Frame

LEMMA IntentStep ==
  ASSUME AccessesInv, [Next]_vars, ComponentInv', AccessInv'
  PROVE  IntentInv'
<1>1. StrandedShape /\ \A i \in intents : Backing(i)
  BY IntentsGranted DEF AccessesInv, Backed
<1>2. SUFFICES StrandedShape' /\ \A i \in intents' : Backing(i)'
  <2>1. ComponentInv' /\ AccessInv' /\ Backed' => IntentInv'
    BY GrantedSuffices, PTL
  <2> QED BY <2>1 DEF Backed
<1>3. SubjectInv /\ CallInv /\ ComponentInv /\ IssuedShape /\ BehaviorInv
  BY DEF AccessesInv
<1>15. ~Removing => \A i \in intents : i.slot \in Range(componentNames'[i.type])
  <2> SUFFICES ASSUME ~Removing, NEW i \in intents
               PROVE  i.slot \in Range(componentNames'[i.type])
    OBVIOUS
  <2>1. i.type \in Types /\ i.slot \in Range(componentNames[i.type])
    BY <1>1 DEF Backing
  <2> QED BY <1>3, <2>1, NamesStay
<1>4. CASE Intending
  <2>1. PICK b \in active, h \in issued.slots : CreateIntent(b, h[1], h[2])
    BY <1>4 DEF Intending
  <2> DEFINE new == [owner |-> b, type |-> h[1], slot |-> h[2]]
  <2>2. /\ intents' = intents \cup {new} /\ CanWrite(b, h[1], h[2])
        /\ accesses' = accesses /\ call' = call /\ stranded' = stranded /\ active' = active
        /\ behaviorAccessRevisions' = behaviorAccessRevisions /\ componentNames' = componentNames
    BY <2>1 DEF CreateIntent, MayCreateIntent, behaviorVars, componentVars, signatureVars
  <2>3. \A i \in intents : Backing(i)'
    BY <1>1, <2>2 DEF Backing, Granted, Leaving, Held
  <2>4. Backing(new)'
    <3>1. h[1] \in Types
      BY <1>3 DEF ComponentInv
    <3>2. PICK a \in accesses : /\ a.behavior = b /\ a.type = h[1] /\ a.slot = h[2]
                                /\ a.mode \in {"Write", "ReadWrite"}
      BY <2>2 DEF CanWrite, AccessOf
    <3>3. new.owner = b /\ new.type = h[1] /\ new.slot = h[2]
      OBVIOUS
    <3>4. h[2] \in Range(componentNames[h[1]])
      BY <3>2 DEF AccessesInv, AccessInv
    <3> HIDE DEF new
    <3>5. Granted(new)' /\ Held(new)'
      BY <2>2, <3>2, <3>3 DEF Granted, Held
    <3> QED BY <2>2, <3>1, <3>3, <3>4, <3>5 DEF Backing
  <2> HIDE DEF new
  <2>5. StrandedShape'
    BY <1>1, <2>2 DEF StrandedShape
  <2> QED BY <2>2, <2>3, <2>4, <2>5
<1>5. CASE Destroying
  <2>1. PICK b \in active : DestroyBehavior(b)
    BY <1>5 DEF Destroying
  <2>2. /\ call = Idle /\ accesses' = {a \in accesses : a.behavior # b} /\ intents' = intents
        /\ call'.operation = "destroy_behavior" /\ call'.subject = b /\ active' = active
        /\ stranded' = stranded
        /\ DOMAIN behaviorAccessRevisions' = DOMAIN behaviorAccessRevisions \ {b}
        /\ componentNames' = componentNames
    BY <2>1, Destroys DEF behaviorVars, componentVars
  <2>3. StrandedShape'
    BY <1>1, <2>2 DEF StrandedShape
  <2>4. ASSUME NEW i \in intents
        PROVE  Backing(i)'
    <3>1. Backing(i)
      BY <1>1
    <3>2. CASE i.owner = b
      <4>1. Leaving(i)'
        BY <2>2, <3>2 DEF Leaving
      <4> QED BY <2>2, <3>1, <3>2, <4>1 DEF Backing
    <3>3. CASE i.owner # b
      <4>1. ~Leaving(i)
        BY <2>2 DEF Leaving, Idle
      <4> QED BY <2>2, <3>1, <3>3, <4>1 DEF Backing, Granted, Held
    <3> QED BY <3>2, <3>3
  <2> QED BY <2>2, <2>3, <2>4
<1>6. CASE Removing
  <2>1. PICK t \in Types, n \in Names : RemoveComponent(t, n)
    BY <1>6 DEF Removing
  <2> DEFINE slot == componentNames[t][n]
             less == Restrict(componentNames[t], DOMAIN componentNames[t] \ {n})
  <2>2. /\ call = Idle /\ accesses' = {a \in accesses : ~(a.type = t /\ a.slot = slot)}
        /\ intents' = {x \in intents : ~(x.type = t /\ x.slot = slot)}
        /\ DOMAIN behaviorAccessRevisions' = DOMAIN behaviorAccessRevisions
        /\ StrandedShape'
        /\ \A i \in intents' : i \in stranded.intents => i \in stranded'.intents
    BY <1>1, <2>1, Removes
  <2>3. /\ n \in DOMAIN componentNames[t] /\ active' = active
        /\ componentNames' = [componentNames EXCEPT ![t] = less]
    BY <1>3, <2>1, Removed DEF behaviorVars
  <2>4. \A x \in Range(componentNames[t]) : x # slot => x \in Range(less)
    BY <2>3, FewerNames
  <2>5. DOMAIN componentNames = Types
    BY <1>3 DEF ComponentInv
  <2> HIDE DEF slot, less
  <2>6. ASSUME NEW i \in intents'
        PROVE  Backing(i)'
    <3>1. i \in intents /\ Backing(i) /\ ~(i.type = t /\ i.slot = slot)
      BY <1>1, <2>2
    <3>2. i.slot \in Range(componentNames'[i.type])
      <4>1. i.type \in Types /\ i.slot \in Range(componentNames[i.type])
        BY <3>1 DEF Backing
      <4>2. CASE i.type = t
        BY <2>3, <2>4, <2>5, <3>1, <4>1, <4>2
      <4>3. CASE i.type # t
        BY <2>3, <2>5, <4>1, <4>3
      <4> QED BY <4>2, <4>3
    <3>3. ~Leaving(i)
      BY <2>2 DEF Leaving, Idle
    <3>4. \A a \in accesses :
            a.behavior = i.owner /\ a.type = i.type /\ a.slot = i.slot => a \in accesses'
      BY <2>2, <3>1
    <3> QED BY <2>2, <2>3, <3>1, <3>2, <3>3, <3>4, StillBacked
  <2> QED BY <2>2, <2>6
<1>7. CASE Granting
  <2>1. PICK t \in Types, n \in Names, b \in active, mode \in Modes :
          GrantComponentAccess(b, t, n, mode)
    BY <1>7 DEF Granting
  <2> DEFINE slot == componentNames[t][n]
             new == [behavior |-> b, type |-> t, slot |-> slot, mode |-> mode]
             ending == IntentsOn(b, t, slot)
  <2>2. /\ call = Idle
        /\ accesses' = {a \in accesses : ~(a.behavior = b /\ a.type = t /\ a.slot = slot)}
                       \cup {new}
        /\ intents' = IntentsKept(b, t, slot, mode)
        /\ active' = active /\ componentNames' = componentNames
        /\ DOMAIN behaviorAccessRevisions' = DOMAIN behaviorAccessRevisions
        /\ stranded' = [stranded EXCEPT !.intents = @ \ ending]
    BY <2>1, Grants DEF behaviorVars, componentVars
  <2>3. new.behavior = b /\ new.type = t /\ new.slot = slot /\ new.mode = mode
    OBVIOUS
  <2> HIDE DEF slot, new, ending
  <2>4. StrandedShape' /\ stranded'.intents = stranded.intents \ ending
    BY <1>1, <2>2, StrandedWithout
  <2>5. ASSUME NEW i \in intents'
        PROVE  Backing(i)'
    <3>1. i \in intents /\ Backing(i)
      BY <1>1, <2>2 DEF IntentsKept
    <3>2. ~Leaving(i)
      BY <2>2 DEF Leaving, Idle
    <3>3. CASE i.owner = b /\ i.type = t /\ i.slot = slot
      <4>1. mode # "Read"
        BY <2>2, <3>1, <3>3 DEF IntentsKept, IntentsOn
      <4>2. mode \in {"Write", "ReadWrite"}
        BY <4>1 DEF Modes
      <4>3. Granted(i)' /\ Held(i)'
        BY <2>2, <2>3, <3>3, <4>2 DEF Granted, Held
      <4> QED BY <2>2, <3>1, <4>3 DEF Backing
    <3>4. CASE ~(i.owner = b /\ i.type = t /\ i.slot = slot)
      <4>1. i \in stranded.intents => i \in stranded'.intents
        BY <2>4, <3>4 DEF ending, IntentsOn
      <4>2. /\ i.owner \in active' /\ i.slot \in Range(componentNames'[i.type])
            /\ \A a \in accesses :
                 a.behavior = i.owner /\ a.type = i.type /\ a.slot = i.slot => a \in accesses'
        BY <2>2, <3>1, <3>4 DEF Backing
      <4> QED BY <2>2, <3>1, <3>2, <4>1, <4>2, StillBacked
    <3> QED BY <3>3, <3>4
  <2> QED BY <2>4, <2>5
<1>16. CASE Lowering
  <2>1. PICK t \in Types, n \in Names, b \in active : IntentsNotDestroyed(b, t, n)
    BY <1>16 DEF Lowering
  <2> DEFINE slot == componentNames[t][n]
             new == [behavior |-> b, type |-> t, slot |-> slot, mode |-> "Read"]
             more == stranded.intents \cup IntentsOn(b, t, slot)
  <2>2. /\ call = Idle
        /\ accesses' = {a \in accesses : ~(a.behavior = b /\ a.type = t /\ a.slot = slot)}
                       \cup {new}
        /\ intents' = intents /\ active' = active /\ componentNames' = componentNames
        /\ DOMAIN behaviorAccessRevisions' = DOMAIN behaviorAccessRevisions
        /\ stranded' = [stranded EXCEPT !.intents = more]
    BY <2>1, Lowers DEF behaviorVars, componentVars
  <2>3. new.behavior = b /\ new.type = t /\ new.slot = slot
    OBVIOUS
  <2> HIDE DEF slot, new, more
  <2>4. stranded' = [behaviors |-> stranded.behaviors, intents |-> more]
    BY <1>1, <2>2 DEF StrandedShape
  <2>5. StrandedShape' /\ stranded'.intents = stranded.intents \cup IntentsOn(b, t, slot)
    BY <2>4 DEF StrandedShape, more
  <2>6. ASSUME NEW i \in intents
        PROVE  Backing(i)'
    <3>1. Backing(i) /\ ~Leaving(i)
      BY <1>1, <2>2 DEF Leaving, Idle
    <3>2. CASE i.owner = b /\ i.type = t /\ i.slot = slot
      <4>1. i \in stranded'.intents
        BY <2>5, <3>2 DEF IntentsOn
      <4>2. Held(i)'
        BY <2>2, <2>3, <3>2 DEF Held
      <4> QED BY <2>2, <3>1, <4>1, <4>2 DEF Backing
    <3>3. CASE ~(i.owner = b /\ i.type = t /\ i.slot = slot)
      <4>1. i \in stranded.intents => i \in stranded'.intents
        BY <2>5
      <4>2. /\ i.owner \in active' /\ i.slot \in Range(componentNames'[i.type])
            /\ \A a \in accesses :
                 a.behavior = i.owner /\ a.type = i.type /\ a.slot = i.slot => a \in accesses'
        BY <2>2, <3>1, <3>3 DEF Backing
      <4> QED BY <2>2, <3>1, <4>1, <4>2, StillBacked
    <3> QED BY <3>2, <3>3
  <2> QED BY <2>2, <2>5, <2>6
<1>8. CASE Revoking
  <2>1. PICK t \in Types, n \in Names, b \in active : RevokeComponentAccess(b, t, n)
    BY <1>8 DEF Revoking
  <2> DEFINE slot == componentNames[t][n]
             ending == IntentsOn(b, t, slot)
  <2>2. /\ call = Idle
        /\ accesses' = {a \in accesses : ~(a.behavior = b /\ a.type = t /\ a.slot = slot)}
        /\ intents' = intents \ ending
        /\ active' = active /\ componentNames' = componentNames
        /\ DOMAIN behaviorAccessRevisions' = DOMAIN behaviorAccessRevisions
        /\ stranded' = [stranded EXCEPT !.intents = @ \ ending]
    BY <2>1, Revokes DEF behaviorVars, componentVars
  <2> HIDE DEF slot, ending
  <2>3. StrandedShape' /\ stranded'.intents = stranded.intents \ ending
    BY <1>1, <2>2, StrandedWithout
  <2>4. ASSUME NEW i \in intents'
        PROVE  Backing(i)'
    <3>1. /\ i \in intents /\ Backing(i) /\ ~Leaving(i)
          /\ ~(i.owner = b /\ i.type = t /\ i.slot = slot)
      BY <1>1, <2>2 DEF Leaving, Idle, ending, IntentsOn
    <3>2. i \in stranded.intents => i \in stranded'.intents
      BY <2>2, <2>3
    <3>3. /\ i.owner \in active' /\ i.slot \in Range(componentNames'[i.type])
          /\ \A a \in accesses :
               a.behavior = i.owner /\ a.type = i.type /\ a.slot = i.slot => a \in accesses'
      BY <2>2, <3>1 DEF Backing
    <3> QED BY <2>2, <3>1, <3>2, <3>3, StillBacked
  <2> QED BY <2>3, <2>4
<1>9. CASE BehaviorUndone \/ BehaviorDestroyed
  <2> DEFINE b == call.subject
  <2>1. /\ intents' = {x \in intents : x.owner # b} /\ accesses' = accesses
        /\ active' = active \ {b} /\ componentNames' = componentNames
        /\ stranded' = [behaviors |-> stranded.behaviors \ {b},
                        intents |-> stranded.intents \intersect intents']
        /\ DOMAIN behaviorAccessRevisions' = DOMAIN behaviorAccessRevisions \ {b}
    BY <1>3, <1>9, Ends DEF componentVars
  <2>2. StrandedShape' /\ stranded'.intents = stranded.intents \intersect intents'
    BY <2>1 DEF StrandedShape
  <2>3. ASSUME NEW i \in intents'
        PROVE  Backing(i)'
    <3>1. i \in intents /\ Backing(i) /\ i.owner # b /\ ~Leaving(i)
      BY <1>1, <2>1 DEF Leaving
    <3> HIDE DEF b
    <3>2. /\ i.owner \in active' /\ i.slot \in Range(componentNames'[i.type])
          /\ \A a \in accesses :
               a.behavior = i.owner /\ a.type = i.type /\ a.slot = i.slot => a \in accesses'
      BY <2>1, <3>1 DEF Backing
    <3> QED BY <2>1, <2>2, <3>1, <3>2, StillBacked
  <2> QED BY <2>2, <2>3
<1>17. CASE BehaviorNotDestroyed
  <2>1. PICK gone \in SUBSET {x \in intents : x.owner = call.subject} :
          /\ intents' = intents \ gone
          /\ stranded' = [behaviors |-> stranded.behaviors \cup {call.subject},
                          intents |-> (stranded.intents
                                         \cup {x \in intents : x.owner = call.subject}) \ gone]
    BY <1>17 DEF BehaviorNotDestroyed
  <2>2. /\ accesses' = accesses /\ componentNames' = componentNames /\ active' = active
        /\ behaviorAccessRevisions' = behaviorAccessRevisions
    BY <1>17, Keeps DEF componentVars, behaviorVars
  <2>3. StrandedShape'
    BY <2>1 DEF StrandedShape
  <2>4. ASSUME NEW i \in intents'
        PROVE  Backing(i)'
    <3>1. /\ i \in intents /\ Backing(i)
          /\ i \in stranded.intents => i \in stranded'.intents
          /\ Leaving(i) => i \in stranded'.intents
      BY <1>1, <2>1 DEF Leaving
    <3>2. i.owner \in active' /\ i.slot \in Range(componentNames'[i.type])
      BY <2>2, <3>1 DEF Backing
    <3> QED BY <2>2, <3>1, <3>2, StillBacked
  <2> QED BY <2>3, <2>4
<1>10. ASSUME intents' \subseteq intents, accesses' = accesses, ~Removing,
              active \subseteq active', StrandedShape',
              \A i \in intents' : i \in stranded.intents => i \in stranded'.intents,
              \A i \in intents : i.owner \in DOMAIN behaviorAccessRevisions' =>
                                   i.owner \in DOMAIN behaviorAccessRevisions,
              \/ call'.operation = call.operation /\ call'.subject = call.subject
              \/ call.operation # "destroy_behavior"
       PROVE  StrandedShape' /\ \A i \in intents' : Backing(i)'
  <2> SUFFICES ASSUME NEW i \in intents'
               PROVE  Backing(i)'
    BY <1>10
  <2>1. Leaving(i) => Leaving(i)'
    BY <1>10 DEF Leaving
  <2>2. i \in intents /\ Backing(i) /\ i.slot \in Range(componentNames'[i.type])
    BY <1>1, <1>10, <1>15
  <2> QED BY <1>10, <2>1, <2>2, StillBacked
<1>18. ASSUME intents' \subseteq intents, accesses' = accesses, ~Removing, UNCHANGED behaviorVars,
               UNCHANGED stranded, UNCHANGED behaviorAccessRevisions,
               \/ call'.operation = call.operation /\ call'.subject = call.subject
               \/ call.operation # "destroy_behavior"
        PROVE  StrandedShape' /\ \A i \in intents' : Backing(i)'
  BY <1>1, <1>10, <1>18 DEF behaviorVars, StrandedShape
<1>19. call = Idle => ~Removing \/ call'.operation = "remove_component"
  BY Removes DEF Removing
<1>11. CASE ChangeMembership \/ CallingBack
  <2>1. call'.operation = call.operation /\ call'.subject = call.subject /\ call # Idle
    BY <1>3, <1>11, CallGoesOn DEF CallingBack
  <2>2. /\ accesses' = accesses /\ intents' = intents /\ UNCHANGED behaviorVars
        /\ UNCHANGED stranded /\ UNCHANGED behaviorAccessRevisions
    BY <1>11 DEF ChangeMembership, CallingBack, CallbackEnds, intentVars, signatureVars
  <2>3. ~Removing
    BY <2>1, Removes DEF Removing
  <2> QED BY <1>18, <2>1, <2>2, <2>3
<1>12. CASE UNCHANGED vars
  <2>1. /\ accesses' = accesses /\ intents' = intents /\ UNCHANGED behaviorVars /\ call' = call
        /\ UNCHANGED stranded /\ UNCHANGED behaviorAccessRevisions
    BY <1>12 DEF vars, intentVars, signatureVars
  <2>2. ~Removing
    BY <2>1, Removes DEF Removing, Idle
  <2> QED BY <1>18, <2>1, <2>2
<1>20. CASE Dropping \/ NotRemoving
  <2>1. /\ accesses' = accesses /\ UNCHANGED behaviorVars /\ call' = call
        /\ UNCHANGED behaviorAccessRevisions
    BY <1>20 DEF Dropping, DestroyIntent, NotRemoving, ComponentNotRemoved, signatureVars
  <2>2. PICK gone : intents' = intents \ gone /\ stranded' = [stranded EXCEPT !.intents = @ \ gone]
    <3>1. CASE Dropping
      BY <3>1, Zenon DEF Dropping, DestroyIntent
    <3>2. CASE NotRemoving
      BY <3>2, Zenon DEF NotRemoving, ComponentNotRemoved
    <3> QED BY <1>20, <3>1, <3>2
  <2>3. StrandedShape' /\ stranded'.intents = stranded.intents \ gone
    BY <1>1, <2>2, StrandedWithout
  <2>4. ~Removing
    BY <2>1, Removes DEF Removing, Idle
  <2> QED BY <1>10, <2>1, <2>2, <2>3, <2>4 DEF behaviorVars
<1>21. CASE NotRevoking
  <2>1. /\ accesses' = accesses /\ UNCHANGED behaviorVars /\ call' = call
        /\ intents' = intents /\ UNCHANGED stranded /\ UNCHANGED behaviorAccessRevisions
    BY <1>21 DEF NotRevoking, AccessNotRevoked, intentVars
  <2>2. ~Removing
    BY <2>1, Removes DEF Removing, Idle
  <2> QED BY <1>18, <2>1, <2>2
<1>13. CASE Adding \/ Registering \/ Resigning \/ RunSystems \/ DestroyingSystem
  <2>1. /\ call = Idle /\ accesses' = accesses /\ intents' = intents
        /\ UNCHANGED behaviorVars /\ UNCHANGED stranded /\ UNCHANGED behaviorAccessRevisions
    <3>1. CASE Adding \/ DestroyingSystem
      BY <3>1, Zenon DEF Adding, AddComponent, DestroyingSystem, DestroySystem,
         StructureMayChange, intentVars, signatureVars
    <3>2. CASE Registering \/ Resigning \/ RunSystems
      BY <3>2, Zenon DEF Registering, RegisterSystem, Resigning, SetSystemSignature, RunSystems,
         StructureMayChange, intentVars, signatureVars
    <3> QED BY <1>13, <3>1, <3>2
  <2>2. call'.operation # "remove_component"
    <3>1. CASE Adding \/ DestroyingSystem
      <4>1. call' = call
        BY <3>1, Zenon DEF Adding, AddComponent, DestroyingSystem, DestroySystem
      <4> QED BY <2>1, <4>1 DEF Idle
    <3>2. CASE Registering \/ Resigning \/ RunSystems
      <4>1. \E operation \in {"register_system", "set_system_signature", "run_systems"} :
              \E subject, todo : call' = Began(operation, subject, todo)
        BY <3>2, Zenon DEF Registering, Resigning, RunSystems, RegisterSystem, SetSystemSignature
      <4> QED BY <4>1 DEF Began
    <3> QED BY <1>13, <3>1, <3>2
  <2> QED BY <1>18, <1>19, <2>1, <2>2 DEF Idle
<1>22. CASE CreateBehavior
  <2>1. call = Idle /\ accesses' = accesses /\ intents' = intents /\ UNCHANGED stranded
    BY <1>22 DEF CreateBehavior, StructureMayChange, intentVars
  <2>2. call'.operation # "remove_component"
    BY <1>22 DEF CreateBehavior, StructureMayChange, Began, Idle
  <2>3. /\ active \subseteq active'
        /\ \A i \in intents : i.owner \in DOMAIN behaviorAccessRevisions' =>
                                i.owner \in DOMAIN behaviorAccessRevisions
    <3>1. CASE availableSlots = <<>>
      BY <1>22, <3>1 DEF CreateBehavior, behaviorVars
    <3>2. CASE availableSlots # <<>>
      <4> DEFINE b == [slot |-> Last(availableSlots),
                       generation |-> generations[Last(availableSlots)]]
      <4>1. \E x : behaviorAccessRevisions' = With(behaviorAccessRevisions, b, x)
        BY <1>22, <3>2 DEF CreateBehavior
      <4> HIDE DEF b
      <4>2. DOMAIN behaviorAccessRevisions' = DOMAIN behaviorAccessRevisions \cup {b}
        BY <4>1 DEF With
      <4>3. b \notin active /\ active' = active \cup {b}
        BY <1>3, <1>22, <3>2, Created DEF b
      <4>4. \A i \in intents : i.owner \in active
        BY <1>1 DEF Backing
      <4> QED BY <4>2, <4>3, <4>4
    <3> QED BY <3>1, <3>2
  <2>4. StrandedShape'
    BY <1>1, <2>1 DEF StrandedShape
  <2> QED BY <1>10, <1>19, <2>1, <2>2, <2>3, <2>4 DEF Idle
<1>14. CASE \/ BehaviorCreated \/ UndoBehavior \/ ComponentRemoved
            \/ AccessDone \/ SystemRegistered \/ SystemSignatureSet \/ SystemsRun
  <2>1. /\ call.operation # "destroy_behavior" /\ call.operation # "none"
        /\ accesses' = accesses /\ intents' = intents
        /\ UNCHANGED behaviorVars /\ UNCHANGED stranded /\ UNCHANGED behaviorAccessRevisions
    BY <1>14 DEF BehaviorCreated, UndoBehavior, ComponentRemoved, AccessDone, SystemRegistered,
       SystemSignatureSet, SystemsRun, Finishing, intentVars, signatureVars
  <2>2. ~Removing
    BY <2>1, Removes DEF Removing, Idle
  <2> QED BY <1>18, <2>1, <2>2
<1> QED
  BY NextCases, <1>4, <1>5, <1>6, <1>7, <1>16, <1>8, <1>9, <1>17, <1>11, <1>12, <1>20, <1>21,
     <1>13, <1>22, <1>14, Zenon

\* AccessesInv holds in every state the world reaches.
LEMMA AccessesInvariant ==
  Spec => []AccessesInv
<1>1. ASSUME Init
      PROVE  AccessesInv
  <2>1. issued = [behaviors |-> {}, slots |-> {}] /\ active = {} /\ accesses = {}
        /\ intents = {} /\ call = Idle /\ stranded = [behaviors |-> {}, intents |-> {}]
    BY <1>1 DEF Init
  <2>2. BehaviorInv
    <3>1. /\ generations = [k \in 1..MaxBehaviours |-> 1]
          /\ availableSlots = [k \in 1..MaxBehaviours |-> MaxBehaviours + 1 - k]
      BY <1>1 DEF Init
    <3>2. generations \in [1..MaxBehaviours -> 1..MaxGeneration]
      BY <3>1, WorldAssumption
    <3>3. availableSlots \in Seq(1..MaxBehaviours)
      <4> DEFINE S == 1..MaxBehaviours
      <4>1. availableSlots \in [1..MaxBehaviours -> S] /\ MaxBehaviours \in Nat
        BY <3>1, WorldAssumption
      <4> HIDE DEF S
      <4>2. availableSlots \in Seq(S)
        BY <4>1
      <4> QED BY <4>2 DEF S
    <3>4. \A i, j \in DOMAIN availableSlots : availableSlots[i] = availableSlots[j] => i = j
      BY <3>1, WorldAssumption
    <3>5. issued.behaviors = {}
      BY <2>1
    <3> QED BY <2>1, <3>2, <3>3, <3>4, <3>5 DEF BehaviorInv, Pool
  <2>3. ComponentInv
    <3>1. /\ componentNames = [t \in Types |-> <<>>]
          /\ slotGenerations = [t \in Types |-> <<>>]
          /\ availableComponentSlots = [t \in Types |-> <<>>] /\ issued.slots = {}
      BY <1>1, <2>1 DEF Init
    <3>2. \A t \in Types : SeenSlots(t) = {}
      BY <3>1 DEF SeenSlots
    <3>3. SlotsOf(<<>>, <<>>, <<>>, {})
      BY DEF SlotsOf
    <3> QED BY <3>1, <3>2, <3>3 DEF ComponentInv
  <2>4. IssuedShape /\ AccessInv /\ CallInv /\ SubjectInv
    BY <2>1 DEF IssuedShape, AccessInv, CallInv, SubjectInv, Idle, BehaviorOperations
  <2>5. IntentInv
    BY <2>1 DEF IntentInv, IntentsAuthorised, StrandedShape
  <2> QED BY <2>2, <2>3, <2>4, <2>5 DEF AccessesInv
<1>2. AccessesInv /\ [Next]_vars => AccessesInv'
  <2> SUFFICES ASSUME AccessesInv, [Next]_vars
               PROVE  AccessesInv'
    OBVIOUS
  <2>1. BehaviorInv /\ ComponentInv /\ IssuedShape /\ AccessInv /\ CallInv /\ SubjectInv
    BY DEF AccessesInv
  <2>2. BehaviorInv' /\ IssuedShape' /\ CallInv'
    BY <2>1, BehaviorStep, IssuedStep, CallStep
  <2>3. ComponentInv' /\ AccessInv' /\ SubjectInv'
    BY <2>1, ComponentStep, AccessStep, SubjectStep
  <2>4. IntentInv'
    BY <2>3, IntentStep
  <2> QED BY <2>2, <2>3, <2>4 DEF AccessesInv
<1> QED BY <1>1, <1>2, PTL DEF Spec

\* Whoever created an intent, from a callback in the middle of another
\* operation too, its owner exists and may write to the component it targets,
\* which is still there (Coordinator.hpp: grants, revocations, removals and
\* destructions end the intents that lose their right), unless its owner is
\* being destroyed or an operation ran out of lifecycle records and left it
\* (IntentRegistry::destroy throws before it destroys).
THEOREM IntentsAlwaysAuthorised ==
  Spec => []IntentsAuthorised
<1>1. AccessesInv => IntentsAuthorised
  BY DEF AccessesInv, IntentInv
<1> QED BY <1>1, AccessesInvariant, PTL

\* A slot is used again with another generation only, up to the last one:
\* no handle of a behavior or of a component is given out twice.
THEOREM FreshHandles ==
  Spec => HandlesAreFresh
<1> DEFINE Fresh ==
      /\ \A b \in active' \ active : b \notin issued.behaviors
      /\ \A t \in Types :
           \A slot \in Range(componentNames'[t]) \ Range(componentNames[t]) :
             <<t, slot>> \notin issued.slots
<1>1. AccessesInv /\ [Next]_vars => [Fresh]_vars
  <2> SUFFICES ASSUME AccessesInv, [Next]_vars
               PROVE  Fresh
    OBVIOUS
  <2>1. BehaviorInv /\ ComponentInv /\ IssuedShape /\ SubjectInv
    BY DEF AccessesInv
  <2>2. \A b \in active' \ active : b \notin issued.behaviors
    <3>1. CASE CreateBehavior
      <4>1. CASE availableSlots = <<>>
        BY <3>1, <4>1 DEF CreateBehavior, behaviorVars
      <4>2. CASE availableSlots # <<>>
        <5> DEFINE b == [slot |-> Last(availableSlots),
                         generation |-> generations[Last(availableSlots)]]
        <5> HIDE DEF b
        <5>1. b \notin issued.behaviors /\ active' = active \cup {b}
          BY <2>1, <3>1, <4>2, Created DEF b
        <5> QED BY <5>1
      <4> QED BY <4>1, <4>2
    <3>2. CASE BehaviorUndone \/ BehaviorDestroyed
      BY <2>1, <3>2, Ends
    <3>3. CASE UNCHANGED behaviorVars
      BY <3>3 DEF behaviorVars
    <3> QED BY <3>1, <3>2, <3>3, Frames, Zenon DEF Frame
  <2>3. ASSUME NEW u \in Types,
               NEW slot \in Range(componentNames'[u]) \ Range(componentNames[u])
        PROVE  <<u, slot>> \notin issued.slots
    <3>1. CASE Adding
      <4>1. PICK t \in Types, n \in Names : AddComponent(t, n)
        BY <3>1 DEF Adding
      <4> DEFINE h == FreshSlot(t)
                 more == With(componentNames[t], n, h)
      <4>2. /\ h \in SlotIds /\ h \notin SeenSlots(t) /\ n \notin DOMAIN componentNames[t]
            /\ componentNames' = [componentNames EXCEPT ![t] = more]
        BY <2>1, <4>1, Added
      <4>5. Range(more) = Range(componentNames[t]) \cup {h}
        BY <4>2, AddedRange
      <4> HIDE DEF h
      <4> HIDE DEF more
      <4>6. u = t /\ slot = h
        BY <2>1, <4>2, <4>5 DEF ComponentInv
      <4> QED BY <4>2, <4>6 DEF SeenSlots
    <3>2. CASE Removing
      <4>1. PICK t \in Types, n \in Names : RemoveComponent(t, n)
        BY <3>2 DEF Removing
      <4> DEFINE less == Restrict(componentNames[t], DOMAIN componentNames[t] \ {n})
      <4>2. componentNames' = [componentNames EXCEPT ![t] = less]
        BY <2>1, <4>1, Removed
      <4>3. Range(less) \subseteq Range(componentNames[t])
        BY DEF Range, Restrict
      <4> HIDE DEF less
      <4> QED BY <2>1, <4>2, <4>3 DEF ComponentInv
    <3>3. CASE UNCHANGED componentVars
      BY <3>3 DEF componentVars
    <3> QED BY <3>1, <3>2, <3>3, Frames, Zenon DEF Frame
  <2> QED BY <2>2, <2>3
<1> QED BY <1>1, AccessesInvariant, PTL DEF Spec, HandlesAreFresh

-----------------------------------------------------------------------------
(* The evidence of what exists *)

Same == call'.operation = call.operation /\ call'.subject = call.subject
Opens(operation) == call = Idle /\ call'.operation = operation
Closes(operation) ==
  call.operation = operation /\ call.todo = {} /\ ~call.inCallback /\ call' = Idle

\* Which steps begin and end which operation.
Turn ==
  /\ ChangeMembership \/ CallingBack \/ Intending \/ Dropping \/ UNCHANGED vars => Same
  /\ Adding \/ DestroyingSystem => call = Idle /\ call' = Idle
  /\ NotRemoving \/ Lowering \/ NotRevoking => call = Idle /\ call' = Idle
  /\ BehaviorNotDestroyed => Closes("destroy_behavior")
  /\ CreateBehavior => Opens("create_behavior") \/ (call = Idle /\ call' = Idle)
  /\ BehaviorCreated => Closes("create_behavior")
  /\ UndoBehavior => /\ call.operation = "create_behavior" /\ call.todo = {} /\ ~call.inCallback
                     /\ call'.operation = "undo_behavior" /\ call'.subject = call.subject
  /\ BehaviorUndone => Closes("undo_behavior")
  /\ Destroying => Opens("destroy_behavior")
  /\ BehaviorDestroyed => Closes("destroy_behavior")
  /\ Removing => Opens("remove_component")
  /\ ComponentRemoved => Closes("remove_component")
  /\ Granting => Opens("grant_component_access")
  /\ Revoking => Opens("revoke_component_access")
  /\ AccessDone => Closes("grant_component_access") \/ Closes("revoke_component_access")
  /\ Registering => Opens("register_system")
  /\ SystemRegistered => Closes("register_system")
  /\ Resigning => Opens("set_system_signature")
  /\ SystemSignatureSet => Closes("set_system_signature")
  /\ RunSystems => Opens("run_systems")
  /\ SystemsRun => Closes("run_systems")

LEMMA BeganOpens ==
  ASSUME StructureMayChange, NEW operation,
         \E subject, todo : call' = Began(operation, subject, todo)
  PROVE  Opens(operation)
BY DEF Opens, StructureMayChange, Began

LEMMA Turns ==
  ASSUME CallInv
  PROVE  Turn
<1>1. ChangeMembership \/ CallingBack => Same
  BY CallGoesOn DEF CallingBack, Same
<1>2. Intending \/ Dropping \/ UNCHANGED vars => Same
  BY DEF Intending, CreateIntent, Dropping, DestroyIntent, vars, Same
<1>3. Adding \/ DestroyingSystem => call = Idle /\ call' = Idle
  BY DEF Adding, AddComponent, DestroyingSystem, DestroySystem, StructureMayChange
<1>4. CreateBehavior => Opens("create_behavior") \/ (call = Idle /\ call' = Idle)
  BY DEF CreateBehavior, StructureMayChange, Opens, Began
<1>5. /\ BehaviorCreated => Closes("create_behavior")
      /\ BehaviorUndone => Closes("undo_behavior")
      /\ BehaviorDestroyed => Closes("destroy_behavior")
      /\ ComponentRemoved => Closes("remove_component")
  BY Zenon DEF BehaviorCreated, BehaviorUndone, BehaviorDestroyed, ComponentRemoved, Finishing,
     Closes
<1>6. /\ AccessDone => Closes("grant_component_access") \/ Closes("revoke_component_access")
      /\ SystemRegistered => Closes("register_system")
      /\ SystemSignatureSet => Closes("set_system_signature")
      /\ SystemsRun => Closes("run_systems")
  BY Zenon DEF AccessDone, SystemRegistered, SystemSignatureSet, SystemsRun, Finishing, Closes
<1>7. UndoBehavior => /\ call.operation = "create_behavior" /\ call.todo = {} /\ ~call.inCallback
                      /\ call'.operation = "undo_behavior" /\ call'.subject = call.subject
  BY DEF UndoBehavior, Finishing, Began
<1>8. Destroying => Opens("destroy_behavior")
  BY BeganOpens, Zenon DEF Destroying, DestroyBehavior
<1>9. /\ Removing => Opens("remove_component")
      /\ Granting => Opens("grant_component_access")
      /\ Revoking => Opens("revoke_component_access")
  <2>1. Removing => Opens("remove_component")
    BY BeganOpens, Zenon DEF Removing, RemoveComponent
  <2>2. Granting => Opens("grant_component_access")
    BY Grants DEF Granting, Opens
  <2>3. Revoking => Opens("revoke_component_access")
    BY Revokes DEF Revoking, Opens
  <2> QED BY <2>1, <2>2, <2>3
<1>10. /\ Registering => Opens("register_system")
       /\ Resigning => Opens("set_system_signature")
       /\ RunSystems => Opens("run_systems")
  BY BeganOpens, Zenon DEF Registering, RegisterSystem, Resigning, SetSystemSignature, RunSystems
<1>11. BehaviorNotDestroyed => Closes("destroy_behavior")
  BY Zenon DEF BehaviorNotDestroyed, Finishing, Closes
<1>12. NotRemoving \/ Lowering \/ NotRevoking => call = Idle /\ call' = Idle
  <2>1. NotRemoving \/ NotRevoking => call = Idle /\ call' = Idle
    BY Zenon DEF NotRemoving, ComponentNotRemoved, NotRevoking, AccessNotRevoked,
       StructureMayChange
  <2>2. Lowering => call = Idle /\ call' = Idle
    BY Lowers DEF Lowering
  <2> QED BY <2>1, <2>2
<1> QED
  BY <1>1, <1>2, <1>3, <1>4, <1>5, <1>6, <1>7, <1>8, <1>9, <1>10, <1>11, <1>12, Zenon DEF Turn

EvidenceShape ==
  /\ evidence = [behaviors |-> evidence.behaviors, components |-> evidence.components,
                 systems |-> evidence.systems]
  /\ unrecorded = [behaviors |-> unrecorded.behaviors, components |-> unrecorded.components,
                   systems |-> unrecorded.systems]

\* The record of a change is made, or the change is noted as not recorded.
RecordOf(told, known, knownNext, key) ==
  \/ evidence' = told /\ knownNext = known \ {key}
  \/ evidence' = evidence /\ knownNext = known \cup {key}

LEMMA BehaviorRecord ==
  ASSUME EvidenceShape, NEW key, NEW told, Recorded("behaviors", key, told)
  PROVE  /\ RecordOf(told, unrecorded.behaviors, unrecorded'.behaviors, key)
         /\ unrecorded'.components = unrecorded.components
         /\ unrecorded'.systems = unrecorded.systems
         /\ unrecorded' = [behaviors |-> unrecorded'.behaviors,
              components |-> unrecorded'.components, systems |-> unrecorded'.systems]
<1>1. PICK next : /\ unrecorded' = [unrecorded EXCEPT !.behaviors = next]
                  /\ RecordOf(told, unrecorded.behaviors, next, key)
  BY Zenon DEF Recorded, RecordOf
<1>2. unrecorded' = [behaviors |-> next, components |-> unrecorded.components,
                     systems |-> unrecorded.systems]
  BY <1>1 DEF EvidenceShape
<1> QED BY <1>1, <1>2 DEF RecordOf

LEMMA ComponentRecord ==
  ASSUME EvidenceShape, NEW key, NEW told, Recorded("components", key, told)
  PROVE  /\ RecordOf(told, unrecorded.components, unrecorded'.components, key)
         /\ unrecorded'.behaviors = unrecorded.behaviors
         /\ unrecorded'.systems = unrecorded.systems
         /\ unrecorded' = [behaviors |-> unrecorded'.behaviors,
              components |-> unrecorded'.components, systems |-> unrecorded'.systems]
<1>1. PICK next : /\ unrecorded' = [unrecorded EXCEPT !.components = next]
                  /\ RecordOf(told, unrecorded.components, next, key)
  BY Zenon DEF Recorded, RecordOf
<1>2. unrecorded' = [behaviors |-> unrecorded.behaviors, components |-> next,
                     systems |-> unrecorded.systems]
  BY <1>1 DEF EvidenceShape
<1> QED BY <1>1, <1>2 DEF RecordOf

LEMMA SystemRecord ==
  ASSUME EvidenceShape, NEW key, NEW told, Recorded("systems", key, told)
  PROVE  /\ RecordOf(told, unrecorded.systems, unrecorded'.systems, key)
         /\ unrecorded'.behaviors = unrecorded.behaviors
         /\ unrecorded'.components = unrecorded.components
         /\ unrecorded' = [behaviors |-> unrecorded'.behaviors,
              components |-> unrecorded'.components, systems |-> unrecorded'.systems]
<1>1. PICK next : /\ unrecorded' = [unrecorded EXCEPT !.systems = next]
                  /\ RecordOf(told, unrecorded.systems, next, key)
  BY Zenon DEF Recorded, RecordOf
<1>2. unrecorded' = [behaviors |-> unrecorded.behaviors, components |-> unrecorded.components,
                     systems |-> next]
  BY <1>1 DEF EvidenceShape
<1> QED BY <1>1, <1>2 DEF RecordOf

\* The behavior that is not recorded yet, and will not be if its creation fails.
Pending(b) == call.operation \in {"create_behavior", "undo_behavior"} /\ call.subject = b

BehaviorsRecorded ==
  \A b : b \notin unrecorded.behaviors =>
    (b \in evidence.behaviors <=> b \in active /\ ~Pending(b))

\* The system whose registration may still be taken back.
Tentative(s) == call.operation = "register_system" /\ call.subject = s

SystemsRecorded ==
  /\ call.operation \in {"register_system", "set_system_signature"} =>
       call.subject \in DOMAIN systems
  /\ \A s : s \notin unrecorded.systems =>
       (s \in evidence.systems <=> s \in DOMAIN systems /\ ~Tentative(s))

\* The component that is gone and not recorded as gone yet.
Vanishing(t, n) == call.operation = "remove_component" /\ call.subject = <<t, n>>

ComponentsRecorded ==
  \A t \in Types, n \in Names :
    /\ Vanishing(t, n) => n \notin DOMAIN componentNames[t]
    /\ ~Vanishing(t, n) /\ <<t, n>> \notin unrecorded.components =>
         /\ n \in DOMAIN componentNames[t] <=> <<t, n>> \in DOMAIN evidence.components
         /\ n \in DOMAIN componentNames[t] =>
              evidence.components[<<t, n>>] = componentNames[t][n]

RecordInv ==
  EvidenceShape /\ BehaviorsRecorded /\ SystemsRecorded /\ ComponentsRecorded

LEMMA EvidenceStep ==
  ASSUME EvidenceShape, [Next]_vars
  PROVE  /\ EvidenceShape'
         /\ ~BehaviorCreated /\ ~BehaviorDestroyed =>
              evidence'.behaviors = evidence.behaviors /\ unrecorded'.behaviors = unrecorded.behaviors
         /\ ~SystemRegistered /\ ~SystemSignatureSet /\ ~DestroyingSystem =>
              evidence'.systems = evidence.systems /\ unrecorded'.systems = unrecorded.systems
         /\ ~Adding /\ ~ComponentRemoved =>
              /\ evidence'.components = evidence.components
              /\ unrecorded'.components = unrecorded.components
<1>1. CASE UNCHANGED evidenceVars
  BY <1>1 DEF EvidenceShape, evidenceVars
<1>2. CASE BehaviorCreated \/ BehaviorDestroyed
  <2>1. PICK x : Recorded("behaviors", call.subject, [evidence EXCEPT !.behaviors = x])
    BY <1>2, Zenon DEF BehaviorCreated, BehaviorDestroyed
  <2> DEFINE told == [evidence EXCEPT !.behaviors = x]
  <2>2. told = [behaviors |-> x, components |-> evidence.components, systems |-> evidence.systems]
    BY DEF EvidenceShape
  <2> HIDE DEF told
  <2>3. /\ evidence' = told \/ evidence' = evidence
        /\ unrecorded'.components = unrecorded.components
        /\ unrecorded'.systems = unrecorded.systems
        /\ unrecorded' = [behaviors |-> unrecorded'.behaviors,
             components |-> unrecorded'.components, systems |-> unrecorded'.systems]
    BY <2>1, BehaviorRecord DEF RecordOf, told
  <2> QED BY <1>2, <2>2, <2>3 DEF EvidenceShape
<1>3. CASE Adding \/ ComponentRemoved
  <2>1. PICK key, x : Recorded("components", key, [evidence EXCEPT !.components = x])
    BY <1>3, Zenon DEF Adding, AddComponent, ComponentRemoved
  <2> DEFINE told == [evidence EXCEPT !.components = x]
  <2>2. told = [behaviors |-> evidence.behaviors, components |-> x, systems |-> evidence.systems]
    BY DEF EvidenceShape
  <2> HIDE DEF told
  <2>3. /\ evidence' = told \/ evidence' = evidence
        /\ unrecorded'.behaviors = unrecorded.behaviors
        /\ unrecorded'.systems = unrecorded.systems
        /\ unrecorded' = [behaviors |-> unrecorded'.behaviors,
             components |-> unrecorded'.components, systems |-> unrecorded'.systems]
    BY <2>1, ComponentRecord DEF RecordOf, told
  <2> QED BY <1>3, <2>2, <2>3 DEF EvidenceShape
<1>4. CASE SystemRegistered \/ SystemSignatureSet \/ DestroyingSystem
  <2>1. \/ UNCHANGED evidenceVars
        \/ \E key, x : Recorded("systems", key, [evidence EXCEPT !.systems = x])
    BY <1>4, Zenon DEF SystemRegistered, SystemSignatureSet, DestroyingSystem, DestroySystem
  <2>2. ASSUME NEW key, NEW x, Recorded("systems", key, [evidence EXCEPT !.systems = x])
        PROVE  /\ EvidenceShape' /\ evidence'.behaviors = evidence.behaviors
               /\ evidence'.components = evidence.components
               /\ unrecorded'.behaviors = unrecorded.behaviors
               /\ unrecorded'.components = unrecorded.components
    <3> DEFINE told == [evidence EXCEPT !.systems = x]
    <3>1. told = [behaviors |-> evidence.behaviors, components |-> evidence.components,
                  systems |-> x]
      BY DEF EvidenceShape
    <3> HIDE DEF told
    <3>2. /\ evidence' = told \/ evidence' = evidence
          /\ unrecorded'.behaviors = unrecorded.behaviors
          /\ unrecorded'.components = unrecorded.components
          /\ unrecorded' = [behaviors |-> unrecorded'.behaviors,
               components |-> unrecorded'.components, systems |-> unrecorded'.systems]
      BY <2>2, SystemRecord DEF RecordOf, told
    <3> QED BY <3>1, <3>2 DEF EvidenceShape
  <2> QED BY <1>1, <1>4, <2>1, <2>2
<1> QED BY <1>1, <1>2, <1>3, <1>4, Frames DEF Frame

LEMMA BehaviorsRecordedStep ==
  ASSUME AccessesInv, EvidenceShape, BehaviorsRecorded, [Next]_vars
  PROVE  BehaviorsRecorded'
<1>1. BehaviorInv /\ IssuedShape /\ SubjectInv /\ CallInv
  BY DEF AccessesInv
<1>2. Turn /\ Frame
  BY <1>1, Turns, Frames
<1>3. CASE CreateBehavior
  <2>1. evidence' = evidence /\ unrecorded' = unrecorded
    BY <1>3 DEF CreateBehavior, evidenceVars
  <2>2. CASE availableSlots = <<>>
    <3>1. active' = active /\ call' = call
      BY <1>3, <2>2 DEF CreateBehavior, behaviorVars
    <3> QED BY <2>1, <3>1 DEF BehaviorsRecorded, Pending
  <2>3. CASE availableSlots # <<>>
    <3> DEFINE b == [slot |-> Last(availableSlots),
                     generation |-> generations[Last(availableSlots)]]
    <3>1. call'.subject = b /\ call'.operation = "create_behavior" /\ call = Idle
      BY <1>3, <2>3 DEF CreateBehavior, Began, StructureMayChange
    <3> HIDE DEF b
    <3>2. b \notin active /\ active' = active \cup {b}
      BY <1>1, <1>3, <2>3, Created DEF b
    <3> QED BY <2>1, <3>1, <3>2 DEF BehaviorsRecorded, Pending, Idle
  <2> QED BY <2>2, <2>3
<1>4. CASE BehaviorCreated
  <2> DEFINE told == [evidence EXCEPT !.behaviors = @ \cup {call.subject}]
  <2>1. active' = active /\ Recorded("behaviors", call.subject, told)
    BY <1>4 DEF BehaviorCreated, behaviorVars
  <2>2. call.operation = "create_behavior" /\ call' = Idle
    BY <1>2, <1>4 DEF Turn, Closes
  <2>3. call.subject \in active
    BY <1>1, <2>2 DEF SubjectInv, BehaviorOperations
  <2>4. told.behaviors = evidence.behaviors \cup {call.subject}
    BY DEF EvidenceShape
  <2> HIDE DEF told
  <2>5. RecordOf(told, unrecorded.behaviors, unrecorded'.behaviors, call.subject)
    BY <2>1, BehaviorRecord
  <2> QED BY <2>1, <2>2, <2>3, <2>4, <2>5 DEF BehaviorsRecorded, Pending, Idle, RecordOf
<1>5. CASE UndoBehavior
  <2>1. active' = active /\ evidence' = evidence /\ unrecorded' = unrecorded
    BY <1>5 DEF UndoBehavior, behaviorVars, evidenceVars
  <2> QED BY <1>2, <1>5, <2>1 DEF Turn, BehaviorsRecorded, Pending
<1>6. CASE BehaviorUndone
  <2>1. /\ evidence' = evidence /\ unrecorded' = unrecorded
        /\ active' = active \ {call.subject} /\ call' = Idle
    BY <1>1, <1>6, Ends DEF BehaviorUndone, evidenceVars
  <2>2. call.operation = "undo_behavior"
    BY <1>2, <1>6 DEF Turn, Closes
  <2> QED BY <2>1, <2>2 DEF BehaviorsRecorded, Pending, Idle
<1>7. CASE BehaviorDestroyed
  <2> DEFINE told == [evidence EXCEPT !.behaviors = @ \ {call.subject}]
  <2>1. Recorded("behaviors", call.subject, told)
    BY <1>7 DEF BehaviorDestroyed
  <2>2. active' = active \ {call.subject} /\ call' = Idle
    BY <1>1, <1>7, Ends
  <2>3. call.operation = "destroy_behavior"
    BY <1>2, <1>7 DEF Turn, Closes
  <2>4. told.behaviors = evidence.behaviors \ {call.subject}
    BY DEF EvidenceShape
  <2> HIDE DEF told
  <2>5. RecordOf(told, unrecorded.behaviors, unrecorded'.behaviors, call.subject)
    BY <2>1, BehaviorRecord
  <2> QED BY <2>2, <2>3, <2>4, <2>5 DEF BehaviorsRecorded, Pending, Idle, RecordOf
<1>8. CASE /\ ~CreateBehavior /\ ~BehaviorCreated /\ ~UndoBehavior /\ ~BehaviorUndone
           /\ ~BehaviorDestroyed
  <2>1. /\ active' = active /\ evidence'.behaviors = evidence.behaviors
        /\ unrecorded'.behaviors = unrecorded.behaviors
    BY <1>2, <1>8, EvidenceStep DEF Frame, behaviorVars
  <2>2. Same \/ \A b : Pending(b)' = FALSE /\ Pending(b) = FALSE
    <3>1. \/ Same
          \/ \E operation \in {"destroy_behavior", "remove_component", "grant_component_access",
               "revoke_component_access", "register_system", "set_system_signature",
               "run_systems"} : Opens(operation) \/ Closes(operation)
          \/ call = Idle /\ call' = Idle
      BY <1>2, <1>8, NextCases, Zenon DEF Turn
    <3> QED BY <3>1 DEF Opens, Closes, Pending, Idle
  <2> QED BY <2>1, <2>2 DEF BehaviorsRecorded, Pending, Same
<1> QED BY <1>3, <1>4, <1>5, <1>6, <1>7, <1>8

\* Which systems there are changes with these operations only.
LEMMA SystemNames ==
  ASSUME [Next]_vars, ~Registering, ~SystemRegistered, ~DestroyingSystem
  PROVE  DOMAIN systems' = DOMAIN systems
<1>1. CASE ChangeMembership
  <2>1. \E s, x : systems' = [systems EXCEPT ![s] = x]
    BY <1>1, Zenon DEF ChangeMembership
  <2> QED BY <2>1
<1>2. CASE Resigning
  <2>1. \E s, x : systems' = [systems EXCEPT ![s] = x]
    BY <1>2, Zenon DEF Resigning, SetSystemSignature
  <2> QED BY <2>1
<1>3. CASE UNCHANGED systems
  BY <1>3
<1> QED BY <1>1, <1>2, <1>3, Frames, Zenon DEF Frame

LEMMA SystemsRecordedStep ==
  ASSUME CallInv, EvidenceShape, SystemsRecorded, [Next]_vars
  PROVE  SystemsRecorded'
<1>1. Turn /\ Frame
  BY Turns, Frames
<1>2. CASE Registering
  <2>1. PICK s \in Systems, signature \in SUBSET Types : RegisterSystem(s, signature)
    BY <1>2 DEF Registering
  <2>2. /\ call = Idle /\ call'.operation = "register_system" /\ call'.subject = s
        /\ evidence' = evidence /\ unrecorded' = unrecorded /\ s \notin DOMAIN systems
        /\ DOMAIN systems' = DOMAIN systems \cup {s}
    BY <2>1 DEF RegisterSystem, StructureMayChange, Began, With, evidenceVars
  <2> QED BY <2>2 DEF SystemsRecorded, Tentative, Idle
<1>3. CASE SystemRegistered
  <2>1. call.operation = "register_system" /\ call' = Idle
    BY <1>1, <1>3 DEF Turn, Closes
  <2> DEFINE told == [evidence EXCEPT !.systems = @ \cup {call.subject}]
  <2>2. \/ /\ DOMAIN systems' = DOMAIN systems \ {call.subject}
           /\ evidence' = evidence /\ unrecorded' = unrecorded
        \/ systems' = systems /\ Recorded("systems", call.subject, told)
    BY <1>3 DEF SystemRegistered, WithoutSystem, Restrict, systemVars, evidenceVars
  <2>3. told.systems = evidence.systems \cup {call.subject}
    BY DEF EvidenceShape
  <2> HIDE DEF told
  <2>4. \/ /\ DOMAIN systems' = DOMAIN systems \ {call.subject}
           /\ evidence' = evidence /\ unrecorded' = unrecorded
        \/ /\ systems' = systems
           /\ RecordOf(told, unrecorded.systems, unrecorded'.systems, call.subject)
    BY <2>2, SystemRecord
  <2> QED BY <2>1, <2>3, <2>4 DEF SystemsRecorded, Tentative, Idle, RecordOf
<1>4. CASE DestroyingSystem
  <2>1. PICK s \in Systems : DestroySystem(s)
    BY <1>4 DEF DestroyingSystem
  <2> DEFINE told == [evidence EXCEPT !.systems = @ \ {s}]
  <2>2. /\ call = Idle /\ call' = Idle
        /\ DOMAIN systems' = DOMAIN systems \ {s} /\ Recorded("systems", s, told)
    BY <1>1, <1>4, <2>1 DEF Turn, DestroySystem, WithoutSystem, Restrict
  <2>3. told.systems = evidence.systems \ {s}
    BY DEF EvidenceShape
  <2> HIDE DEF told
  <2>4. RecordOf(told, unrecorded.systems, unrecorded'.systems, s)
    BY <2>2, SystemRecord
  <2> QED BY <2>2, <2>3, <2>4 DEF SystemsRecorded, Tentative, Idle, RecordOf
<1>5. CASE SystemSignatureSet
  <2>1. call.operation = "set_system_signature" /\ call' = Idle
    BY <1>1, <1>5 DEF Turn, Closes
  <2> DEFINE told == [evidence EXCEPT !.systems = @ \cup {call.subject}]
  <2>2. /\ systems' = systems
        /\ \/ evidence' = evidence /\ unrecorded' = unrecorded
           \/ Recorded("systems", call.subject, told)
    BY <1>5 DEF SystemSignatureSet, systemVars, evidenceVars
  <2>3. told.systems = evidence.systems \cup {call.subject}
    BY DEF EvidenceShape
  <2> HIDE DEF told
  <2>4. \/ evidence' = evidence /\ unrecorded' = unrecorded
        \/ RecordOf(told, unrecorded.systems, unrecorded'.systems, call.subject)
    BY <2>2, SystemRecord
  <2> QED BY <2>1, <2>2, <2>3, <2>4 DEF SystemsRecorded, Tentative, Idle, RecordOf
<1>6. CASE Resigning
  <2>1. PICK s \in Systems, signature \in SUBSET Types : SetSystemSignature(s, signature)
    BY <1>6 DEF Resigning
  <2>2. /\ call = Idle /\ call'.operation = "set_system_signature" /\ call'.subject = s
        /\ evidence' = evidence /\ unrecorded' = unrecorded /\ s \in DOMAIN systems
        /\ DOMAIN systems' = DOMAIN systems
    BY <2>1 DEF SetSystemSignature, StructureMayChange, Began, evidenceVars
  <2> QED BY <2>2 DEF SystemsRecorded, Tentative, Idle
<1>7. CASE /\ ~Registering /\ ~SystemRegistered /\ ~DestroyingSystem /\ ~Resigning
           /\ ~SystemSignatureSet
  <2>1. /\ DOMAIN systems' = DOMAIN systems /\ evidence'.systems = evidence.systems
        /\ unrecorded'.systems = unrecorded.systems
    BY <1>7, SystemNames, EvidenceStep
  <2> DEFINE ops == {"register_system", "set_system_signature"}
  <2>2. Same \/ (call'.operation \notin ops /\ call.operation \notin ops)
    <3>1. \/ Same
          \/ \E operation \in {"create_behavior", "undo_behavior", "destroy_behavior",
               "remove_component", "grant_component_access", "revoke_component_access",
               "run_systems"} : Opens(operation) \/ Closes(operation)
          \/ call = Idle /\ call' = Idle
          \/ call.operation = "create_behavior" /\ call'.operation = "undo_behavior"
      BY <1>1, <1>7, NextCases, Zenon DEF Turn
    <3> QED BY <3>1 DEF Opens, Closes, Idle
  <2> QED BY <2>1, <2>2 DEF SystemsRecorded, Tentative, Same
<1> QED BY <1>2, <1>3, <1>4, <1>5, <1>6, <1>7

LEMMA ComponentsRecordedStep ==
  ASSUME AccessesInv, EvidenceShape, ComponentsRecorded, [Next]_vars
  PROVE  ComponentsRecorded'
<1>1. ComponentInv /\ IssuedShape /\ CallInv
  BY DEF AccessesInv
<1>2. Turn /\ Frame
  BY <1>1, Turns, Frames
<1>3. DOMAIN componentNames = Types
  BY <1>1 DEF ComponentInv
<1>4. CASE Adding
  <2>1. PICK t \in Types, n \in Names : AddComponent(t, n)
    BY <1>4 DEF Adding
  <2> DEFINE h == FreshSlot(t)
  <2>2. componentNames' = [componentNames EXCEPT ![t] = With(@, n, h)]
    BY <1>1, <2>1, Added
  <2>3. \/ /\ evidence'.components = With(evidence.components, <<t, n>>, h)
           /\ unrecorded'.components = unrecorded.components \ {<<t, n>>}
        \/ /\ evidence'.components = evidence.components
           /\ unrecorded'.components = unrecorded.components \cup {<<t, n>>}
    <3> DEFINE told == [evidence EXCEPT !.components = With(@, <<t, n>>, h)]
    <3>1. Recorded("components", <<t, n>>, told)
      BY <2>1 DEF AddComponent
    <3> HIDE DEF h
    <3>2. told.components = With(evidence.components, <<t, n>>, h)
      BY DEF EvidenceShape
    <3> HIDE DEF told
    <3>3. RecordOf(told, unrecorded.components, unrecorded'.components, <<t, n>>)
      BY <3>1, ComponentRecord
    <3> QED BY <3>2, <3>3 DEF RecordOf
  <2> HIDE DEF h
  <2>4. call = Idle /\ call' = Idle
    BY <1>2, <1>4 DEF Turn
  <2> SUFFICES ASSUME NEW u \in Types, NEW m \in Names, <<u, m>> \notin unrecorded'.components
               PROVE  /\ m \in DOMAIN componentNames'[u] <=> <<u, m>> \in DOMAIN evidence'.components
                      /\ m \in DOMAIN componentNames'[u] =>
                           evidence'.components[<<u, m>>] = componentNames'[u][m]
    BY <2>4 DEF ComponentsRecorded, Vanishing, Idle
  <2>5. <<u, m>> \notin unrecorded.components =>
          /\ m \in DOMAIN componentNames[u] <=> <<u, m>> \in DOMAIN evidence.components
          /\ m \in DOMAIN componentNames[u] =>
               evidence.components[<<u, m>>] = componentNames[u][m]
    BY <2>4 DEF ComponentsRecorded, Vanishing, Idle
  <2>6. CASE u = t /\ m = n
    <3>1. componentNames'[u] = With(componentNames[u], n, h)
      BY <1>3, <2>2, <2>6
    <3>2. evidence'.components = With(evidence.components, <<t, n>>, h)
      BY <2>3, <2>6
    <3> QED BY <2>6, <3>1, <3>2 DEF With
  <2>7. CASE ~(u = t /\ m = n)
    <3>1. /\ m \in DOMAIN componentNames'[u] <=> m \in DOMAIN componentNames[u]
          /\ m \in DOMAIN componentNames[u] => componentNames'[u][m] = componentNames[u][m]
      <4>1. CASE u = t
        <5>1. componentNames'[u] = With(componentNames[u], n, h)
          BY <1>3, <2>2, <4>1
        <5> QED BY <2>7, <4>1, <5>1 DEF With
      <4>2. CASE u # t
        BY <1>3, <2>2, <4>2
      <4> QED BY <4>1, <4>2
    <3>2. <<u, m>> # <<t, n>>
      BY <2>7
    <3>3. <<u, m>> \notin unrecorded.components
      BY <2>3, <3>2
    <3>4. /\ <<u, m>> \in DOMAIN evidence'.components <=> <<u, m>> \in DOMAIN evidence.components
          /\ <<u, m>> \in DOMAIN evidence.components =>
               evidence'.components[<<u, m>>] = evidence.components[<<u, m>>]
      BY <2>3, <3>2 DEF With
    <3> QED BY <2>5, <3>1, <3>3, <3>4
  <2> QED BY <2>6, <2>7
<1>5. CASE Removing
  <2>1. PICK t \in Types, n \in Names : RemoveComponent(t, n)
    BY <1>5 DEF Removing
  <2>2. componentNames' = [componentNames EXCEPT ![t] = Restrict(@, DOMAIN @ \ {n})]
    BY <1>1, <2>1, Removed
  <2>3. /\ call = Idle /\ call'.operation = "remove_component" /\ call'.subject = <<t, n>>
    BY <2>1, Removes
  <2>4. evidence' = evidence /\ unrecorded' = unrecorded
    BY <2>1 DEF RemoveComponent, evidenceVars
  <2> SUFFICES ASSUME NEW u \in Types, NEW m \in Names
               PROVE  /\ (u = t /\ m = n) => m \notin DOMAIN componentNames'[u]
                      /\ ~(u = t /\ m = n) /\ <<u, m>> \notin unrecorded.components =>
                           /\ m \in DOMAIN componentNames'[u] <=> <<u, m>> \in DOMAIN evidence.components
                           /\ m \in DOMAIN componentNames'[u] =>
                                evidence.components[<<u, m>>] = componentNames'[u][m]
    <3>1. \A u, m : Vanishing(u, m)' <=> (u = t /\ m = n)
      BY <2>3 DEF Vanishing
    <3> QED BY <2>4, <3>1 DEF ComponentsRecorded
  <2>5. <<u, m>> \notin unrecorded.components =>
          /\ m \in DOMAIN componentNames[u] <=> <<u, m>> \in DOMAIN evidence.components
          /\ m \in DOMAIN componentNames[u] =>
               evidence.components[<<u, m>>] = componentNames[u][m]
    BY <2>3 DEF ComponentsRecorded, Vanishing, Idle
  <2>6. CASE u = t
    <3>1. componentNames'[u] = Restrict(componentNames[u], DOMAIN componentNames[u] \ {n})
      BY <1>3, <2>2, <2>6
    <3> QED BY <2>5, <2>6, <3>1 DEF Restrict
  <2>7. CASE u # t
    <3>1. componentNames'[u] = componentNames[u]
      BY <1>3, <2>2, <2>7
    <3> QED BY <2>5, <2>7, <3>1
  <2> QED BY <2>6, <2>7
<1>6. CASE ComponentRemoved
  <2>1. /\ call.operation = "remove_component" /\ call' = Idle
    BY <1>2, <1>6 DEF Turn, Closes
  <2> DEFINE recorded == evidence.components
  <2>2. /\ componentNames' = componentNames
        /\ \/ /\ evidence'.components = Restrict(recorded, DOMAIN recorded \ {call.subject})
              /\ unrecorded'.components = unrecorded.components \ {call.subject}
           \/ /\ evidence'.components = recorded
              /\ unrecorded'.components = unrecorded.components \cup {call.subject}
    <3> DEFINE told == [evidence EXCEPT !.components = Restrict(@, DOMAIN @ \ {call.subject})]
    <3>1. Recorded("components", call.subject, told) /\ componentNames' = componentNames
      BY <1>6 DEF ComponentRemoved, componentVars
    <3>2. told.components = Restrict(recorded, DOMAIN recorded \ {call.subject})
      BY DEF EvidenceShape
    <3> HIDE DEF told
    <3>3. RecordOf(told, unrecorded.components, unrecorded'.components, call.subject)
      BY <3>1, ComponentRecord
    <3> QED BY <3>1, <3>2, <3>3 DEF RecordOf
  <2> SUFFICES ASSUME NEW u \in Types, NEW m \in Names, <<u, m>> \notin unrecorded'.components
               PROVE  /\ m \in DOMAIN componentNames[u] <=> <<u, m>> \in DOMAIN evidence'.components
                      /\ m \in DOMAIN componentNames[u] =>
                           evidence'.components[<<u, m>>] = componentNames[u][m]
    <3> HIDE DEF recorded
    <3>1. \A t, n : ~Vanishing(t, n)'
      BY <2>1 DEF Vanishing, Idle
    <3>2. componentNames' = componentNames
      BY <2>2
    <3> QED BY <3>1, <3>2 DEF ComponentsRecorded
  <2>3. CASE call.subject = <<u, m>>
    <3>1. m \notin DOMAIN componentNames[u]
      BY <2>1, <2>3 DEF ComponentsRecorded, Vanishing
    <3> HIDE DEF recorded
    <3>2. evidence'.components = Restrict(recorded, DOMAIN recorded \ {call.subject})
      BY <2>2, <2>3
    <3> QED BY <2>3, <3>1, <3>2 DEF Restrict
  <2>4. CASE call.subject # <<u, m>>
    <3>0. <<u, m>> \notin unrecorded.components
      BY <2>2, <2>4
    <3>1. /\ m \in DOMAIN componentNames[u] <=> <<u, m>> \in DOMAIN recorded
          /\ m \in DOMAIN componentNames[u] => recorded[<<u, m>>] = componentNames[u][m]
      BY <2>4, <3>0 DEF ComponentsRecorded, Vanishing
    <3> HIDE DEF recorded
    <3> QED BY <2>2, <2>4, <3>1 DEF Restrict
  <2> QED BY <2>3, <2>4
<1>7. CASE ~Adding /\ ~Removing /\ ~ComponentRemoved
  <2>1. /\ componentNames' = componentNames /\ evidence'.components = evidence.components
        /\ unrecorded'.components = unrecorded.components
    BY <1>2, <1>7, EvidenceStep DEF Frame, componentVars
  <2>2. \/ Same
        \/ call'.operation # "remove_component" /\ call.operation # "remove_component"
    <3>1. \/ Same
          \/ \E operation \in {"create_behavior", "undo_behavior", "destroy_behavior",
               "register_system", "grant_component_access", "revoke_component_access",
               "set_system_signature", "run_systems"} : Opens(operation) \/ Closes(operation)
          \/ call = Idle /\ call' = Idle
          \/ call.operation = "create_behavior" /\ call'.operation = "undo_behavior"
      BY <1>2, <1>7, NextCases, Zenon DEF Turn
    <3> QED BY <3>1 DEF Opens, Closes, Idle
  <2> QED BY <2>1, <2>2 DEF ComponentsRecorded, Vanishing, Same
<1> QED BY <1>4, <1>5, <1>6, <1>7

LEMMA RecordInvariant ==
  Spec => []RecordInv
<1>1. ASSUME Init
      PROVE  RecordInv
  <2>1. /\ evidence = [behaviors |-> {}, components |-> <<>>, systems |-> {}]
        /\ unrecorded = [behaviors |-> {}, components |-> {}, systems |-> {}]
        /\ active = {} /\ systems = <<>> /\ componentNames = [t \in Types |-> <<>>]
        /\ call = Idle
    BY <1>1 DEF Init
  <2>2. EvidenceShape
    BY <2>1 DEF EvidenceShape
  <2>3. DOMAIN systems = {} /\ DOMAIN evidence.components = {}
        /\ \A t \in Types : DOMAIN componentNames[t] = {}
    BY <2>1
  <2>4. BehaviorsRecorded /\ SystemsRecorded
    BY <2>1, <2>3 DEF BehaviorsRecorded, SystemsRecorded, Idle
  <2>5. ComponentsRecorded
    BY <2>1, <2>3 DEF ComponentsRecorded, Vanishing, Idle
  <2> QED BY <2>2, <2>4, <2>5 DEF RecordInv
<1>2. RecordInv /\ AccessesInv /\ [Next]_vars => RecordInv'
  <2> SUFFICES ASSUME RecordInv, AccessesInv, [Next]_vars
               PROVE  RecordInv'
    OBVIOUS
  <2>1. EvidenceShape /\ BehaviorsRecorded /\ SystemsRecorded /\ ComponentsRecorded /\ CallInv
    BY DEF RecordInv, AccessesInv
  <2>2. EvidenceShape' /\ BehaviorsRecorded'
    BY <2>1, EvidenceStep, BehaviorsRecordedStep
  <2>3. SystemsRecorded' /\ ComponentsRecorded'
    BY <2>1, SystemsRecordedStep, ComponentsRecordedStep
  <2> QED BY <2>2, <2>3 DEF RecordInv
<1> QED BY <1>1, <1>2, AccessesInvariant, PTL DEF Spec

\* A creation or a removal that a callback made throw is in the topology
\* evidence if and only if it took effect: what the evidence says exists is what
\* exists, except where the last record found the evidence at its limit.
THEOREM LifeAlwaysRecorded ==
  Spec => []LifeIsRecorded
<1>1. RecordInv => LifeIsRecorded
  <2> SUFFICES ASSUME RecordInv, call = Idle
               PROVE  LifeIsRecorded
    BY DEF LifeIsRecorded
  <2>1. \A b : b \notin unrecorded.behaviors => (b \in evidence.behaviors <=> b \in active)
    BY DEF RecordInv, BehaviorsRecorded, Pending, Idle
  <2>2. \A s : s \notin unrecorded.systems => (s \in evidence.systems <=> s \in DOMAIN systems)
    BY DEF RecordInv, SystemsRecorded, Tentative, Idle
  <2>3. \A t \in Types, n \in Names : <<t, n>> \notin unrecorded.components =>
          /\ n \in DOMAIN componentNames[t] <=> <<t, n>> \in DOMAIN evidence.components
          /\ n \in DOMAIN componentNames[t] =>
               evidence.components[<<t, n>>] = componentNames[t][n]
    BY DEF RecordInv, ComponentsRecorded, Vanishing, Idle
  <2> QED BY <2>1, <2>2, <2>3 DEF LifeIsRecorded
<1> QED BY <1>1, RecordInvariant, PTL

-----------------------------------------------------------------------------
(* Signatures *)

\* The types of the components a behavior has access to.
Reach(b, granted) == {a.type : a \in {x \in granted : x.behavior = b}}

\* The behavior that is on its way out.
Dying(b) == call.operation = "destroy_behavior" /\ call.subject = b

\* A behavior without a signature is on its way out, or its destruction failed.
SignatureInv ==
  /\ DOMAIN behaviorSignatures \subseteq active
  /\ DOMAIN behaviorAccessRevisions \subseteq DOMAIN behaviorSignatures
  /\ \A b : Dying(b) => b \notin DOMAIN behaviorSignatures
  /\ \A b \in active \ DOMAIN behaviorSignatures : Dying(b) \/ b \in stranded.behaviors
  /\ \A a \in accesses : a.behavior \in DOMAIN behaviorSignatures
  /\ \A b \in DOMAIN behaviorSignatures : behaviorSignatures[b] = Reach(b, accesses)

\* Which destructions failed changes with an end of a destruction only.
LEMMA StrandedStay ==
  ASSUME StrandedShape, Frame, ~BehaviorUndone, ~BehaviorDestroyed, ~BehaviorNotDestroyed
  PROVE  stranded'.behaviors = stranded.behaviors
<1>1. CASE UNCHANGED stranded
  BY <1>1
<1>2. CASE Removing
  BY <1>2, Removes DEF Removing
<1>3. CASE NotRemoving \/ Granting \/ Revoking \/ Dropping
  <2>1. \E gone : stranded' = [stranded EXCEPT !.intents = @ \ gone]
    <3>1. CASE NotRemoving
      BY <3>1, Zenon DEF NotRemoving, ComponentNotRemoved
    <3>2. CASE Granting
      BY <3>2, Zenon DEF Granting, GrantComponentAccess
    <3>3. CASE Revoking
      BY <3>3, Revokes DEF Revoking
    <3>4. CASE Dropping
      BY <3>4, Zenon DEF Dropping, DestroyIntent
    <3> QED BY <1>3, <3>1, <3>2, <3>3, <3>4
  <2> QED BY <2>1, StrandedWithout
<1>4. CASE Lowering
  <2>1. PICK more : stranded' = [stranded EXCEPT !.intents = more]
    BY <1>4, Zenon DEF Lowering, IntentsNotDestroyed
  <2> QED BY <2>1 DEF StrandedShape
<1> QED BY <1>1, <1>2, <1>3, <1>4, Zenon DEF Frame

\* get_components(t, b).empty()
LEMMA NoComponentsIs ==
  ASSUME NEW granted, NEW names, \A a \in granted : a.slot \in Range(names[a.type]),
         NEW b, NEW t
  PROVE  NoComponents(b, t, granted, names) <=> t \notin Reach(b, granted)
BY DEF NoComponents, Reach, Range

\* Some of affected lose accesses of type t, and forgetting are those of them
\* that have none left.
Lost(granted, t, affected, forgetting) ==
  /\ granted \subseteq accesses
  /\ \A a \in accesses \ granted : a.type = t /\ a.behavior \in affected
  /\ \A b : b \in forgetting <=> b \in affected /\ t \notin Reach(b, granted)

\* The signatures next name the types of granted, and those of others are as before.
Follow(next, forgetting, granted) ==
  /\ DOMAIN next = DOMAIN behaviorSignatures \cup forgetting
  /\ \A b \in DOMAIN behaviorSignatures \cup forgetting :
       /\ next[b] = Reach(b, granted)
       /\ b \notin forgetting => next[b] = behaviorSignatures[b]

\* The reset of the type in the signatures of those that lost the last access.
LEMMA ResetIsRight ==
  ASSUME SignatureInv, NEW granted, NEW t, NEW affected, NEW forgetting,
         Lost(granted, t, affected, forgetting)
  PROVE  Follow(ResetSignatures(forgetting, t), forgetting, granted)
<1>4. /\ \A a \in accesses : a.behavior \in DOMAIN behaviorSignatures
      /\ \A b \in DOMAIN behaviorSignatures : behaviorSignatures[b] = Reach(b, accesses)
      /\ granted \subseteq accesses
      /\ \A a \in accesses \ granted : a.type = t /\ a.behavior \in affected
      /\ \A b : b \in forgetting <=> b \in affected /\ t \notin Reach(b, granted)
  BY DEF SignatureInv, Lost
<1> DEFINE reset == ResetSignatures(forgetting, t)
<1>1. /\ DOMAIN reset = DOMAIN behaviorSignatures \cup forgetting
      /\ \A b \in DOMAIN behaviorSignatures :
           /\ b \in forgetting => reset[b] = behaviorSignatures[b] \ {t}
           /\ b \notin forgetting => reset[b] = behaviorSignatures[b]
      /\ \A b \in forgetting \ DOMAIN behaviorSignatures : reset[b] = {}
  BY DEF ResetSignatures
<1>3. \A b : b \notin DOMAIN behaviorSignatures => Reach(b, granted) = {}
  BY <1>4 DEF Reach
<1>2. ASSUME NEW b \in DOMAIN behaviorSignatures
      PROVE  reset[b] = Reach(b, granted)
  <2>1. \A u : u # t => (u \in Reach(b, granted) <=> u \in Reach(b, accesses))
    BY <1>4 DEF Reach
  <2>2. t \in Reach(b, granted) => t \in Reach(b, accesses)
    BY <1>4 DEF Reach
  <2>3. b \notin affected => (t \in Reach(b, accesses) => t \in Reach(b, granted))
    BY <1>4 DEF Reach
  <2>4. CASE b \in forgetting
    <3>1. t \notin Reach(b, granted) /\ behaviorSignatures[b] = Reach(b, accesses)
      BY <1>4, <2>4
    <3>2. reset[b] = Reach(b, accesses) \ {t}
      BY <1>1, <2>4, <3>1
    <3> HIDE DEF reset
    <3> QED BY <2>1, <3>1, <3>2
  <2>5. CASE b \notin forgetting
    <3>1. t \in Reach(b, accesses) => t \in Reach(b, granted)
      BY <1>4, <2>3, <2>5
    <3>2. Reach(b, granted) = Reach(b, accesses)
      BY <2>1, <2>2, <3>1
    <3>3. reset[b] = Reach(b, accesses)
      BY <1>1, <1>4, <2>5
    <3> QED BY <3>2, <3>3
  <2> QED BY <2>4, <2>5
<1> HIDE DEF reset
<1>5. Follow(reset, forgetting, granted)
  BY <1>1, <1>2, <1>3 DEF Follow
<1> QED BY <1>5 DEF reset

\* What RemoveComponent and RevokeComponentAccess do to the signatures.
LEMMA RemovedSignatures ==
  ASSUME AccessesInv, SignatureInv, AccessInv', NEW t \in Types, NEW n \in Names,
         RemoveComponent(t, n)
  PROVE  \E forgetting :
           /\ forgetting \subseteq active
           /\ behaviorSignatures' = ResetSignatures(forgetting, t)
           /\ call' = Began("remove_component", <<t, n>>,
                            UpdatesOf(forgetting, behaviorSignatures', systems))
           /\ Follow(behaviorSignatures', forgetting, accesses')
<1> DEFINE slot == componentNames[t][n]
           granted == {a \in accesses : ~(a.type = t /\ a.slot = slot)}
           forgetting == ForgottenBy(t, WithAccess(t), accesses', componentNames')
<1>1. /\ accesses' = granted
      /\ behaviorSignatures' = ResetSignatures(forgetting, t)
      /\ call' = Began("remove_component", <<t, n>>,
                       UpdatesOf(forgetting, behaviorSignatures', systems))
  BY DEF RemoveComponent
<1>2. \A a \in accesses' : a.slot \in Range(componentNames'[a.type])
  BY DEF AccessInv
<1>3. \A b : b \in forgetting <=> b \in WithAccess(t) /\ t \notin Reach(b, accesses')
  BY <1>2, NoComponentsIs DEF ForgottenBy
<1>4. /\ granted \subseteq accesses
      /\ \A a \in accesses \ granted : a.type = t /\ a.behavior \in WithAccess(t)
  BY DEF WithAccess
<1>5. forgetting \subseteq active
  BY <1>3 DEF AccessesInv, AccessInv, WithAccess
<1> HIDE DEF granted, forgetting
<1>6. \A b : b \in forgetting <=> b \in WithAccess(t) /\ t \notin Reach(b, granted)
  BY <1>1, <1>3
<1>7. Follow(ResetSignatures(forgetting, t), forgetting, granted)
  <2> DEFINE affected == WithAccess(t)
  <2> HIDE DEF affected
  <2>1. Lost(granted, t, affected, forgetting)
    BY <1>4, <1>6 DEF Lost, affected
  <2> QED BY <2>1, ResetIsRight
<1> QED BY <1>1, <1>5, <1>7

LEMMA RevokedSignatures ==
  ASSUME AccessesInv, SignatureInv, AccessInv', NEW t \in Types, NEW n \in Names,
         NEW b \in active, RevokeComponentAccess(b, t, n)
  PROVE  \E forgetting :
           /\ forgetting \subseteq active
           /\ behaviorSignatures' = ResetSignatures(forgetting, t)
           /\ call' = Began("revoke_component_access", b,
                            UpdatesOf(forgetting, behaviorSignatures', systems))
           /\ Follow(behaviorSignatures', forgetting, accesses')
<1> DEFINE slot == componentNames[t][n]
           granted == {a \in accesses : ~(a.behavior = b /\ a.type = t /\ a.slot = slot)}
           forgetting == ForgottenBy(t, {b}, accesses', componentNames)
<1>1. /\ accesses' = granted /\ componentNames' = componentNames
      /\ behaviorSignatures' = ResetSignatures(forgetting, t)
      /\ call' = Began("revoke_component_access", b,
                       UpdatesOf(forgetting, behaviorSignatures', systems))
  BY DEF RevokeComponentAccess, componentVars
<1>2. \A a \in accesses' : a.slot \in Range(componentNames[a.type])
  BY <1>1 DEF AccessInv
<1>3. \A x : x \in forgetting <=> x \in {b} /\ t \notin Reach(x, accesses')
  BY <1>2, NoComponentsIs DEF ForgottenBy
<1>4. /\ granted \subseteq accesses
      /\ \A a \in accesses \ granted : a.type = t /\ a.behavior \in {b}
  OBVIOUS
<1>5. forgetting \subseteq active
  BY <1>3
<1> HIDE DEF granted, forgetting
<1>6. \A x : x \in forgetting <=> x \in {b} /\ t \notin Reach(x, granted)
  BY <1>1, <1>3
<1>7. Follow(ResetSignatures(forgetting, t), forgetting, granted)
  <2> DEFINE affected == {b}
  <2> HIDE DEF affected
  <2>1. Lost(granted, t, affected, forgetting)
    BY <1>4, <1>6 DEF Lost, affected
  <2> QED BY <2>1, ResetIsRight
<1> QED BY <1>1, <1>5, <1>7

\* An access that lets an intent's owner write is replaced: it had one before.
LEMMA LoweredReach ==
  ASSUME AccessesInv, Lowering
  PROVE  /\ \A x : Reach(x, accesses') = Reach(x, accesses)
         /\ \A a \in accesses' : \E c \in accesses : c.behavior = a.behavior
<1>1. PICK t \in Types, n \in Names, b \in active : IntentsNotDestroyed(b, t, n)
  BY DEF Lowering
<1> DEFINE slot == componentNames[t][n]
           new == [behavior |-> b, type |-> t, slot |-> slot, mode |-> "Read"]
<1>2. /\ accesses' = {a \in accesses : ~(a.behavior = b /\ a.type = t /\ a.slot = slot)}
                     \cup {new}
      /\ IntentsOn(b, t, slot) # {} /\ b \in DOMAIN behaviorAccessRevisions
  BY <1>1, Lowers
<1>3. new.behavior = b /\ new.type = t /\ new.slot = slot
  OBVIOUS
<1> HIDE DEF slot, new
<1>4. PICK c \in accesses : c.behavior = b /\ c.type = t /\ c.slot = slot
  <2>1. PICK i \in intents : i.owner = b /\ i.type = t /\ i.slot = slot
    BY <1>2 DEF IntentsOn
  <2> QED BY <1>2, <2>1 DEF AccessesInv, IntentInv, Held
<1>5. \A x : Reach(x, accesses') = Reach(x, accesses)
  BY <1>2, <1>3, <1>4 DEF Reach
<1> QED BY <1>2, <1>3, <1>4, <1>5

LEMMA SignatureStep ==
  ASSUME AccessesInv, AccessInv', SignatureInv, [Next]_vars
  PROVE  SignatureInv'
<1>1. BehaviorInv /\ IssuedShape /\ SubjectInv /\ CallInv /\ AccessInv /\ StrandedShape
  BY DEF AccessesInv, IntentInv
<1>2. Turn /\ Frame
  BY <1>1, Turns, Frames
<1>3. ASSUME call = Idle
      PROVE  active \ DOMAIN behaviorSignatures \subseteq stranded.behaviors
  BY <1>3 DEF SignatureInv, Dying, Idle
<1>4. ASSUME call'.operation # "destroy_behavior"
      PROVE  \A b : ~Dying(b)'
  BY <1>4 DEF Dying
<1>5. CASE CreateBehavior
  <2>1. accesses' = accesses /\ call = Idle /\ stranded' = stranded
    BY <1>5 DEF CreateBehavior, StructureMayChange, intentVars
  <2>2. \A b : ~Dying(b)'
    BY <1>2, <1>4, <1>5 DEF Turn, Opens, Idle
  <2>3. CASE availableSlots = <<>>
    <3>1. /\ active' = active /\ behaviorSignatures' = behaviorSignatures
          /\ behaviorAccessRevisions' = behaviorAccessRevisions
      BY <1>5, <2>3 DEF CreateBehavior, behaviorVars
    <3> QED BY <1>3, <2>1, <2>2, <3>1 DEF SignatureInv
  <2>4. CASE availableSlots # <<>>
    <3> DEFINE b == [slot |-> Last(availableSlots),
                     generation |-> generations[Last(availableSlots)]]
    <3>1. /\ behaviorSignatures' = With(behaviorSignatures, b, {})
          /\ \E x : behaviorAccessRevisions' = With(behaviorAccessRevisions, b, x)
      BY <1>5, <2>4 DEF CreateBehavior
    <3> HIDE DEF b
    <3>2. b \notin active /\ active' = active \cup {b}
      BY <1>1, <1>5, <2>4, Created DEF b
    <3>3. /\ DOMAIN behaviorSignatures' = DOMAIN behaviorSignatures \cup {b}
          /\ DOMAIN behaviorAccessRevisions' = DOMAIN behaviorAccessRevisions \cup {b}
          /\ behaviorSignatures'[b] = {}
          /\ \A x \in DOMAIN behaviorSignatures \ {b} :
               behaviorSignatures'[x] = behaviorSignatures[x]
      BY <3>1 DEF With
    <3>4. Reach(b, accesses) = {}
      BY <1>1, <3>2 DEF Reach, AccessInv
    <3> QED BY <1>3, <2>1, <2>2, <3>2, <3>3, <3>4 DEF SignatureInv
  <2> QED BY <2>3, <2>4
<1>6. CASE Destroying
  <2>1. PICK b \in active : DestroyBehavior(b)
    BY <1>6 DEF Destroying
  <2>2. /\ call = Idle /\ accesses' = {a \in accesses : a.behavior # b} /\ active' = active
        /\ call'.operation = "destroy_behavior" /\ call'.subject = b /\ stranded' = stranded
        /\ DOMAIN behaviorAccessRevisions' = DOMAIN behaviorAccessRevisions \ {b}
    BY <2>1, Destroys DEF behaviorVars
  <2>3. behaviorSignatures' = Restrict(behaviorSignatures, DOMAIN behaviorSignatures \ {b})
    BY <2>1 DEF DestroyBehavior
  <2>4. /\ DOMAIN behaviorSignatures' = DOMAIN behaviorSignatures \ {b}
        /\ \A x \in DOMAIN behaviorSignatures \ {b} :
             behaviorSignatures'[x] = Reach(x, accesses)
    BY <2>2, <2>3 DEF Restrict, SignatureInv
  <2>5. \A x : x # b => Reach(x, accesses') = Reach(x, accesses)
    BY <2>2 DEF Reach
  <2>6. \A x : Dying(x)' <=> x = b
    BY <2>2 DEF Dying
  <2> QED BY <1>3, <2>2, <2>4, <2>5, <2>6 DEF SignatureInv
<1>7. CASE BehaviorUndone \/ BehaviorDestroyed
  <2>1. /\ active' = active \ {call.subject} /\ call' = Idle /\ accesses' = accesses
        /\ call.operation \in {"undo_behavior", "destroy_behavior"}
        /\ DOMAIN behaviorAccessRevisions' = DOMAIN behaviorAccessRevisions \ {call.subject}
        /\ stranded'.behaviors = stranded.behaviors \ {call.subject}
        /\ \A a \in accesses : a.behavior # call.subject
    BY <1>1, <1>7, Ends
  <2>2. behaviorSignatures' =
          Restrict(behaviorSignatures, DOMAIN behaviorSignatures \ {call.subject})
    BY <1>7 DEF BehaviorUndone, BehaviorDestroyed, BehaviorGone
  <2>3. /\ DOMAIN behaviorSignatures' = DOMAIN behaviorSignatures \ {call.subject}
        /\ \A x \in DOMAIN behaviorSignatures' : behaviorSignatures'[x] = behaviorSignatures[x]
    BY <2>2 DEF Restrict
  <2>4. \A b : ~Dying(b)'
    BY <1>4, <2>1 DEF Idle
  <2>5. \A b \in active \ DOMAIN behaviorSignatures :
          b # call.subject => b \in stranded.behaviors
    BY DEF SignatureInv, Dying
  <2> QED BY <2>1, <2>3, <2>4, <2>5 DEF SignatureInv
<1>11. CASE BehaviorNotDestroyed
  <2>1. /\ active' = active /\ accesses' = accesses /\ behaviorSignatures' = behaviorSignatures
        /\ behaviorAccessRevisions' = behaviorAccessRevisions /\ call' = Idle
    BY <1>11, Keeps DEF behaviorVars
  <2>2. stranded'.behaviors = stranded.behaviors \cup {call.subject}
    BY <1>11 DEF BehaviorNotDestroyed
  <2>3. \A b : ~Dying(b)'
    BY <1>4, <2>1 DEF Idle
  <2>4. \A b \in active \ DOMAIN behaviorSignatures :
          b = call.subject \/ b \in stranded.behaviors
    BY DEF SignatureInv, Dying
  <2> QED BY <2>1, <2>2, <2>3, <2>4 DEF SignatureInv
<1>8. CASE Granting
  <2>1. PICK t \in Types, n \in Names, b \in active, mode \in Modes :
          GrantComponentAccess(b, t, n, mode)
    BY <1>8 DEF Granting
  <2> DEFINE slot == componentNames[t][n]
             new == [behavior |-> b, type |-> t, slot |-> slot, mode |-> mode]
  <2>2. /\ call = Idle
        /\ accesses' = {a \in accesses : ~(a.behavior = b /\ a.type = t /\ a.slot = slot)}
                       \cup {new}
        /\ active' = active /\ call'.operation = "grant_component_access"
        /\ b \in DOMAIN behaviorAccessRevisions
        /\ DOMAIN behaviorAccessRevisions' = DOMAIN behaviorAccessRevisions
    BY <2>1, Grants DEF behaviorVars
  <2>3. behaviorSignatures' = [behaviorSignatures EXCEPT ![b] = @ \cup {t}]
    BY <2>1 DEF GrantComponentAccess
  <2>4. new.behavior = b /\ new.type = t /\ new.slot = slot
    OBVIOUS
  <2> HIDE DEF slot, new
  <2>5. Reach(b, accesses') = Reach(b, accesses) \cup {t}
    BY <2>2, <2>4 DEF Reach
  <2>6. \A x : x # b => Reach(x, accesses') = Reach(x, accesses)
    BY <2>2, <2>4 DEF Reach
  <2>7. \A x : ~Dying(x)'
    BY <1>4, <2>2
  <2>8. b \in DOMAIN behaviorSignatures
    BY <2>2 DEF SignatureInv
  <2>9. /\ DOMAIN behaviorSignatures' = DOMAIN behaviorSignatures
        /\ behaviorSignatures'[b] = behaviorSignatures[b] \cup {t}
        /\ \A x \in DOMAIN behaviorSignatures : x # b =>
             behaviorSignatures'[x] = behaviorSignatures[x]
    BY <2>3, <2>8
  <2>10. \A a \in accesses' : a.behavior \in DOMAIN behaviorSignatures
    BY <2>2, <2>4, <2>8 DEF SignatureInv
  <2>11. stranded'.behaviors = stranded.behaviors
    <3>1. \E gone : stranded' = [stranded EXCEPT !.intents = @ \ gone]
      BY <2>1, Zenon DEF GrantComponentAccess
    <3> QED BY <1>1, <3>1, StrandedWithout
  <2>12. \A x \in DOMAIN behaviorSignatures : behaviorSignatures'[x] = Reach(x, accesses')
    BY <2>5, <2>6, <2>8, <2>9 DEF SignatureInv
  <2> QED BY <1>3, <2>2, <2>7, <2>9, <2>10, <2>11, <2>12 DEF SignatureInv
<1>9. CASE Removing \/ Revoking
  <2>1. PICK forgetting :
          /\ forgetting \subseteq active
          /\ Follow(behaviorSignatures', forgetting, accesses')
    <3>1. CASE Removing
      <4>1. PICK t \in Types, n \in Names : RemoveComponent(t, n)
        BY <3>1 DEF Removing
      <4> QED BY <4>1, RemovedSignatures
    <3>2. CASE Revoking
      <4>1. PICK t \in Types, n \in Names, b \in active : RevokeComponentAccess(b, t, n)
        BY <3>2 DEF Revoking
      <4> QED BY <4>1, RevokedSignatures
    <3> QED BY <1>9, <3>1, <3>2
  <2>2. call = Idle /\ call'.operation # "destroy_behavior"
    BY <1>2, <1>9 DEF Turn, Opens
  <2>3. /\ active' = active /\ accesses' \subseteq accesses
        /\ DOMAIN behaviorAccessRevisions' = DOMAIN behaviorAccessRevisions
        /\ stranded'.behaviors = stranded.behaviors
    <3>1. CASE Removing
      <4>1. PICK t \in Types, n \in Names : RemoveComponent(t, n)
        BY <3>1 DEF Removing
      <4>2. active' = active
        BY <4>1 DEF RemoveComponent, behaviorVars
      <4> QED BY <1>1, <4>1, <4>2, Removes
    <3>2. CASE Revoking
      <4>1. PICK t \in Types, n \in Names, b \in active : RevokeComponentAccess(b, t, n)
        BY <3>2 DEF Revoking
      <4>2. /\ active' = active /\ accesses' \subseteq accesses
            /\ DOMAIN behaviorAccessRevisions' = DOMAIN behaviorAccessRevisions
        BY <4>1, Revokes DEF behaviorVars
      <4>3. \E gone : stranded' = [stranded EXCEPT !.intents = @ \ gone]
        BY <4>1, Zenon DEF RevokeComponentAccess
      <4> QED BY <1>1, <4>2, <4>3, StrandedWithout
    <3> QED BY <1>9, <3>1, <3>2
  <2>4. \A x : ~Dying(x)'
    BY <1>4, <2>2
  <2> QED BY <1>3, <2>1, <2>2, <2>3, <2>4 DEF SignatureInv, Follow
<1>12. CASE Lowering
  <2>1. PICK t \in Types, n \in Names, b \in active : IntentsNotDestroyed(b, t, n)
    BY <1>12 DEF Lowering
  <2>2. /\ active' = active /\ behaviorSignatures' = behaviorSignatures
        /\ call = Idle /\ call' = Idle
        /\ DOMAIN behaviorAccessRevisions' = DOMAIN behaviorAccessRevisions
    BY <2>1, Lowers DEF behaviorVars
  <2>3. /\ \A x : Reach(x, accesses') = Reach(x, accesses)
        /\ \A a \in accesses' : \E c \in accesses : c.behavior = a.behavior
    BY <1>12, LoweredReach
  <2>4. \A x : ~Dying(x)'
    BY <1>4, <2>2 DEF Idle
  <2>5. stranded'.behaviors = stranded.behaviors
    <3>1. PICK more : stranded' = [stranded EXCEPT !.intents = more]
      BY <2>1, Zenon DEF IntentsNotDestroyed
    <3> QED BY <1>1, <3>1 DEF StrandedShape
  <2>6. \A a \in accesses' : a.behavior \in DOMAIN behaviorSignatures
    BY <2>3 DEF SignatureInv
  <2> QED BY <1>3, <2>2, <2>3, <2>4, <2>5, <2>6 DEF SignatureInv
<1>10. CASE /\ ~CreateBehavior /\ ~Destroying /\ ~BehaviorUndone /\ ~BehaviorDestroyed
            /\ ~BehaviorNotDestroyed /\ ~Granting /\ ~Removing /\ ~Revoking /\ ~Lowering
  <2>1. /\ UNCHANGED behaviorVars /\ accesses' = accesses
        /\ behaviorSignatures' = behaviorSignatures
        /\ behaviorAccessRevisions' = behaviorAccessRevisions
    BY <1>2, <1>10, Zenon DEF Frame
  <2>2. \/ Same
        \/ call'.operation # "destroy_behavior" /\ call.operation # "destroy_behavior"
    <3>1. \/ Same
          \/ \E operation \in {"create_behavior", "undo_behavior", "remove_component",
               "register_system", "grant_component_access", "revoke_component_access",
               "set_system_signature", "run_systems"} : Opens(operation) \/ Closes(operation)
          \/ call = Idle /\ call' = Idle
          \/ call.operation = "create_behavior" /\ call'.operation = "undo_behavior"
      BY <1>2, <1>10, NextCases, Zenon DEF Turn
    <3> QED BY <3>1 DEF Opens, Closes, Idle
  <2>3. stranded'.behaviors = stranded.behaviors
    BY <1>1, <1>2, <1>10, StrandedStay
  <2>4. \A b : Dying(b)' <=> Dying(b)
    BY <2>2 DEF Dying, Same
  <2> QED BY <2>1, <2>3, <2>4 DEF SignatureInv, behaviorVars
<1> QED BY <1>5, <1>6, <1>7, <1>8, <1>9, <1>10, <1>11, <1>12

-----------------------------------------------------------------------------
(* Memberships *)

\* The behaviors of live are members of the systems of records they should be
\* members of, given the signatures, except for the changes still to make;
\* the doomed ones should not be members of any.
Members(live, records, signatures, doomed, todo) ==
  /\ \A s \in DOMAIN records : records[s].behaviours \subseteq live
  /\ todo \subseteq [behavior : live, system : DOMAIN records]
  /\ \A b \in live, s \in DOMAIN records :
       [behavior |-> b, system |-> s] \in todo <=>
         ~((/\ b \in DOMAIN signatures
            /\ b \notin doomed
            /\ records[s].signature \subseteq signatures[b])
           <=> b \in records[s].behaviours)

LEMMA UpdatesAre ==
  ASSUME NEW bs, NEW signatures, NEW records, NEW b, NEW s
  PROVE  [behavior |-> b, system |-> s] \in UpdatesOf(bs, signatures, records) <=>
           /\ b \in bs /\ s \in DOMAIN records
           /\ ~(records[s].signature \subseteq signatures[b] <=> b \in records[s].behaviours)
<1>1. \A x : [behavior |-> b, system |-> s] \in Updates(x, signatures[x], records) <=>
               /\ x = b /\ s \in DOMAIN records
               /\ ~(records[s].signature \subseteq signatures[x] <=> x \in records[s].behaviours)
  <2> TAKE x
  <2> DEFINE wrong == {y \in DOMAIN records :
                (records[y].signature \subseteq signatures[x]) # (x \in records[y].behaviours)}
  <2>1. Updates(x, signatures[x], records) = {[behavior |-> x, system |-> y] : y \in wrong}
    BY DEF Updates
  <2>2. s \in wrong <=>
          /\ s \in DOMAIN records
          /\ ~(records[s].signature \subseteq signatures[x] <=> x \in records[s].behaviours)
    <3>1. ((records[s].signature \subseteq signatures[x]) # (x \in records[s].behaviours))
            <=> ~(records[s].signature \subseteq signatures[x] <=> x \in records[s].behaviours)
      OBVIOUS
    <3> QED BY <3>1, Zenon
  <2> HIDE DEF wrong
  <2>3. [behavior |-> b, system |-> s] \in Updates(x, signatures[x], records)
          <=> x = b /\ s \in wrong
    BY <2>1
  <2> QED BY <2>2, <2>3
<1> QED BY <1>1 DEF UpdatesOf

LEMMA UpdatesShape ==
  ASSUME NEW bs, NEW signatures, NEW records
  PROVE  UpdatesOf(bs, signatures, records) \subseteq [behavior : bs, system : DOMAIN records]
BY DEF UpdatesOf, Updates

\* update_system_memberships, after the signatures of some behaviors changed.
LEMMA MembersUpdate ==
  ASSUME NEW live, NEW records, NEW signatures, Members(live, records, signatures, {}, {}),
         NEW more, live \subseteq more, NEW next, DOMAIN next \subseteq more,
         NEW changed, changed \subseteq DOMAIN next,
         \A b \in more \ changed :
           /\ b \in live /\ (b \in DOMAIN next <=> b \in DOMAIN signatures)
           /\ b \in DOMAIN next => next[b] = signatures[b]
  PROVE  Members(more, records, next, {}, UpdatesOf(changed, next, records))
<1> DEFINE todo == UpdatesOf(changed, next, records)
<1>1. \A s \in DOMAIN records : records[s].behaviours \subseteq more
  BY DEF Members
<1>2. todo \subseteq [behavior : more, system : DOMAIN records]
  BY UpdatesShape
<1>3. ASSUME NEW b \in more, NEW s \in DOMAIN records
      PROVE  [behavior |-> b, system |-> s] \in todo <=>
               ~(b \in DOMAIN next /\ records[s].signature \subseteq next[b]
                 <=> b \in records[s].behaviours)
  <2>1. CASE b \in changed
    BY <2>1, UpdatesAre
  <2>2. CASE b \notin changed
    <3>1. [behavior |-> b, system |-> s] \notin todo
      BY <2>2, UpdatesAre
    <3>2. /\ b \in live /\ (b \in DOMAIN next <=> b \in DOMAIN signatures)
          /\ b \in DOMAIN next => next[b] = signatures[b]
      BY <2>2
    <3>3. b \in DOMAIN signatures /\ records[s].signature \subseteq signatures[b]
            <=> b \in records[s].behaviours
      BY <3>2 DEF Members
    <3> QED BY <3>1, <3>2, <3>3
  <2> QED BY <2>1, <2>2
<1> HIDE DEF todo
<1>4. Members(more, records, next, {}, todo)
  BY <1>1, <1>2, <1>3 DEF Members
<1> QED BY <1>4 DEF todo

\* update_system_memberships for all behaviors, after a system changed.
LEMMA MembersAll ==
  ASSUME NEW live, NEW records, NEW signatures, DOMAIN signatures \subseteq live,
         \A s \in DOMAIN records : records[s].behaviours \subseteq DOMAIN signatures
  PROVE  Members(live, records, signatures, {},
                 UpdatesOf(DOMAIN signatures, signatures, records))
<1> DEFINE todo == UpdatesOf(DOMAIN signatures, signatures, records)
<1>1. todo \subseteq [behavior : live, system : DOMAIN records]
  <2>1. todo \subseteq [behavior : DOMAIN signatures, system : DOMAIN records]
    BY UpdatesShape
  <2> HIDE DEF todo
  <2> QED BY <2>1
<1>2. \A b \in live, s \in DOMAIN records :
        [behavior |-> b, system |-> s] \in todo <=>
          ~(b \in DOMAIN signatures /\ records[s].signature \subseteq signatures[b]
            <=> b \in records[s].behaviours)
  <2> TAKE b \in live, s \in DOMAIN records
  <2>1. [behavior |-> b, system |-> s] \in todo <=>
          /\ b \in DOMAIN signatures /\ s \in DOMAIN records
          /\ ~(records[s].signature \subseteq signatures[b] <=> b \in records[s].behaviours)
    BY UpdatesAre
  <2> HIDE DEF todo
  <2> QED BY <2>1
<1> HIDE DEF todo
<1>3. Members(live, records, signatures, {}, todo)
  BY <1>1, <1>2 DEF Members
<1> QED BY <1>3 DEF todo

\* remove_behavior: the behavior is to leave its systems.
LEMMA MembersLeave ==
  ASSUME NEW live, NEW records, NEW signatures, Members(live, records, signatures, {}, {}),
         NEW b \in live, NEW next, NEW doomed, b \notin DOMAIN next \/ b \in doomed,
         \A x \in live \ {b} :
           /\ x \notin doomed
           /\ x \in DOMAIN next <=> x \in DOMAIN signatures
           /\ x \in DOMAIN next => next[x] = signatures[x],
         NEW todo,
         todo = {[behavior |-> b, system |-> s] :
                   s \in {x \in DOMAIN records : b \in records[x].behaviours}}
  PROVE  Members(live, records, next, doomed, todo)
<1>1. \A s \in DOMAIN records : records[s].behaviours \subseteq live
  BY DEF Members
<1>2. todo \subseteq [behavior : live, system : DOMAIN records]
  OBVIOUS
<1>3. \A x, s : [behavior |-> x, system |-> s] \in todo <=>
                  x = b /\ s \in DOMAIN records /\ x \in records[s].behaviours
  OBVIOUS
<1>4. ASSUME NEW x \in live, NEW s \in DOMAIN records
      PROVE  [behavior |-> x, system |-> s] \in todo <=>
               ~((/\ x \in DOMAIN next
                  /\ x \notin doomed
                  /\ records[s].signature \subseteq next[x])
                 <=> x \in records[s].behaviours)
  <2>1. CASE x = b
    BY <1>3, <2>1
  <2>2. CASE x # b
    BY <1>3, <2>2 DEF Members
  <2> QED BY <2>1, <2>2
<1> QED BY <1>1, <1>2, <1>4 DEF Members

\* The behavior has left its systems and goes.
LEMMA MembersDrop ==
  ASSUME NEW live, NEW records, NEW signatures, NEW doomed,
         Members(live, records, signatures, doomed, {}),
         NEW b \in live, b \notin DOMAIN signatures \/ b \in doomed, doomed \subseteq {b}
  PROVE  Members(live \ {b}, records, Restrict(signatures, DOMAIN signatures \ {b}), {}, {})
<1> DEFINE next == Restrict(signatures, DOMAIN signatures \ {b})
<1>1. \A s \in DOMAIN records : records[s].behaviours \subseteq live \ {b}
  BY DEF Members
<1>2. /\ DOMAIN next = DOMAIN signatures \ {b}
      /\ \A x \in DOMAIN next : next[x] = signatures[x]
  BY DEF Restrict
<1> HIDE DEF next
<1>3. ASSUME NEW x \in live \ {b}, NEW s \in DOMAIN records
      PROVE  (/\ x \in DOMAIN next
              /\ x \notin {}
              /\ records[s].signature \subseteq next[x]) <=> x \in records[s].behaviours
  BY <1>2 DEF Members
<1>4. Members(live \ {b}, records, next, {}, {})
  BY <1>1, <1>3 DEF Members
<1> QED BY <1>4 DEF next

Shaped(records) ==
  \A s \in DOMAIN records :
    records[s] = [signature |-> records[s].signature, behaviours |-> records[s].behaviours]

\* One of the changes is made.
LEMMA MembersChange ==
  ASSUME NEW live, NEW records, NEW signatures, NEW doomed, NEW todo,
         Members(live, records, signatures, doomed, todo), Shaped(records), NEW c \in todo,
         NEW next,
         next = [records EXCEPT ![c.system].behaviours =
                   IF c.behavior \in @ THEN @ \ {c.behavior} ELSE @ \cup {c.behavior}]
  PROVE  Members(live, next, signatures, doomed, todo \ {c}) /\ Shaped(next)
<1> DEFINE b == c.behavior
           s == c.system
           old == records[s].behaviours
           new == IF b \in old THEN old \ {b} ELSE old \cup {b}
<1>1. b \in live /\ s \in DOMAIN records /\ c = [behavior |-> b, system |-> s]
  BY DEF Members
<1>2. next = [records EXCEPT ![s] = [records[s] EXCEPT !.behaviours = new]]
  OBVIOUS
<1>3. \A x : x \in new <=> IF x = b THEN x \notin old ELSE x \in old
  OBVIOUS
<1> HIDE DEF b, s, old, new
<1>4. records[s] = [signature |-> records[s].signature, behaviours |-> records[s].behaviours]
  BY <1>1 DEF Shaped
<1>5. /\ DOMAIN next = DOMAIN records
      /\ next[s] = [signature |-> records[s].signature, behaviours |-> new]
      /\ \A x \in DOMAIN records : x # s => next[x] = records[x]
  BY <1>1, <1>2, <1>4
<1>6. next[s].signature = records[s].signature /\ next[s].behaviours = new
  BY <1>5
<1>7. Shaped(next)
  BY <1>5, <1>6 DEF Shaped
<1>8. /\ \A x \in DOMAIN records : records[x].behaviours \subseteq live
      /\ todo \subseteq [behavior : live, system : DOMAIN records]
  BY DEF Members
<1>9. \A x \in DOMAIN next : next[x].behaviours \subseteq live
  BY <1>1, <1>3, <1>5, <1>6, <1>8 DEF old
<1>10. todo \ {c} \subseteq [behavior : live, system : DOMAIN next]
  BY <1>5, <1>8
<1>11. ASSUME NEW x \in live, NEW y \in DOMAIN next
       PROVE  [behavior |-> x, system |-> y] \in todo \ {c} <=>
                ~((/\ x \in DOMAIN signatures
                   /\ x \notin doomed
                   /\ next[y].signature \subseteq signatures[x])
                  <=> x \in next[y].behaviours)
  <2> DEFINE wanted == /\ x \in DOMAIN signatures
                       /\ x \notin doomed
                       /\ records[y].signature \subseteq signatures[x]
             change == [behavior |-> x, system |-> y]
  <2>1. change \in todo <=> ~(wanted <=> x \in records[y].behaviours)
    BY <1>5 DEF Members
  <2>2. next[y].signature = records[y].signature
    BY <1>5, <1>6
  <2>3. change = c <=> x = b /\ y = s
    BY <1>1
  <2> HIDE DEF wanted, change
  <2>4. CASE x = b /\ y = s
    <3>1. x \in next[y].behaviours <=> x \notin records[y].behaviours
      BY <1>3, <1>6, <2>4 DEF old
    <3>2. change \in todo /\ change = c
      BY <2>3, <2>4
    <3>3. change \notin todo \ {c} /\ (wanted <=> x \in next[y].behaviours)
      BY <2>1, <3>1, <3>2
    <3> QED BY <2>2, <3>3 DEF wanted, change
  <2>5. CASE ~(x = b /\ y = s)
    <3>1. x \in next[y].behaviours <=> x \in records[y].behaviours
      BY <1>3, <1>5, <1>6, <2>5 DEF old
    <3>2. change \in todo \ {c} <=> change \in todo
      BY <2>3, <2>5
    <3>3. change \in todo \ {c} <=> ~(wanted <=> x \in next[y].behaviours)
      BY <2>1, <3>1, <3>2
    <3> QED BY <2>2, <3>3 DEF wanted, change
  <2> QED BY <2>4, <2>5
<1>12. Members(live, next, signatures, doomed, todo \ {c})
  BY <1>9, <1>10, <1>11 DEF Members
<1> QED BY <1>7, <1>12

\* SystemRegistry::destroy_system
LEMMA MembersWithout ==
  ASSUME NEW live, NEW records, NEW signatures, Members(live, records, signatures, {}, {}),
         Shaped(records), NEW s
  PROVE  /\ Members(live, Restrict(records, DOMAIN records \ {s}), signatures, {}, {})
         /\ Shaped(Restrict(records, DOMAIN records \ {s}))
<1> DEFINE next == Restrict(records, DOMAIN records \ {s})
<1>1. DOMAIN next = DOMAIN records \ {s} /\ \A x \in DOMAIN next : next[x] = records[x]
  BY DEF Restrict
<1> HIDE DEF next
<1>2. Shaped(next)
  BY <1>1 DEF Shaped
<1>3. Members(live, next, signatures, {}, {})
  BY <1>1 DEF Members
<1> QED BY <1>2, <1>3 DEF next

LEMMA WithoutItem ==
  ASSUME NEW S, NEW q \in Seq(S), NEW p \in DOMAIN q
  PROVE  /\ RemoveAt(q, p) \in Seq(S)
         /\ \A j \in DOMAIN q : j # p =>
              \E i \in DOMAIN RemoveAt(q, p) : RemoveAt(q, p)[i] = q[j]
<1> DEFINE n == Len(q)
           before == SubSeq(q, 1, p - 1)
           after == SubSeq(q, p + 1, n)
<1>1. n \in Nat /\ DOMAIN q = 1..n /\ p \in 1..n /\ \A i \in 1..n : q[i] \in S
  OBVIOUS
<1>2. /\ before \in Seq(S) /\ Len(before) = p - 1
      /\ \A i \in 1..(p - 1) : before[i] = q[i]
  <2> DEFINE m == p - 1
  <2>1. m \in Nat /\ m < n /\ 1 \in Int /\ \A i \in 1..m : q[i] \in S
    BY <1>1
  <2> HIDE DEF m
  <2>2. /\ SubSeq(q, 1, m) \in Seq(S)
        /\ Len(SubSeq(q, 1, m)) = IF 1 <= m THEN m - 1 + 1 ELSE 0
        /\ \A i \in 1..(m - 1 + 1) : SubSeq(q, 1, m)[i] = q[1 + i - 1]
    BY <2>1, SubSeqProperties
  <2>3. /\ SubSeq(q, 1, m) \in Seq(S) /\ Len(SubSeq(q, 1, m)) = m
        /\ \A i \in 1..m : SubSeq(q, 1, m)[i] = q[i]
    BY <2>1, <2>2
  <2> QED BY <2>3 DEF m
<1>3. /\ after \in Seq(S) /\ Len(after) = n - p
      /\ \A i \in 1..(n - p) : after[i] = q[p + i]
  <2> DEFINE m == p + 1
  <2>1. m \in Int /\ n \in Int /\ m >= 1 /\ m <= n + 1 /\ \A i \in m..n : q[i] \in S
    BY <1>1
  <2>2. p = m - 1 /\ p \in Int
    BY <1>1
  <2> HIDE DEF m, n
  <2>3. /\ SubSeq(q, m, n) \in Seq(S)
        /\ Len(SubSeq(q, m, n)) = IF m <= n THEN n - m + 1 ELSE 0
        /\ \A i \in 1..(n - m + 1) : SubSeq(q, m, n)[i] = q[m + i - 1]
    BY <2>1, SubSeqProperties
  <2>4. /\ SubSeq(q, m, n) \in Seq(S) /\ Len(SubSeq(q, m, n)) = n - p
        /\ \A i \in 1..(n - p) : SubSeq(q, m, n)[i] = q[p + i]
    <3>1. n - m + 1 = n - p /\ (~(m <= n) => n - p = 0) /\ \A i \in Int : m + i - 1 = p + i
      BY <2>1, <2>2
    <3>2. ASSUME NEW i \in 1..(n - p)
          PROVE  SubSeq(q, m, n)[i] = q[p + i]
      <4>1. i \in Int
        BY <2>1, <2>2
      <4>2. SubSeq(q, m, n)[i] = q[m + i - 1] /\ m + i - 1 = p + i
        BY <2>3, <3>1, <4>1
      <4> QED BY <4>2
    <3>3. Len(SubSeq(q, m, n)) = n - p
      BY <2>3, <3>1
    <3> QED BY <2>3, <3>2, <3>3
  <2> QED BY <2>4 DEF m
<1> DEFINE rest == before \o after
<1> HIDE DEF before, after, n
<1>4. /\ rest \in Seq(S) /\ Len(rest) = Len(before) + Len(after)
      /\ \A i \in 1..(Len(before) + Len(after)) :
           rest[i] = IF i <= Len(before) THEN before[i] ELSE after[i - Len(before)]
  BY <1>2, <1>3, ConcatProperties
<1> HIDE DEF rest
<1>5. rest \in Seq(S) /\ Len(rest) = n - 1 /\ DOMAIN rest = 1..(n - 1)
  BY <1>1, <1>2, <1>3, <1>4
<1>6. ASSUME NEW j \in DOMAIN q, j # p
      PROVE  \E i \in DOMAIN rest : rest[i] = q[j]
  <2>1. CASE j < p
    <3>1. j \in 1..(n - 1) /\ j <= p - 1 /\ j \in 1..(p - 1)
      BY <1>1, <2>1
    <3>2. rest[j] = before[j]
      BY <1>1, <1>2, <1>3, <1>4, <3>1
    <3> QED BY <1>2, <1>5, <3>1, <3>2
  <2>2. CASE j > p
    <3> DEFINE i == j - 1
               k == j - p
    <3>1. i \in 1..(n - 1) /\ ~(i <= p - 1) /\ i - (p - 1) = k /\ k \in 1..(n - p) /\ p + k = j
      BY <1>1, <2>2
    <3> HIDE DEF i, k
    <3>2. rest[i] = after[i - (p - 1)]
      <4>1. Len(before) = p - 1 /\ i \in 1..(Len(before) + Len(after))
        BY <1>2, <1>4, <1>5, <3>1
      <4> QED BY <1>4, <3>1, <4>1
    <3>3. rest[i] = q[j]
      BY <1>3, <3>1, <3>2
    <3> QED BY <1>5, <3>1, <3>3
  <2> QED BY <1>1, <1>6, <2>1, <2>2
<1> QED BY <1>5, <1>6 DEF rest, before, after, n, RemoveAt

OrderInv ==
  /\ registrationOrder \in Seq(Systems)
  /\ \A s \in DOMAIN systems : \E i \in DOMAIN registrationOrder : registrationOrder[i] = s

\* The behaviors whose creation is taken back: one at most.
Undone == {b \in active : call.operation = "undo_behavior" /\ call.subject = b}

MembershipInv == Members(active, systems, behaviorSignatures, Undone, call.todo)

LEMMA LeastNumber ==
  ASSUME NEW S, S \subseteq Nat, S # {}
  PROVE  \E m \in S : \A k \in S : m <= k
<1>1. IsWellFoundedOn(OpToRel(<, Nat), Nat)
  BY NatLessThanWellFounded
<1>2. PICK m \in S : \A k \in S : ~(<<k, m>> \in OpToRel(<, Nat))
  BY <1>1, WFMin
<1>3. \A k \in S : ~(k < m)
  BY <1>2 DEF OpToRel
<1> QED BY <1>3

\* There is a first change as long as there is one.
LEMMA NextChangeIs ==
  ASSUME BehaviorInv, OrderInv, MembershipInv, call.todo # {}
  PROVE  NextChange \in call.todo
<1>1. \A c \in call.todo : c.behavior \in BehaviorIds /\ c.system \in DOMAIN systems
  BY DEF BehaviorInv, Pool, MembershipInv, Members
<1>2. \A c \in call.todo : c.behavior.slot \in Nat
  BY <1>1 DEF BehaviorIds
<1>3. \A c \in call.todo : Place(c.system) \in Nat
  <2> TAKE c \in call.todo
  <2>1. \E i \in DOMAIN registrationOrder : registrationOrder[i] = c.system
    BY <1>1 DEF OrderInv
  <2>2. Place(c.system) \in DOMAIN registrationOrder
    BY <2>1 DEF Place
  <2>3. DOMAIN registrationOrder \subseteq Nat
    BY DEF OrderInv
  <2> QED BY <2>2, <2>3
<1> DEFINE Slots == {c.behavior.slot : c \in call.todo}
<1>4. Slots \subseteq Nat /\ Slots # {}
  BY <1>2
<1>5. PICK k \in Slots : \A x \in Slots : k <= x
  <2> HIDE DEF Slots
  <2> QED BY <1>4, LeastNumber
<1> DEFINE First == {c \in call.todo : c.behavior.slot = k}
           Places == {Place(c.system) : c \in First}
<1>6. Places \subseteq Nat /\ Places # {}
  BY <1>3
<1>7. PICK p \in Places : \A x \in Places : p <= x
  <2> HIDE DEF Places
  <2> QED BY <1>6, LeastNumber
<1>8. PICK c \in call.todo : c.behavior.slot = k /\ Place(c.system) = p
  OBVIOUS
<1>9. ASSUME NEW d \in call.todo
      PROVE  Precedes(c, d)
  <2>1. k <= d.behavior.slot /\ k \in Nat /\ d.behavior.slot \in Nat
    BY <1>2, <1>4, <1>5
  <2>2. d.behavior.slot = k => p <= Place(d.system)
    BY <1>7
  <2> QED BY <1>8, <2>1, <2>2 DEF Precedes
<1>10. \E x \in call.todo : \A d \in call.todo : Precedes(x, d)
  BY <1>9
<1> QED BY <1>10 DEF NextChange

LEMMA OrderStep ==
  ASSUME CallInv, OrderInv, SystemsRecorded, [Next]_vars
  PROVE  OrderInv'
<1>1. CASE Registering
  <2>1. PICK s \in Systems, signature \in SUBSET Types : RegisterSystem(s, signature)
    BY <1>1 DEF Registering
  <2>2. /\ registrationOrder' = Append(registrationOrder, s)
        /\ DOMAIN systems' = DOMAIN systems \cup {s}
    BY <2>1 DEF RegisterSystem, With
  <2>3. /\ registrationOrder \in Seq(Systems)
        /\ DOMAIN registrationOrder = 1..Len(registrationOrder) /\ Len(registrationOrder) \in Nat
    BY DEF OrderInv
  <2> DEFINE n == Len(registrationOrder)
  <2>4. /\ registrationOrder' \in Seq(Systems)
        /\ DOMAIN registrationOrder' = 1..(n + 1)
        /\ \A i \in 1..n : registrationOrder'[i] = registrationOrder[i]
        /\ registrationOrder'[n + 1] = s
    BY <2>2, <2>3, AppendItems
  <2>5. n + 1 \in DOMAIN registrationOrder'
        /\ \A i \in DOMAIN registrationOrder : i \in DOMAIN registrationOrder'
                                               /\ registrationOrder'[i] = registrationOrder[i]
    BY <2>3, <2>4
  <2> HIDE DEF n
  <2> QED BY <2>2, <2>4, <2>5 DEF OrderInv
<1>2. ASSUME NEW s \in DOMAIN systems, WithoutSystem(s)
      PROVE  OrderInv'
  <2> DEFINE p == Place(s)
  <2>1. p \in DOMAIN registrationOrder /\ registrationOrder[p] = s
    BY DEF OrderInv, Place
  <2>2. /\ registrationOrder' = RemoveAt(registrationOrder, p)
        /\ DOMAIN systems' = DOMAIN systems \ {s}
    BY <1>2 DEF WithoutSystem, Restrict
  <2> HIDE DEF p
  <2>3. registrationOrder \in Seq(Systems)
    BY DEF OrderInv
  <2>4. /\ RemoveAt(registrationOrder, p) \in Seq(Systems)
        /\ \A j \in DOMAIN registrationOrder : j # p =>
             \E i \in DOMAIN RemoveAt(registrationOrder, p) :
               RemoveAt(registrationOrder, p)[i] = registrationOrder[j]
    BY <2>1, <2>3, WithoutItem
  <2> QED BY <2>1, <2>2, <2>4 DEF OrderInv
<1>3. CASE UNCHANGED systems /\ UNCHANGED registrationOrder
  BY <1>3 DEF OrderInv
<1>4. CASE SystemRegistered
  <2>1. call.subject \in DOMAIN systems
    BY <1>4 DEF SystemRegistered, Finishing, SystemsRecorded
  <2>2. WithoutSystem(call.subject) \/ UNCHANGED systemVars
    BY <1>4, Zenon DEF SystemRegistered
  <2> QED BY <1>2, <1>3, <2>1, <2>2 DEF systemVars
<1>5. CASE DestroyingSystem
  BY <1>2, <1>5 DEF DestroyingSystem, DestroySystem
<1>6. CASE ~Registering /\ ~SystemRegistered /\ ~DestroyingSystem
  <2>1. DOMAIN systems' = DOMAIN systems /\ registrationOrder' = registrationOrder
    BY <1>6, SystemNames, Frames DEF Frame
  <2> QED BY <2>1 DEF OrderInv
<1> QED BY <1>1, <1>4, <1>5, <1>6

LEMMA SingleUpdate ==
  ASSUME NEW b, NEW signatures, NEW records
  PROVE  UpdatesOf({b}, signatures, records) = Updates(b, signatures[b], records)
BY DEF UpdatesOf

\* Between operations there is nothing to make up for.
LEMMA IdleMembers ==
  ASSUME SignatureInv, MembershipInv, call = Idle
  PROVE  /\ Members(active, systems, behaviorSignatures, {}, {})
         /\ DOMAIN behaviorSignatures \subseteq active
         /\ \A s \in DOMAIN systems : systems[s].behaviours \subseteq DOMAIN behaviorSignatures
<1>1. call.todo = {} /\ Undone = {}
  BY DEF Undone, Idle
<1>2. DOMAIN behaviorSignatures \subseteq active
  BY DEF SignatureInv
<1>3. Members(active, systems, behaviorSignatures, {}, {})
  BY <1>1 DEF MembershipInv
<1>4. \A s \in DOMAIN systems : systems[s].behaviours \subseteq DOMAIN behaviorSignatures
  BY <1>3 DEF Members
<1> QED BY <1>2, <1>3, <1>4

\* The operations that begin, for their first step.
LEMMA MembershipBegins ==
  ASSUME AccessesInv, SignatureInv, MembershipInv, Shaped(systems), AccessInv',
         CreateBehavior \/ Destroying \/ Granting \/ Removing \/ Revoking
  PROVE  MembershipInv' /\ Shaped(systems)'
<1>1. BehaviorInv /\ IssuedShape /\ CallInv
  BY DEF AccessesInv
<1>2. Turn
  BY <1>1, Turns
<1>3. call = Idle
  BY <1>2 DEF Turn, Opens
<1>4. /\ Members(active, systems, behaviorSignatures, {}, {})
      /\ DOMAIN behaviorSignatures \subseteq active
  BY <1>3, IdleMembers
<1>5. systems' = systems
  <2>1. CreateBehavior => systems' = systems
    BY DEF CreateBehavior, systemVars
  <2>2. Destroying => systems' = systems
    BY Destroys DEF Destroying, systemVars
  <2>3. Granting => systems' = systems
    BY Grants DEF Granting, systemVars
  <2>4. Removing => systems' = systems
    BY DEF Removing, RemoveComponent, systemVars
  <2>5. Revoking => systems' = systems
    BY Revokes DEF Revoking, systemVars
  <2> QED BY <2>1, <2>2, <2>3, <2>4, <2>5
<1>6. Shaped(systems)'
  BY <1>5 DEF Shaped
<1>7. Undone' = {}
  <2>1. call'.operation # "undo_behavior"
    BY <1>2 DEF Turn, Opens, Idle
  <2> QED BY <2>1 DEF Undone
<1>8. SUFFICES Members(active', systems, behaviorSignatures', {}, call'.todo)
  BY <1>5, <1>6, <1>7 DEF MembershipInv
<1>9. CASE CreateBehavior
  <2>1. CASE availableSlots = <<>>
    <3>1. active' = active /\ behaviorSignatures' = behaviorSignatures /\ call' = call
      BY <1>9, <2>1 DEF CreateBehavior, behaviorVars
    <3>2. call'.todo = {}
      BY <1>3, <3>1 DEF Idle
    <3> QED BY <1>4, <3>1, <3>2
  <2>2. CASE availableSlots # <<>>
    <3> DEFINE b == [slot |-> Last(availableSlots),
                     generation |-> generations[Last(availableSlots)]]
    <3>1. /\ behaviorSignatures' = With(behaviorSignatures, b, {})
          /\ call'.todo = Updates(b, {}, systems)
      BY <1>9, <2>2 DEF CreateBehavior, Began
    <3> HIDE DEF b
    <3>2. b \notin active /\ active' = active \cup {b}
      BY <1>1, <1>9, <2>2, Created DEF b
    <3> DEFINE next == behaviorSignatures'
    <3>3. /\ DOMAIN next = DOMAIN behaviorSignatures \cup {b} /\ next[b] = {}
          /\ \A x \in DOMAIN behaviorSignatures \ {b} : next[x] = behaviorSignatures[x]
      BY <1>4, <3>1, <3>2 DEF With
    <3> HIDE DEF next
    <3>5. Members(active \cup {b}, systems, next, {}, UpdatesOf({b}, next, systems))
      <4> DEFINE more == active \cup {b}
                 changed == {b}
      <4>1. /\ active \subseteq more /\ DOMAIN next \subseteq more
            /\ changed \subseteq DOMAIN next
            /\ \A x \in more \ changed :
                 /\ x \in active /\ (x \in DOMAIN next <=> x \in DOMAIN behaviorSignatures)
                 /\ x \in DOMAIN next => next[x] = behaviorSignatures[x]
        BY <1>4, <3>3
      <4> HIDE DEF more, changed
      <4>2. Members(more, systems, next, {}, UpdatesOf(changed, next, systems))
        BY <1>4, <4>1, MembersUpdate
      <4> QED BY <4>2 DEF more, changed
    <3>6. UpdatesOf({b}, next, systems) = Updates(b, {}, systems)
      BY <3>3, SingleUpdate
    <3> QED BY <3>1, <3>2, <3>5, <3>6 DEF next
  <2> QED BY <2>1, <2>2
<1>10. CASE Destroying
  <2>1. PICK b \in active : DestroyBehavior(b)
    BY <1>10 DEF Destroying
  <2> DEFINE next == behaviorSignatures'
             todo == call'.todo
  <2>2. /\ next = Restrict(behaviorSignatures, DOMAIN behaviorSignatures \ {b})
        /\ todo = {[behavior |-> b, system |-> s] :
                     s \in {x \in DOMAIN systems : b \in systems[x].behaviours}}
        /\ active' = active
    BY <2>1 DEF DestroyBehavior, Began, Removals, Member, behaviorVars
  <2>3. /\ b \notin DOMAIN next
        /\ \A x \in active \ {b} :
             /\ x \notin {}
             /\ x \in DOMAIN next <=> x \in DOMAIN behaviorSignatures
             /\ x \in DOMAIN next => next[x] = behaviorSignatures[x]
    BY <2>2 DEF Restrict
  <2> HIDE DEF next, todo
  <2>4. Members(active, systems, next, {}, todo)
    BY <1>4, <2>2, <2>3, MembersLeave
  <2> QED BY <2>2, <2>4 DEF next, todo
<1>11. CASE Granting
  <2>1. PICK t \in Types, n \in Names, b \in active, mode \in Modes :
          GrantComponentAccess(b, t, n, mode)
    BY <1>11 DEF Granting
  <2> DEFINE next == behaviorSignatures'
  <2>2. /\ next = [behaviorSignatures EXCEPT ![b] = @ \cup {t}]
        /\ call'.todo = Updates(b, behaviorSignatures[b] \cup {t}, systems)
    BY <2>1 DEF GrantComponentAccess, Began
  <2>3. active' = active
    BY <2>1, Grants DEF behaviorVars
  <2>7. b \in DOMAIN behaviorSignatures
    BY <2>1, Grants DEF SignatureInv
  <2>4. /\ DOMAIN next = DOMAIN behaviorSignatures
        /\ next[b] = behaviorSignatures[b] \cup {t}
        /\ \A x \in DOMAIN behaviorSignatures \ {b} : next[x] = behaviorSignatures[x]
    BY <2>2, <2>7
  <2> HIDE DEF next
  <2>5. Members(active, systems, next, {}, UpdatesOf({b}, next, systems))
    <3> DEFINE changed == {b}
    <3> HIDE DEF changed
    <3>1. changed \subseteq DOMAIN next /\ active \subseteq active
      BY <2>4, <2>7 DEF changed
    <3>2. \A x \in active \ changed :
            /\ x \in active /\ (x \in DOMAIN next <=> x \in DOMAIN behaviorSignatures)
            /\ x \in DOMAIN next => next[x] = behaviorSignatures[x]
      BY <2>4 DEF changed
    <3>3. DOMAIN next \subseteq active
      BY <1>4, <2>4
    <3>4. Members(active, systems, next, {}, UpdatesOf(changed, next, systems))
      BY <1>4, <3>1, <3>2, <3>3, MembersUpdate
    <3> QED BY <3>4 DEF changed
  <2>6. UpdatesOf({b}, next, systems) = call'.todo
    <3>1. UpdatesOf({b}, next, systems) = Updates(b, next[b], systems)
      BY SingleUpdate
    <3>2. next[b] = behaviorSignatures[b] \cup {t}
      BY <2>4
    <3>3. call'.todo = Updates(b, behaviorSignatures[b] \cup {t}, systems)
      BY <2>2
    <3> QED BY <3>1, <3>2, <3>3
  <2> QED BY <2>3, <2>5, <2>6 DEF next
<1>12. CASE Removing \/ Revoking
  <2>1. active' = active
    <3>1. CASE Removing
      BY <3>1 DEF Removing, RemoveComponent, behaviorVars
    <3>2. CASE Revoking
      BY <3>2, Revokes DEF Revoking, behaviorVars
    <3> QED BY <1>12, <3>1, <3>2
  <2> DEFINE next == behaviorSignatures'
  <2>2. PICK forgetting :
          /\ forgetting \subseteq active
          /\ call'.todo = UpdatesOf(forgetting, next, systems)
          /\ Follow(next, forgetting, accesses')
    <3>1. CASE Removing
      <4>1. PICK t \in Types, n \in Names : RemoveComponent(t, n)
        BY <3>1 DEF Removing
      <4> QED BY <4>1, RemovedSignatures DEF Began
    <3>2. CASE Revoking
      <4>1. PICK t \in Types, n \in Names, b \in active : RevokeComponentAccess(b, t, n)
        BY <3>2 DEF Revoking
      <4> QED BY <4>1, RevokedSignatures DEF Began
    <3> QED BY <1>12, <3>1, <3>2
  <2> HIDE DEF next
  <2>3. /\ DOMAIN next \subseteq active /\ forgetting \subseteq DOMAIN next
        /\ active \subseteq active
        /\ \A b \in active \ forgetting :
             /\ b \in active /\ (b \in DOMAIN next <=> b \in DOMAIN behaviorSignatures)
             /\ b \in DOMAIN next => next[b] = behaviorSignatures[b]
    BY <1>4, <2>2 DEF Follow
  <2>4. Members(active, systems, next, {}, UpdatesOf(forgetting, next, systems))
    BY <1>4, <2>2, <2>3, MembersUpdate
  <2> QED BY <2>1, <2>2, <2>4 DEF next
<1> QED BY <1>9, <1>10, <1>11, <1>12

\* The operations on systems.
LEMMA MembershipOfSystems ==
  ASSUME CallInv, SignatureInv, MembershipInv, Shaped(systems),
         Registering \/ Resigning \/ DestroyingSystem
  PROVE  MembershipInv' /\ Shaped(systems)'
<1>1. Turn
  BY Turns
<1>2. call = Idle
  BY <1>1 DEF Turn, Opens
<1>3. /\ Members(active, systems, behaviorSignatures, {}, {})
      /\ DOMAIN behaviorSignatures \subseteq active
      /\ \A s \in DOMAIN systems : systems[s].behaviours \subseteq DOMAIN behaviorSignatures
  BY <1>2, IdleMembers
<1>4. active' = active /\ behaviorSignatures' = behaviorSignatures
  <2>1. CASE Registering \/ Resigning
    BY <2>1, Zenon DEF Registering, RegisterSystem, Resigning, SetSystemSignature, behaviorVars,
       signatureVars
  <2>2. CASE DestroyingSystem
    BY <2>2, Zenon DEF DestroyingSystem, DestroySystem, behaviorVars, signatureVars
  <2> QED BY <2>1, <2>2
<1> DEFINE everybody == DOMAIN behaviorSignatures
<1>5. Undone' = {}
  <2>1. call'.operation # "undo_behavior"
    BY <1>1 DEF Turn, Opens, Idle
  <2> QED BY <2>1 DEF Undone
<1> DEFINE next == systems'
<1>6. SUFFICES Members(active, next, behaviorSignatures, {}, call'.todo) /\ Shaped(next)
  <2>1. Shaped(systems)' <=> Shaped(next)
    BY DEF Shaped
  <2> QED BY <1>4, <1>5, <2>1 DEF MembershipInv
<1>7. CASE Registering
  <2>1. PICK s \in Systems, signature \in SUBSET Types : RegisterSystem(s, signature)
    BY <1>7 DEF Registering
  <2> DEFINE new == [signature |-> signature, behaviours |-> {}]
  <2>2. /\ next = With(systems, s, new)
        /\ call'.todo = UpdatesOf(everybody, behaviorSignatures, next)
    BY <2>1 DEF RegisterSystem, Began, AllBehaviors
  <2>3. /\ DOMAIN next = DOMAIN systems \cup {s} /\ next[s] = new
        /\ \A x \in DOMAIN systems \ {s} : next[x] = systems[x]
    BY <2>2 DEF With
  <2> HIDE DEF next
  <2>4. Shaped(next)
    BY <2>3 DEF Shaped
  <2>5. \A x \in DOMAIN next : next[x].behaviours \subseteq DOMAIN behaviorSignatures
    BY <1>3, <2>3
  <2> HIDE DEF new
  <2>6. Members(active, next, behaviorSignatures, {},
                UpdatesOf(everybody, behaviorSignatures, next))
    BY <1>3, <2>5, MembersAll
  <2> QED BY <2>2, <2>4, <2>6
<1>8. CASE Resigning
  <2>1. PICK s \in Systems, signature \in SUBSET Types : SetSystemSignature(s, signature)
    BY <1>8 DEF Resigning
  <2> DEFINE new == [systems[s] EXCEPT !.signature = signature]
  <2>2. /\ next = [systems EXCEPT ![s] = new] /\ s \in DOMAIN systems
        /\ call'.todo = UpdatesOf(everybody, behaviorSignatures, next)
    BY <2>1 DEF SetSystemSignature, Began, AllBehaviors
  <2>3. new = [signature |-> signature, behaviours |-> systems[s].behaviours]
    BY <2>2 DEF Shaped
  <2> HIDE DEF new, next
  <2>4. /\ DOMAIN next = DOMAIN systems /\ next[s] = new
        /\ \A x \in DOMAIN systems \ {s} : next[x] = systems[x]
    BY <2>2
  <2>5. Shaped(next)
    BY <2>3, <2>4 DEF Shaped
  <2>6. \A x \in DOMAIN next : next[x].behaviours \subseteq DOMAIN behaviorSignatures
    BY <1>3, <2>2, <2>3, <2>4
  <2>7. Members(active, next, behaviorSignatures, {},
                UpdatesOf(everybody, behaviorSignatures, next))
    BY <1>3, <2>6, MembersAll
  <2> QED BY <2>2, <2>5, <2>7
<1>9. CASE DestroyingSystem
  <2>1. PICK s \in Systems : DestroySystem(s)
    BY <1>9 DEF DestroyingSystem
  <2>2. next = Restrict(systems, DOMAIN systems \ {s})
    BY <2>1 DEF DestroySystem, WithoutSystem
  <2>3. call'.todo = {}
    BY <1>1, <1>9 DEF Turn, Idle
  <2> HIDE DEF next
  <2> QED BY <1>3, <2>2, <2>3, MembersWithout
<1> QED BY <1>7, <1>8, <1>9

\* The last steps of operations.
LEMMA MembershipEnds ==
  ASSUME CallInv, SubjectInv, SignatureInv, MembershipInv, Shaped(systems),
         \/ BehaviorCreated \/ UndoBehavior \/ BehaviorUndone \/ BehaviorDestroyed
         \/ BehaviorNotDestroyed
         \/ ComponentRemoved \/ AccessDone \/ SystemRegistered \/ SystemSignatureSet \/ SystemsRun
  PROVE  MembershipInv' /\ Shaped(systems)'
<1>1. Turn
  BY Turns
<1>2. CASE BehaviorUndone \/ BehaviorDestroyed
  <2>1. call.todo = {} /\ call'.todo = {}
    BY <1>1, <1>2 DEF Turn, Closes, Idle
  <2> DEFINE b == call.subject
  <2>2. /\ active' = active \ {b} /\ b \in active /\ systems' = systems
        /\ call.operation \in {"undo_behavior", "destroy_behavior"} /\ call' = Idle
    BY <1>2, Ends DEF systemVars
  <2>3. behaviorSignatures' = Restrict(behaviorSignatures, DOMAIN behaviorSignatures \ {b})
    BY <1>2 DEF BehaviorUndone, BehaviorDestroyed, BehaviorGone
  <2>4. Undone \subseteq {b} /\ (b \notin DOMAIN behaviorSignatures \/ b \in Undone)
    BY <2>2 DEF Undone, SignatureInv, Dying
  <2>5. Undone' = {}
    BY <2>2 DEF Undone, Idle
  <2> HIDE DEF b
  <2>6. Members(active, systems, behaviorSignatures, Undone, {})
    BY <2>1 DEF MembershipInv
  <2>7. Members(active \ {b}, systems,
                Restrict(behaviorSignatures, DOMAIN behaviorSignatures \ {b}), {}, {})
    BY <2>2, <2>4, <2>6, MembersDrop
  <2>8. Shaped(systems)'
    BY <2>2 DEF Shaped
  <2> QED BY <2>1, <2>2, <2>3, <2>5, <2>7, <2>8 DEF MembershipInv
<1>3. CASE UndoBehavior
  <2> DEFINE b == call.subject
             todo == call'.todo
  <2>1. /\ call.operation = "create_behavior" /\ call.todo = {}
        /\ call'.operation = "undo_behavior" /\ call'.subject = b
    BY <1>1, <1>3 DEF Turn
  <2>2. /\ todo = {[behavior |-> b, system |-> s] :
                     s \in {x \in DOMAIN systems : b \in systems[x].behaviours}}
        /\ active' = active /\ systems' = systems /\ behaviorSignatures' = behaviorSignatures
    BY <1>3 DEF UndoBehavior, Began, Removals, Member, behaviorVars, systemVars, signatureVars
  <2>3. b \in active
    BY <2>1 DEF SubjectInv, BehaviorOperations
  <2> HIDE DEF b, todo
  <2>4. Undone = {} /\ Undone' = {b}
    BY <2>1, <2>2, <2>3 DEF Undone
  <2>5. Members(active, systems, behaviorSignatures, {}, {})
    BY <2>1, <2>4 DEF MembershipInv
  <2>6. Members(active, systems, behaviorSignatures, {b}, todo)
    <3>1. b \in {b} /\ \A x \in active \ {b} : x \notin {b}
      OBVIOUS
    <3> DEFINE doomed == {b}
    <3> HIDE DEF doomed
    <3>2. b \in doomed /\ \A x \in active \ {b} : x \notin doomed
      BY DEF doomed
    <3>3. Members(active, systems, behaviorSignatures, doomed, todo)
      BY <2>2, <2>3, <2>5, <3>2, MembersLeave
    <3> QED BY <3>3 DEF doomed
  <2>7. Shaped(systems)'
    BY <2>2 DEF Shaped
  <2> QED BY <2>2, <2>4, <2>6, <2>7 DEF MembershipInv, todo
<1>4. CASE \/ BehaviorCreated \/ BehaviorNotDestroyed \/ ComponentRemoved \/ AccessDone
           \/ SystemRegistered \/ SystemSignatureSet \/ SystemsRun
  <2>1. /\ call.todo = {} /\ call.operation # "undo_behavior"
        /\ call'.todo = {} /\ call'.operation # "undo_behavior"
    BY <1>1, <1>4 DEF Turn, Closes, Idle
  <2>2. Undone = {} /\ Undone' = {}
    BY <2>1 DEF Undone
  <2>3. active' = active /\ behaviorSignatures' = behaviorSignatures
    <3>1. CASE BehaviorNotDestroyed
      BY <3>1, Keeps DEF behaviorVars
    <3>2. CASE BehaviorCreated \/ ComponentRemoved \/ AccessDone
      BY <3>2, Zenon DEF BehaviorCreated, ComponentRemoved, AccessDone, behaviorVars, signatureVars
    <3>3. CASE SystemRegistered \/ SystemSignatureSet \/ SystemsRun
      BY <3>3, Zenon DEF SystemRegistered, SystemSignatureSet, SystemsRun, behaviorVars,
         signatureVars
    <3> QED BY <1>4, <3>1, <3>2, <3>3
  <2>4. Members(active, systems, behaviorSignatures, {}, {})
    BY <2>1, <2>2 DEF MembershipInv
  <2>5. \/ systems' = systems
        \/ systems' = Restrict(systems, DOMAIN systems \ {call.subject})
    <3>1. CASE BehaviorNotDestroyed
      BY <3>1, Keeps DEF systemVars
    <3>2. CASE BehaviorCreated \/ ComponentRemoved \/ AccessDone
      BY <3>2, Zenon DEF BehaviorCreated, ComponentRemoved, AccessDone, systemVars
    <3>3. CASE SystemRegistered \/ SystemSignatureSet \/ SystemsRun
      BY <3>3, Zenon DEF SystemRegistered, SystemSignatureSet, SystemsRun, systemVars,
         WithoutSystem
    <3> QED BY <1>4, <3>1, <3>2, <3>3
  <2> DEFINE next == systems'
  <2> HIDE DEF next
  <2>6. Members(active, next, behaviorSignatures, {}, {}) /\ Shaped(next)
    <3>1. /\ Members(active, Restrict(systems, DOMAIN systems \ {call.subject}),
                      behaviorSignatures, {}, {})
          /\ Shaped(Restrict(systems, DOMAIN systems \ {call.subject}))
      BY <2>4, MembersWithout
    <3>2. CASE systems' = systems
      BY <2>4, <3>2 DEF next
    <3>3. CASE systems' = Restrict(systems, DOMAIN systems \ {call.subject})
      BY <3>1, <3>3 DEF next
    <3> QED BY <2>5, <3>2, <3>3
  <2>7. Shaped(systems)'
    BY <2>6 DEF Shaped, next
  <2> QED BY <2>1, <2>2, <2>3, <2>6, <2>7 DEF MembershipInv, next
<1> QED BY <1>2, <1>3, <1>4

LEMMA MembershipStep ==
  ASSUME AccessesInv, AccessInv', SignatureInv, OrderInv, MembershipInv, Shaped(systems),
         [Next]_vars
  PROVE  MembershipInv' /\ Shaped(systems)'
<1>1. BehaviorInv /\ SubjectInv /\ CallInv
  BY DEF AccessesInv
<1>2. ASSUME active' = active, systems' = systems, behaviorSignatures' = behaviorSignatures,
             Undone' = Undone, call'.todo = call.todo
      PROVE  MembershipInv' /\ Shaped(systems)'
  BY <1>2 DEF MembershipInv, Shaped
<1>3. CASE ChangeMembership
  <2> DEFINE c == NextChange
             next == systems'
  <2>1. c \in call.todo
    BY <1>1, <1>3, NextChangeIs DEF ChangeMembership
  <2>2. next = [systems EXCEPT ![c.system].behaviours =
                  IF c.behavior \in @ THEN @ \ {c.behavior} ELSE @ \cup {c.behavior}]
    BY <1>3 DEF ChangeMembership
  <2>3. active' = active /\ behaviorSignatures' = behaviorSignatures
    BY <1>3 DEF ChangeMembership, behaviorVars, signatureVars
  <2>4. call'.operation = call.operation /\ call'.subject = call.subject /\ call # Idle
    BY <1>1, <1>3, CallGoesOn
  <2>5. call'.todo = call.todo \ {c}
    <3> DEFINE rest == call.todo \ {c}
    <3>1. call' = [call EXCEPT !.todo = rest, !.inCallback = TRUE]
      BY <1>3 DEF ChangeMembership
    <3> HIDE DEF rest
    <3>2. call = [operation |-> call.operation, subject |-> call.subject, todo |-> call.todo,
                  inCallback |-> call.inCallback, threw |-> call.threw]
      BY <1>1, <2>4 DEF CallInv
    <3>3. call'.todo = rest
      BY <3>1, <3>2
    <3> QED BY <3>3 DEF rest
  <2>6. Undone' = Undone
    BY <2>3, <2>4 DEF Undone
  <2>7. Members(active, systems, behaviorSignatures, Undone, call.todo)
    BY DEF MembershipInv
  <2> HIDE DEF c, next
  <2>8. Members(active, next, behaviorSignatures, Undone, call.todo \ {c}) /\ Shaped(next)
    BY <2>1, <2>2, <2>7, MembersChange
  <2>9. Shaped(systems)'
    BY <2>8 DEF Shaped, next
  <2> QED BY <2>3, <2>5, <2>6, <2>8, <2>9 DEF MembershipInv, next
<1>4. CASE CallingBack
  <2>1. /\ active' = active /\ systems' = systems /\ behaviorSignatures' = behaviorSignatures
    BY <1>4 DEF CallingBack, CallbackEnds, behaviorVars, systemVars, signatureVars
  <2>2. call'.operation = call.operation /\ call'.subject = call.subject /\ call # Idle
    BY <1>1, <1>4, CallGoesOn DEF CallingBack
  <2>3. Undone' = Undone
    BY <2>1, <2>2 DEF Undone
  <2>4. PICK throws \in BOOLEAN : CallbackEnds(throws)
    BY <1>4 DEF CallingBack
  <2> DEFINE thrown == call.threw \/ throws
  <2>5. call' = [call EXCEPT !.inCallback = FALSE, !.threw = thrown]
    BY <2>4 DEF CallbackEnds
  <2> HIDE DEF thrown
  <2>6. call = [operation |-> call.operation, subject |-> call.subject, todo |-> call.todo,
                inCallback |-> call.inCallback, threw |-> call.threw]
    BY <1>1, <2>2 DEF CallInv
  <2>7. call'.todo = call.todo
    BY <2>5, <2>6
  <2> QED BY <1>2, <2>1, <2>3, <2>7
<1>5. CASE \/ Intending \/ Dropping \/ UNCHANGED vars \/ Adding
           \/ NotRemoving \/ Lowering \/ NotRevoking
  <2>1. /\ active' = active /\ systems' = systems /\ behaviorSignatures' = behaviorSignatures
        /\ call' = call
    <3>1. CASE Intending \/ Dropping \/ UNCHANGED vars
      BY <3>1 DEF Intending, CreateIntent, Dropping, DestroyIntent, vars, behaviorVars,
         systemVars, signatureVars
    <3>2. CASE Adding
      BY <3>2, Zenon DEF Adding, AddComponent, behaviorVars, systemVars, signatureVars
    <3>3. CASE NotRemoving \/ NotRevoking
      <4>1. call = Idle
        BY <3>3, Zenon DEF NotRemoving, ComponentNotRemoved, NotRevoking, AccessNotRevoked,
           StructureMayChange
      <4> QED BY <3>3, <4>1, Keeps DEF behaviorVars, systemVars
    <3>4. CASE Lowering
      BY <3>4, Lowers DEF Lowering, behaviorVars, systemVars
    <3> QED BY <1>5, <3>1, <3>2, <3>3, <3>4
  <2>2. Undone' = Undone
    BY <2>1 DEF Undone
  <2> QED BY <1>2, <2>1, <2>2
<1>6. CASE RunSystems
  <2>1. /\ active' = active /\ systems' = systems /\ behaviorSignatures' = behaviorSignatures
        /\ call = Idle /\ call'.todo = {} /\ call'.operation = "run_systems"
    BY <1>6 DEF RunSystems, StructureMayChange, Began, behaviorVars, systemVars, signatureVars
  <2>2. Undone' = Undone /\ call'.todo = call.todo
    BY <2>1 DEF Undone, Idle
  <2> QED BY <1>2, <2>1, <2>2
<1>7. CASE CreateBehavior \/ Destroying \/ Granting \/ Removing \/ Revoking
  BY <1>7, MembershipBegins
<1>8. CASE Registering \/ Resigning \/ DestroyingSystem
  BY <1>1, <1>8, MembershipOfSystems
<1>9. CASE \/ BehaviorCreated \/ UndoBehavior \/ BehaviorUndone \/ BehaviorDestroyed
           \/ BehaviorNotDestroyed \/ ComponentRemoved \/ AccessDone \/ SystemRegistered \/ SystemSignatureSet
           \/ SystemsRun
  BY <1>1, <1>9, MembershipEnds
<1> QED
  BY NextCases, <1>3, <1>4, <1>5, <1>6, <1>7, <1>8, <1>9, Zenon

StructureInv == SignatureInv /\ OrderInv /\ MembershipInv /\ Shaped(systems)

LEMMA StructureInvariant ==
  Spec => []StructureInv
<1>1. ASSUME Init
      PROVE  StructureInv
  <2>1. /\ active = {} /\ systems = <<>> /\ behaviorSignatures = <<>> /\ call = Idle
        /\ registrationOrder = <<>> /\ behaviorAccessRevisions = <<>> /\ accesses = {}
    BY <1>1 DEF Init
  <2>2. /\ DOMAIN systems = {} /\ DOMAIN behaviorSignatures = {} /\ call.todo = {}
        /\ DOMAIN behaviorAccessRevisions = {}
    BY <2>1 DEF Idle
  <2>3. SignatureInv /\ Shaped(systems)
    BY <2>1, <2>2 DEF SignatureInv, Shaped, Dying, Idle
  <2>4. OrderInv
    BY <2>1, <2>2 DEF OrderInv
  <2>5. MembershipInv
    BY <2>1, <2>2 DEF MembershipInv, Members
  <2> QED BY <2>3, <2>4, <2>5 DEF StructureInv
<1>2. /\ AccessesInv /\ AccessesInv' /\ RecordInv /\ StructureInv /\ [Next]_vars
      => StructureInv'
  <2> SUFFICES ASSUME AccessesInv, AccessesInv', RecordInv, StructureInv, [Next]_vars
               PROVE  StructureInv'
    OBVIOUS
  <2>1. AccessInv' /\ CallInv /\ SystemsRecorded
    BY DEF AccessesInv, RecordInv
  <2>2. SignatureInv /\ OrderInv /\ MembershipInv /\ Shaped(systems)
    BY DEF StructureInv
  <2>3. SignatureInv' /\ OrderInv'
    BY <2>1, <2>2, SignatureStep, OrderStep
  <2>4. MembershipInv' /\ Shaped(systems)'
    BY <2>1, <2>2, MembershipStep
  <2> QED BY <2>3, <2>4 DEF StructureInv
<1> QED BY <1>1, <1>2, AccessesInvariant, RecordInvariant, PTL DEF Spec

\* Whichever callbacks threw on the way, between operations a signature names
\* exactly the types its behavior can reach a component of, and a behavior is
\* a member of exactly the systems whose signature its own covers. Who has no
\* signature is a behavior whose destruction failed, without any access.
THEOREM MembershipAlwaysFollows ==
  Spec => []MembershipFollowsAccess
<1>1. AccessesInv /\ StructureInv => MembershipFollowsAccess
  <2> SUFFICES ASSUME AccessesInv, StructureInv, call = Idle
               PROVE  MembershipFollowsAccess
    BY DEF MembershipFollowsAccess
  <2>1. ComponentInv /\ AccessInv /\ SignatureInv /\ MembershipInv
    BY DEF AccessesInv, StructureInv
  <2>2. /\ Members(active, systems, behaviorSignatures, {}, {})
        /\ DOMAIN behaviorSignatures \subseteq active
        /\ active \ DOMAIN behaviorSignatures \subseteq stranded.behaviors
    <3>1. active \ DOMAIN behaviorSignatures \subseteq stranded.behaviors
      BY <2>1 DEF SignatureInv, Dying, Idle
    <3> QED BY <2>1, <3>1, IdleMembers
  <2>3. ASSUME NEW a \in accesses
        PROVE  a.behavior \in DOMAIN behaviorSignatures /\ SlotIsCurrent(a.type, a.slot)
    <3>1. /\ a.type \in Types /\ a.slot \in Range(componentNames[a.type])
          /\ a.behavior \in DOMAIN behaviorSignatures
      BY <2>1 DEF AccessInv, SignatureInv
    <3>2. SlotIsCurrent(a.type, a.slot)
      BY <2>1, <3>1, NamedIsCurrent DEF SlotIsCurrent, ComponentInv
    <3> QED BY <3>1, <3>2
  <2>4. ASSUME NEW b \in DOMAIN behaviorSignatures
        PROVE  behaviorSignatures[b] =
                 {t \in Types : \E n \in DOMAIN componentNames[t] :
                                  AccessOf(b, t, componentNames[t][n]) # {}}
    <3>1. behaviorSignatures[b] = Reach(b, accesses)
      BY <2>1, <2>2 DEF SignatureInv
    <3>2. ASSUME NEW t \in Types
          PROVE  t \in Reach(b, accesses) <=>
                   \E n \in DOMAIN componentNames[t] : AccessOf(b, t, componentNames[t][n]) # {}
      <4>1. ASSUME t \in Reach(b, accesses)
            PROVE  \E n \in DOMAIN componentNames[t] : AccessOf(b, t, componentNames[t][n]) # {}
        <5>1. PICK a \in accesses : a.behavior = b /\ a.type = t
          BY <4>1 DEF Reach
        <5>2. PICK n \in DOMAIN componentNames[t] : componentNames[t][n] = a.slot
          BY <2>1, <5>1 DEF AccessInv, Range
        <5>3. a.mode \in AccessOf(b, t, componentNames[t][n])
          BY <5>1, <5>2 DEF AccessOf
        <5> QED BY <5>3
      <4>2. ASSUME NEW n \in DOMAIN componentNames[t], AccessOf(b, t, componentNames[t][n]) # {}
            PROVE  t \in Reach(b, accesses)
        BY <4>2 DEF Reach, AccessOf
      <4> QED BY <4>1, <4>2
    <3>3. Reach(b, accesses) \subseteq Types
      BY <2>1 DEF Reach, AccessInv
    <3> QED BY <3>1, <3>2, <3>3
  <2>5. ASSUME NEW s \in DOMAIN systems
        PROVE  systems[s].behaviours =
                 {b \in DOMAIN behaviorSignatures :
                    systems[s].signature \subseteq behaviorSignatures[b]}
    BY <2>2 DEF Members
  <2> QED BY <2>2, <2>3, <2>4, <2>5 DEF MembershipFollowsAccess
<1> QED BY <1>1, AccessesInvariant, StructureInvariant, PTL
=============================================================================
