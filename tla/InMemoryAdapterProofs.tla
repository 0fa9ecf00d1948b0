------------------------ MODULE InMemoryAdapterProofs ------------------------
(***************************************************************************)
(* The simulated device answers for every change: each revision it went    *)
(* through has evidence that is pending, in the channel, received or lost  *)
(* with a closed channel, all evidence of a revision agrees, and with      *)
(* native idempotency no command changes the device twice.                 *)
(***************************************************************************)
EXTENDS InMemoryAdapter, TLAPS, FiniteSetTheorems, SequenceTheorems

-----------------------------------------------------------------------------
(* Queues *)

\* The queue with the item count times after position k.
Spliced(queue, k, item, count) ==
  SubSeq(queue, 1, k) \o [i \in 1..count |-> item] \o SubSeq(queue, k + 1, Len(queue))

\* What an emplacement at any position adds.
LEMMA SpliceProperties ==
  ASSUME NEW S, NEW queue \in Seq(S), NEW item \in S, NEW count \in Nat,
         NEW k \in Nat, k <= Len(queue)
  PROVE  /\ Spliced(queue, k, item, count) \in Seq(S)
         /\ Len(Spliced(queue, k, item, count)) = Len(queue) + count
         /\ (count > 0 => ToSet(Spliced(queue, k, item, count)) = ToSet(queue) \cup {item})
         /\ (count = 0 => ToSet(Spliced(queue, k, item, count)) = ToSet(queue))
<1> DEFINE spliced == Spliced(queue, k, item, count)
           a == SubSeq(queue, 1, k)
           b == [i \in 1..count |-> item]
           c == SubSeq(queue, k + 1, Len(queue))
<1>1. /\ a \in Seq(S) /\ Len(a) = k
      /\ \A i \in 1..k : a[i] = queue[i]
  BY SubSeqProperties
<1>2. b \in Seq(S) /\ Len(b) = count /\ \A i \in 1..count : b[i] = item
  OBVIOUS
<1>3. /\ c \in Seq(S) /\ Len(c) = Len(queue) - k
      /\ \A i \in 1..(Len(queue) - k) : c[i] = queue[k + i]
  BY SubSeqProperties
<1> HIDE DEF a, b, c
<1>4. /\ a \o b \in Seq(S) /\ Len(a \o b) = k + count
      /\ \A i \in 1..(k + count) : (a \o b)[i] = IF i <= k THEN a[i] ELSE b[i - k]
  BY <1>1, <1>2, ConcatProperties
<1> DEFINE ab == a \o b
<1>5. ab \in Seq(S) /\ Len(ab) = k + count
  BY <1>4
<1>6. /\ \A i \in 1..k : ab[i] = queue[i]
      /\ \A i \in 1..count : ab[k + i] = item
  BY <1>1, <1>2, <1>4
<1> HIDE DEF ab
<1>7. spliced = ab \o c
  BY DEF ab, a, b, c, Spliced
<1> HIDE DEF spliced
<1>8. /\ spliced \in Seq(S) /\ Len(spliced) = Len(queue) + count
      /\ \A i \in 1..(Len(queue) + count) :
           spliced[i] = IF i <= k + count THEN ab[i] ELSE c[i - (k + count)]
  <2>1. /\ spliced \in Seq(S) /\ Len(spliced) = Len(ab) + Len(c)
        /\ \A i \in 1..(Len(ab) + Len(c)) :
             spliced[i] = IF i <= Len(ab) THEN ab[i] ELSE c[i - Len(ab)]
    BY <1>3, <1>5, <1>7, ConcatProperties
  <2>2. Len(ab) = k + count /\ Len(ab) + Len(c) = Len(queue) + count
    BY <1>3, <1>5
  <2> QED BY <2>1, <2>2
<1>9. /\ \A i \in 1..k : spliced[i] = queue[i]
      /\ \A i \in 1..count : spliced[k + i] = item
      /\ \A i \in 1..(Len(queue) - k) : spliced[k + count + i] = queue[k + i]
  <2>1. ASSUME NEW i \in 1..k PROVE spliced[i] = queue[i]
    BY <1>6, <1>8
  <2>2. ASSUME NEW i \in 1..count PROVE spliced[k + i] = item
    <3> DEFINE j == k + i
    <3>1. j \in 1..(Len(queue) + count) /\ j <= k + count /\ ab[j] = item
      BY <1>6
    <3> HIDE DEF j
    <3>2. spliced[j] = item
      BY <3>1, <1>8
    <3> QED BY <3>2 DEF j
  <2>3. ASSUME NEW i \in 1..(Len(queue) - k) PROVE spliced[k + count + i] = queue[k + i]
    <3> DEFINE j == k + count + i
    <3>1. j \in 1..(Len(queue) + count) /\ ~(j <= k + count) /\ j - (k + count) = i
      OBVIOUS
    <3> HIDE DEF j
    <3>2. spliced[j] = queue[k + i]
      BY <3>1, <1>3, <1>8
    <3> QED BY <3>2 DEF j
  <2> QED BY <2>1, <2>2, <2>3
<1>10. ASSUME NEW x \in ToSet(spliced)
       PROVE  x \in ToSet(queue) \/ (count > 0 /\ x = item)
  <2>1. PICK i \in 1..(Len(queue) + count) : x = spliced[i]
    BY <1>8 DEF ToSet
  <2>2. CASE i \in 1..k
    BY <2>1, <2>2, <1>9 DEF ToSet
  <2>3. CASE i \in k+1..k+count
    <3> DEFINE j == i - k
    <3>1. j \in 1..count /\ i = k + j
      BY <2>3
    <3> HIDE DEF j
    <3>2. spliced[i] = item /\ count > 0
      BY <3>1, <1>9
    <3> QED BY <2>1, <3>2
  <2>4. CASE i \in k+count+1..Len(queue)+count
    <3> DEFINE j == i - (k + count)
    <3>1. j \in 1..(Len(queue) - k) /\ i = k + count + j /\ k + j \in 1..Len(queue)
      BY <2>4
    <3> HIDE DEF j
    <3>2. x = queue[k + j]
      BY <2>1, <3>1, <1>9
    <3> QED BY <3>1, <3>2 DEF ToSet
  <2> QED BY <2>1, <2>2, <2>3, <2>4
<1>11. ASSUME NEW x \in ToSet(queue)
       PROVE  x \in ToSet(spliced)
  <2>1. PICK i \in 1..Len(queue) : x = queue[i]
    BY DEF ToSet
  <2>2. CASE i <= k
    BY <2>1, <2>2, <1>8, <1>9 DEF ToSet
  <2>3. CASE i > k
    <3>1. /\ i - k \in 1..(Len(queue) - k) /\ k + (i - k) = i
          /\ k + count + (i - k) \in 1..(Len(queue) + count)
      BY <2>3
    <3> QED BY <2>1, <3>1, <1>8, <1>9 DEF ToSet
  <2> QED BY <2>1, <2>2, <2>3
<1>12. ASSUME count > 0
       PROVE  item \in ToSet(spliced)
  <2>1. 1 \in 1..count /\ k + 1 \in 1..(Len(queue) + count)
    BY <1>12
  <2> QED BY <2>1, <1>8, <1>9 DEF ToSet
<1>13. CASE count > 0
  <2>1. ToSet(spliced) = ToSet(queue) \cup {item}
    BY <1>10, <1>11, <1>12, <1>13
  <2> QED BY <1>8, <1>13, <2>1 DEF spliced
<1>14. CASE count = 0
  <2>0. ~(count > 0)
    BY <1>14
  <2>1. ToSet(spliced) = ToSet(queue)
    BY <1>10, <1>11, <2>0
  <2> QED BY <1>8, <1>14, <2>1 DEF spliced
<1> QED BY <1>13, <1>14

LEMMA IntervalFacts ==
  ASSUME NEW n \in Nat
  PROVE  IsFiniteSet(1..n) /\ Cardinality(1..n) = n
<1>1. 1 \in Int /\ n \in Int
  OBVIOUS
<1>2. IsFiniteSet(1..n) /\ Cardinality(1..n) = IF 1 > n THEN 0 ELSE n - 1 + 1
  BY <1>1, FS_Interval
<1> QED BY <1>2

\* A multimap keeps what it has and takes the item.
LEMMA EmplacedProperties ==
  ASSUME NEW S, NEW queue \in Seq(S), NEW item \in S, NEW count \in Nat
  PROVE  /\ Emplaced(queue, item, count) \in Seq(S)
         /\ (count > 0 => ToSet(Emplaced(queue, item, count)) = ToSet(queue) \cup {item})
         /\ (count = 0 => ToSet(Emplaced(queue, item, count)) = ToSet(queue))
<1> DEFINE early == {i \in DOMAIN queue : queue[i].due <= item.due}
<1>1. IsFiniteSet(1..Len(queue)) /\ Cardinality(1..Len(queue)) = Len(queue)
  BY IntervalFacts
<1>2. early \subseteq 1..Len(queue)
  OBVIOUS
<1>3. Cardinality(early) \in 0..Len(queue)
  BY <1>1, <1>2, FS_Subset, FS_CardinalityType
<1> HIDE DEF early
<1>4. Emplaced(queue, item, count) = Spliced(queue, Cardinality(early), item, count)
  BY DEF Emplaced, Spliced, early
<1> DEFINE k == Cardinality(early)
           spliced == Spliced(queue, k, item, count)
<1> HIDE DEF k
<1>5. k \in Nat /\ k <= Len(queue)
  BY <1>3 DEF k
<1>6. /\ spliced \in Seq(S)
      /\ (count > 0 => ToSet(spliced) = ToSet(queue) \cup {item})
      /\ (count = 0 => ToSet(spliced) = ToSet(queue))
  <2>1. spliced \in Seq(S)
    BY <1>5, SpliceProperties
  <2>2. (count > 0 => ToSet(spliced) = ToSet(queue) \cup {item})
    BY <1>5, SpliceProperties
  <2>3. (count = 0 => ToSet(spliced) = ToSet(queue))
    BY <1>5, SpliceProperties
  <2> QED BY <2>1, <2>2, <2>3
<1>7. Emplaced(queue, item, count) = spliced
  BY <1>4 DEF k
<1> HIDE DEF spliced
<1> QED BY <1>6, <1>7

\* The items that are due are some of the queue.
LEMMA DueItemsType ==
  ASSUME NEW S, NEW queue \in Seq(S), NEW through
  PROVE  DueItems(queue, through) \in 0..Len(queue)
<1> DEFINE due == {i \in DOMAIN queue : Due(queue[i], through)}
<1>1. IsFiniteSet(1..Len(queue)) /\ Cardinality(1..Len(queue)) = Len(queue)
  BY IntervalFacts
<1>2. due \subseteq 1..Len(queue)
  OBVIOUS
<1> QED BY <1>1, <1>2, FS_Subset, FS_CardinalityType DEF DueItems

\* multimap::erase takes one item away.
LEMMA RemovedProperties ==
  ASSUME NEW S, NEW queue \in Seq(S), NEW k \in 1..Len(queue)
  PROVE  /\ RemoveAt(queue, k) \in Seq(S)
         /\ ToSet(queue) = ToSet(RemoveAt(queue, k)) \cup {queue[k]}
<1> DEFINE a == SubSeq(queue, 1, k - 1)
           c == SubSeq(queue, k + 1, Len(queue))
           removed == RemoveAt(queue, k)
<1>1. /\ a \in Seq(S) /\ Len(a) = k - 1
      /\ \A i \in 1..(k - 1) : a[i] = queue[i]
  BY SubSeqProperties
<1>2. /\ c \in Seq(S) /\ Len(c) = Len(queue) - k
      /\ \A i \in 1..(Len(queue) - k) : c[i] = queue[k + i]
  BY SubSeqProperties
<1>3. removed = a \o c
  BY DEF RemoveAt
<1> HIDE DEF a, c, removed
<1>4. /\ removed \in Seq(S) /\ Len(removed) = Len(queue) - 1
      /\ \A i \in 1..(Len(queue) - 1) :
           removed[i] = IF i <= k - 1 THEN a[i] ELSE c[i - (k - 1)]
  <2>1. /\ removed \in Seq(S) /\ Len(removed) = Len(a) + Len(c)
        /\ \A i \in 1..(Len(a) + Len(c)) :
             removed[i] = IF i <= Len(a) THEN a[i] ELSE c[i - Len(a)]
    BY <1>1, <1>2, <1>3, ConcatProperties
  <2>2. Len(a) = k - 1 /\ Len(a) + Len(c) = Len(queue) - 1
    BY <1>1, <1>2
  <2> QED BY <2>1, <2>2
<1>5. \A i \in 1..(Len(queue) - 1) : removed[i] = IF i < k THEN queue[i] ELSE queue[i + 1]
  BY <1>1, <1>2, <1>4
<1>6. ToSet(removed) \subseteq ToSet(queue)
  <2>1. SUFFICES ASSUME NEW x \in ToSet(removed)
                 PROVE  x \in ToSet(queue)
    OBVIOUS
  <2>2. PICK i \in 1..(Len(queue) - 1) : x = removed[i]
    BY <1>4 DEF ToSet
  <2>3. x = IF i < k THEN queue[i] ELSE queue[i + 1]
    BY <1>5, <2>2
  <2>4. DOMAIN queue = 1..Len(queue) /\ i \in 1..Len(queue) /\ i + 1 \in 1..Len(queue)
    BY <2>2
  <2> QED
    BY <2>3, <2>4 DEF ToSet
<1>7. ASSUME NEW x \in ToSet(queue), x # queue[k]
      PROVE  x \in ToSet(removed)
  <2>1. PICK i \in 1..Len(queue) : x = queue[i]
    BY DEF ToSet
  <2>2. CASE i < k
    BY <2>1, <2>2, <1>4, <1>5 DEF ToSet
  <2>3. CASE i > k
    <3> DEFINE j == i - 1
    <3>1. j \in 1..(Len(queue) - 1) /\ ~(j < k) /\ i = j + 1
      BY <2>3
    <3> HIDE DEF j
    <3>2. x = removed[j]
      BY <2>1, <3>1, <1>5
    <3> QED BY <3>1, <3>2, <1>4 DEF ToSet
  <2> QED BY <2>1, <2>2, <2>3, <1>7
<1>8. queue[k] \in ToSet(queue)
  BY DEF ToSet
<1> QED BY <1>4, <1>6, <1>7, <1>8 DEF removed

LEMMA AppendItems ==
  ASSUME NEW S, NEW queue \in Seq(S), NEW item \in S
  PROVE  /\ Append(queue, item) \in Seq(S)
         /\ ToSet(Append(queue, item)) = ToSet(queue) \cup {item}
<1>1. /\ Append(queue, item) \in Seq(S) /\ Len(Append(queue, item)) = Len(queue) + 1
      /\ \A i \in 1..Len(queue) : Append(queue, item)[i] = queue[i]
      /\ Append(queue, item)[Len(queue) + 1] = item
  BY AppendProperties
<1> QED BY <1>1 DEF ToSet

LEMMA TailItems ==
  ASSUME NEW S, NEW queue \in Seq(S), queue # <<>>
  PROVE  /\ Tail(queue) \in Seq(S) /\ Head(queue) \in S
         /\ ToSet(queue) = ToSet(Tail(queue)) \cup {Head(queue)}
<1>1. /\ Tail(queue) \in Seq(S) /\ Len(Tail(queue)) = Len(queue) - 1
      /\ \A i \in 1..(Len(queue) - 1) : Tail(queue)[i] = queue[i + 1]
      /\ Head(queue) = queue[1] /\ Len(queue) > 0 /\ Head(queue) \in S
  BY HeadTailProperties, EmptySeq
<1>2. ASSUME NEW x \in ToSet(queue)
      PROVE  x \in ToSet(Tail(queue)) \cup {Head(queue)}
  <2>1. PICK i \in 1..Len(queue) : x = queue[i]
    BY DEF ToSet
  <2>2. CASE i = 1
    BY <1>1, <2>1, <2>2
  <2>3. CASE i # 1
    <3> DEFINE j == i - 1
    <3>1. j \in 1..(Len(queue) - 1) /\ i = j + 1
      BY <2>3
    <3> HIDE DEF j
    <3>2. x = Tail(queue)[j] /\ j \in DOMAIN Tail(queue)
      BY <1>1, <2>1, <3>1
    <3> QED BY <3>2 DEF ToSet
  <2> QED BY <2>2, <2>3
<1>3. ToSet(Tail(queue)) \subseteq ToSet(queue) /\ Head(queue) \in ToSet(queue)
  BY <1>1 DEF ToSet
<1> QED BY <1>1, <1>2, <1>3

LEMMA EmptyItems ==
  ToSet(<<>>) = {}
BY DEF ToSet

LEMMA ElementOf ==
  ASSUME NEW S, NEW queue \in Seq(S)
  PROVE  ToSet(queue) \subseteq S
BY DEF ToSet

\* The duplicates of a report that are sent at once.
LEMMA ConcatItems ==
  ASSUME NEW S, NEW queue \in Seq(S), NEW item \in S, NEW count \in Nat
  PROVE  /\ queue \o [i \in 1..count |-> item] \in Seq(S)
         /\ Len(queue \o [i \in 1..count |-> item]) = Len(queue) + count
         /\ ToSet(queue) \subseteq ToSet(queue \o [i \in 1..count |-> item])
         /\ ToSet(queue \o [i \in 1..count |-> item]) \subseteq ToSet(queue) \cup {item}
<1> DEFINE b == [i \in 1..count |-> item]
           both == queue \o b
<1>1. b \in Seq(S) /\ Len(b) = count /\ \A i \in 1..count : b[i] = item
  OBVIOUS
<1> HIDE DEF b
<1>2. /\ both \in Seq(S) /\ Len(both) = Len(queue) + Len(b)
      /\ \A i \in 1..(Len(queue) + Len(b)) :
           both[i] = IF i <= Len(queue) THEN queue[i] ELSE b[i - Len(queue)]
  BY <1>1, ConcatProperties
<1> HIDE DEF both
<1>3. ASSUME NEW i \in 1..Len(both)
      PROVE  both[i] \in ToSet(queue) \cup {item}
  <2>1. CASE i <= Len(queue)
    BY <1>2, <2>1 DEF ToSet
  <2>2. CASE ~(i <= Len(queue))
    <3> DEFINE j == i - Len(queue)
    <3>1. j \in 1..count
      BY <1>1, <1>2, <2>2
    <3> HIDE DEF j
    <3>2. both[i] = b[j]
      BY <1>2, <2>2 DEF j
    <3> QED BY <1>1, <3>1, <3>2
  <2> QED BY <2>1, <2>2
<1>4. ToSet(queue) \subseteq ToSet(both)
  <2>1. Len(queue) \in Nat /\ Len(both) = Len(queue) + count
    BY <1>1, <1>2
  <2>2. ASSUME NEW i \in 1..Len(queue)
        PROVE  i \in 1..Len(both) /\ both[i] = queue[i]
    BY <1>1, <1>2, <2>1
  <2>3. ToSet(queue) = {queue[i] : i \in 1..Len(queue)}
    BY DEF ToSet
  <2>4. ToSet(both) = {both[i] : i \in 1..Len(both)}
    BY <1>2 DEF ToSet
  <2> QED BY <2>2, <2>3, <2>4
<1>5. ToSet(both) \subseteq ToSet(queue) \cup {item}
  BY <1>2, <1>3 DEF ToSet
<1>6. both \in Seq(S) /\ Len(both) = Len(queue) + count
  BY <1>1, <1>2
<1> QED BY <1>4, <1>5, <1>6 DEF both, b

-----------------------------------------------------------------------------
(* Types *)

Evidences ==
  [kind : CommandStatuses \cup {"Observed"}, revision : Nat,
   value : Values \cup {Normalize[v] : v \in Values}]

PendingItems == [due : Nat, item : Evidences, sender : Nat]

EffectCommands == [id : 1..MaxCommand, value : Values, issuedAt : Nat]

\* The channel and what is behind it; the channel never holds more than its
\* capacity (try_send of FeedbackSender).
ChannelOK ==
  /\ epoch \in Nat /\ shutdown \in BOOLEAN
  /\ reports \in Seq(Evidences) /\ observations \in Seq(Evidences)
  /\ seen \subseteq Evidences /\ closedOn \subseteq Evidences
  /\ Queued <= Capacity

AdapterOK ==
  /\ now \in Nat
  /\ behavior \in Behaviors
  /\ pendingReports \in Seq(PendingItems) /\ pendingObservations \in Seq(PendingItems)
  /\ revision \in Nat
  /\ commands \subseteq EffectCommands
  /\ executions \in [1..MaxCommand -> Nat]

\* A cached result tells only what the runtime was told already.
CachedIsSeen ==
  \A id \in DOMAIN cachedOutcomes : cachedOutcomes[id].result.reports \subseteq seen

TypeInv == ChannelOK /\ AdapterOK /\ CachedIsSeen

\* What is carried by the items of a queue.
Carried(queue) == {q.item : q \in ToSet(queue)}

\* All the evidence there is.
Everything == InFlight \cup seen \cup closedOn

LEMMA EverythingIs ==
  Everything = Carried(pendingReports) \cup Carried(pendingObservations)
                 \cup ToSet(reports) \cup ToSet(observations) \cup seen \cup closedOn
BY Zenon DEF Everything, InFlight, Carried, Items

LEMMA EverythingNext ==
  Everything' = Carried(pendingReports') \cup Carried(pendingObservations')
                 \cup ToSet(reports') \cup ToSet(observations') \cup seen' \cup closedOn'
BY Zenon DEF Everything, InFlight, Carried, Items

LEMMA CarriedByMore ==
  ASSUME NEW f, NEW g, NEW q, ToSet(g) = ToSet(f) \cup {q}
  PROVE  Carried(g) = Carried(f) \cup {q.item}
BY Zenon DEF Carried

\* The evidence of a dispatch.
LEMMA EvidenceType ==
  ASSUME TypeInv, NEW command \in EffectCommands
  PROVE  /\ Evidence(command) \in Evidences
         /\ Evidence(command).kind = behavior.outcome
         /\ behavior.outcome # "Observed"
<1>1. behavior.outcome \in CommandStatuses
  BY BehaviorAssumption DEF TypeInv, AdapterOK
<1>2. behavior.outcome # "Observed"
  BY <1>1 DEF CommandStatuses
<1>3. command.value \in Values /\ command.id \in Nat
  BY AdapterAssumption DEF EffectCommands
<1>4. CASE behavior.outcome = "Applied"
  <2>1. /\ Evidence(command) = [kind |-> "Applied", revision |-> revision + 1,
                               value |-> Normalize[command.value]]
    BY <1>4 DEF Evidence
  <2>2. revision + 1 \in Nat
    BY DEF TypeInv, AdapterOK
  <2> QED BY <1>1, <1>2, <1>3, <1>4, <2>1, <2>2 DEF Evidences
<1>5. CASE behavior.outcome # "Applied"
  <2>1. /\ Evidence(command) = [kind |-> behavior.outcome, revision |-> command.id,
                               value |-> command.value]
    BY <1>5 DEF Evidence
  <2> QED BY <1>1, <1>2, <1>3, <2>1 DEF Evidences
<1> QED BY <1>4, <1>5

-----------------------------------------------------------------------------
(* The cache *)

LEMMA CachedDomain ==
  ASSUME NEW command, NEW result, NativeIdempotency
  PROVE  /\ DOMAIN CacheOutcome(command, result) = DOMAIN cachedOutcomes \cup {command.id}
         /\ CacheOutcome(command, result)[command.id].result = result
         /\ \A id \in DOMAIN cachedOutcomes \ {command.id} :
              CacheOutcome(command, result)[id] = cachedOutcomes[id]
BY DEF CacheOutcome, Insert

LEMMA CachedStaysSeen ==
  ASSUME CachedIsSeen, seen \subseteq seen',
         NEW command, NEW result, result.reports \subseteq seen',
         cachedOutcomes' = CacheOutcome(command, result)
  PROVE  CachedIsSeen'
<1>1. CASE NativeIdempotency
  <2> SUFFICES ASSUME NEW id \in DOMAIN cachedOutcomes'
               PROVE  cachedOutcomes'[id].result.reports \subseteq seen'
    BY DEF CachedIsSeen
  <2>1. CASE id = command.id
    BY <1>1, <2>1, CachedDomain
  <2>2. CASE id # command.id
    <3>1. id \in DOMAIN cachedOutcomes \cup {command.id}
      BY <1>1 DEF CacheOutcome, Insert
    <3>2. id \in DOMAIN cachedOutcomes \ {command.id}
      BY <2>2, <3>1
    <3>3. cachedOutcomes'[id] = cachedOutcomes[id]
      BY <1>1, <3>2 DEF CacheOutcome, Insert
    <3> QED BY <3>2, <3>3 DEF CachedIsSeen
  <2> QED BY <2>1, <2>2
<1>2. CASE ~NativeIdempotency
  BY <1>2 DEF CacheOutcome, CachedIsSeen
<1> QED BY <1>1, <1>2

-----------------------------------------------------------------------------
(* Execution *)

\* The report is pending or was told to the runtime, whatever becomes of its
\* duplicates.
LEMMA ExecutesStep ==
  ASSUME TypeInv, NEW command \in EffectCommands, Executes(command, epoch)
  PROVE  /\ ChannelOK' /\ CachedIsSeen'
         /\ pendingReports' \in Seq(PendingItems)
         /\ Everything' = Everything \cup {Evidence(command)}
<1> DEFINE evidence == Evidence(command)
           sender == epoch
           room == IF sender = epoch /\ ~shutdown THEN Capacity - Queued ELSE 0
           sent == IF behavior.duplicates < room THEN behavior.duplicates ELSE room
           closed == sender # epoch \/ shutdown
           item == [due |-> command.issuedAt + behavior.latency, item |-> evidence,
                    sender |-> sender]
           immediate == behavior.latency = 0
           waiting == IF ~immediate THEN behavior.duplicates + 1
                      ELSE IF closed THEN 0 ELSE behavior.duplicates - sent
           duplicates == [i \in 1..sent |-> evidence]
           result == [disposition |-> "Accepted",
                      reports |-> IF immediate THEN {evidence} ELSE {}]
<1>1. /\ reports' = IF immediate THEN reports \o duplicates ELSE reports
      /\ seen' = IF immediate THEN seen \cup {evidence} ELSE seen
      /\ pendingReports' = Emplaced(pendingReports, item, waiting)
      /\ cachedOutcomes' = CacheOutcome(command, result)
      /\ UNCHANGED <<epoch, observations, shutdown, closedOn, pendingObservations>>
  BY DEF Executes
<1>2. /\ Capacity \in Nat /\ Queued \in Nat /\ Queued <= Capacity
      /\ Len(reports) \in Nat /\ Len(observations) \in Nat
      /\ Queued = Len(reports) + Len(observations)
  BY FeedbackAssumption DEF TypeInv, ChannelOK, Queued
<1>3. behavior.latency \in Nat /\ behavior.duplicates \in Nat /\ command.issuedAt \in Nat
  BY BehaviorAssumption DEF TypeInv, AdapterOK, EffectCommands
<1>4. evidence \in Evidences
  BY EvidenceType
<1> HIDE DEF evidence
<1>5. sent \in Nat /\ sent <= behavior.duplicates /\ Queued + sent <= Capacity
  BY <1>2, <1>3
<1>6. waiting \in Nat /\ (~immediate => waiting > 0)
  BY <1>3, <1>5
<1>7. item \in PendingItems /\ item.item = evidence
  <2>1. epoch \in Nat
    BY DEF TypeInv, ChannelOK
  <2>2. command.issuedAt + behavior.latency \in Nat
    BY <1>3
  <2> QED BY <1>4, <2>1, <2>2 DEF PendingItems
<1>8. result.reports = IF immediate THEN {evidence} ELSE {}
  OBVIOUS
<1>9. reports \in Seq(Evidences) /\ pendingReports \in Seq(PendingItems)
  BY DEF TypeInv, ChannelOK, AdapterOK
<1> HIDE DEF sent, waiting, item, immediate, result
<1>10. /\ pendingReports' \in Seq(PendingItems)
       /\ (waiting > 0 => ToSet(pendingReports') = ToSet(pendingReports) \cup {item})
       /\ (waiting = 0 => ToSet(pendingReports') = ToSet(pendingReports))
  <2> DEFINE emplaced == Emplaced(pendingReports, item, waiting)
  <2>1. /\ emplaced \in Seq(PendingItems)
        /\ (waiting > 0 => ToSet(emplaced) = ToSet(pendingReports) \cup {item})
        /\ (waiting = 0 => ToSet(emplaced) = ToSet(pendingReports))
    <3>1. pendingReports \in Seq(PendingItems) /\ item \in PendingItems /\ waiting \in Nat
      BY <1>6, <1>7, <1>9
    <3>2. emplaced \in Seq(PendingItems)
      BY <3>1, EmplacedProperties
    <3>3. (waiting > 0 => ToSet(emplaced) = ToSet(pendingReports) \cup {item})
      BY <3>1, EmplacedProperties
    <3>4. (waiting = 0 => ToSet(emplaced) = ToSet(pendingReports))
      BY <3>1, EmplacedProperties
    <3> QED BY <3>2, <3>3, <3>4
  <2>2. pendingReports' = emplaced
    BY <1>1
  <2> HIDE DEF emplaced
  <2> QED BY <2>1, <2>2
<1>11. /\ (waiting > 0 => Carried(pendingReports') = Carried(pendingReports) \cup {evidence})
       /\ (waiting = 0 => Carried(pendingReports') = Carried(pendingReports))
  <2>1. CASE waiting > 0
    <3>1. Carried(pendingReports') = Carried(pendingReports) \cup {item.item}
      BY <1>10, <2>1, CarriedByMore
    <3> QED BY <1>6, <1>7, <2>1, <3>1
  <2>2. CASE waiting = 0
    <3>1. Carried(pendingReports') = Carried(pendingReports)
      BY <1>10, <2>2 DEF Carried
    <3> QED BY <2>2, <3>1
  <2> QED BY <1>6, <2>1, <2>2
<1>12. /\ reports' \in Seq(Evidences)
       /\ Len(reports') <= Len(reports) + sent
       /\ ToSet(reports) \subseteq ToSet(reports')
       /\ (immediate => ToSet(reports') \subseteq ToSet(reports) \cup {evidence})
       /\ (~immediate => reports' = reports)
  <2>1. CASE immediate
    <3> DEFINE both == reports \o [i \in 1..sent |-> evidence]
    <3>1. reports' = both
      BY <1>1, <2>1
    <3>2. /\ both \in Seq(Evidences)
          /\ Len(both) = Len(reports) + sent
          /\ ToSet(reports) \subseteq ToSet(both)
          /\ ToSet(both) \subseteq ToSet(reports) \cup {evidence}
      BY <1>4, <1>5, <1>9, ConcatItems
    <3> HIDE DEF both
    <3> QED BY <1>2, <1>5, <2>1, <3>1, <3>2
  <2>2. CASE ~immediate
    BY <1>1, <1>2, <1>5, <1>9, <2>2
  <2> QED BY <2>1, <2>2
<1>13. seen \subseteq seen' /\ seen' \subseteq seen \cup {evidence}
       /\ result.reports \subseteq seen'
  BY <1>1, <1>8
<1>14. CachedIsSeen'
  BY <1>1, <1>13, CachedStaysSeen DEF TypeInv
<1>15. ChannelOK'
  <2>1. Len(reports') \in Nat
    BY <1>12
  <2>4. Queued' = Len(reports') + Len(observations)
    BY <1>1 DEF Queued
  <2>2. Queued' <= Capacity
    BY <1>2, <1>5, <1>12, <2>1, <2>4
  <2>3. seen' \subseteq Evidences
    BY <1>4, <1>13 DEF TypeInv, ChannelOK
  <2> QED BY <1>1, <1>12, <2>2, <2>3 DEF TypeInv, ChannelOK
<1>16. Everything' = Everything \cup {evidence}
  <2>1. CASE immediate
    <3>1. seen' = seen \cup {evidence}
      BY <1>1, <2>1
    <3>2. /\ ToSet(reports) \subseteq ToSet(reports')
          /\ ToSet(reports') \subseteq ToSet(reports) \cup {evidence}
      BY <1>12, <2>1
    <3>3. /\ Carried(pendingReports) \subseteq Carried(pendingReports')
          /\ Carried(pendingReports') \subseteq Carried(pendingReports) \cup {evidence}
      BY <1>6, <1>11
    <3>4. /\ ToSet(observations') = ToSet(observations) /\ closedOn' = closedOn
          /\ Carried(pendingObservations') = Carried(pendingObservations)
      BY <1>1
    <3> QED BY Zenon, <3>1, <3>2, <3>3, <3>4, EverythingIs, EverythingNext
  <2>2. CASE ~immediate
    <3>1. seen' = seen /\ reports' = reports /\ observations' = observations
          /\ closedOn' = closedOn
      BY <1>1, <1>12, <2>2
    <3>2. Carried(pendingReports') = Carried(pendingReports) \cup {evidence}
      BY <1>6, <1>11, <2>2
    <3>3. Carried(pendingObservations') = Carried(pendingObservations)
      BY <1>1
    <3>4. ToSet(reports') = ToSet(reports) /\ ToSet(observations') = ToSet(observations)
      BY <3>1
    <3> QED BY Zenon, <3>1, <3>2, <3>3, <3>4, EverythingIs, EverythingNext
  <2> QED BY <2>1, <2>2
<1> QED BY <1>10, <1>14, <1>15, <1>16 DEF evidence

-----------------------------------------------------------------------------
(* Delivery moves evidence and loses none *)

LEMMA EverythingFrame ==
  ASSUME UNCHANGED <<channelVars, pendingVars>>
  PROVE  Everything' = Everything
BY DEF Everything, InFlight, Items, channelVars, pendingVars

LEMMA ReportStep ==
  ASSUME TypeInv, DeliverReport
  PROVE  TypeInv' /\ Everything' = Everything
<1>1. UNCHANGED <<now, behavior, cachedOutcomes, deviceVars, commands, executions, dispatches>>
  BY DEF DeliverReport, DeliveryUnchanged
<1>2. CASE DueItems(pendingReports, delivery.through) = 0
  <2>1. UNCHANGED <<channelVars, pendingVars>>
    BY <1>2 DEF DeliverReport
  <2>2. TypeInv'
    BY <1>1, <2>1 DEF TypeInv, ChannelOK, AdapterOK, CachedIsSeen, channelVars, pendingVars,
                      deviceVars, Queued
  <2> QED BY <2>1, <2>2, EverythingFrame
<1>3. CASE DueItems(pendingReports, delivery.through) # 0
  <2> DEFINE k == Next_(pendingReports)
             next == pendingReports[k]
             sent == SendResult(next.sender, Queued)
  <2>1. /\ TrySendReport(next.sender, next.item)
        /\ pendingReports' = Erased(pendingReports, next.sender)
        /\ UNCHANGED pendingObservations
    BY <1>3 DEF DeliverReport
  <2>2. pendingReports \in Seq(PendingItems) /\ reports \in Seq(Evidences)
    BY DEF TypeInv, ChannelOK, AdapterOK
  <2>3. DueItems(pendingReports, delivery.through) \in 0..Len(pendingReports)
    BY <2>2, DueItemsType
  <2>4. k \in 1..Len(pendingReports)
    BY <1>3, <2>2, <2>3 DEF Next_
  <2> HIDE DEF k
  <2>5. next \in PendingItems
    BY <2>2, <2>4
  <2> DEFINE removed == RemoveAt(pendingReports, k)
  <2>6. removed \in Seq(PendingItems) /\ ToSet(pendingReports) = ToSet(removed) \cup {next}
    BY <2>2, <2>4, RemovedProperties
  <2>7. pendingReports' = IF sent = "Full" THEN pendingReports ELSE removed
    BY <2>1 DEF Erased, k
  <2>8. next.item \in Evidences
    BY <2>5 DEF PendingItems
  <2>9. /\ reports' = IF sent = "Sent" THEN Append(reports, next.item) ELSE reports
        /\ closedOn' = IF sent = "Closed" THEN closedOn \cup {next.item} ELSE closedOn
        /\ UNCHANGED <<epoch, observations, shutdown, seen>>
    BY <2>1 DEF TrySendReport
  <2> HIDE DEF next, removed
  <2>10. Carried(pendingReports) = Carried(removed) \cup {next.item}
    BY <2>6, CarriedByMore
  <2>11. sent \in {"Closed", "Full", "Sent"} /\ (sent = "Sent" => ~(Queued >= Capacity))
    BY DEF SendResult
  <2>12. UNCHANGED <<seen, ToSet(observations), Carried(pendingObservations)>>
    BY <2>1, <2>9
  <2>13. /\ Capacity \in Nat /\ Queued \in Nat /\ Queued <= Capacity
         /\ Len(reports) \in Nat /\ Len(observations) \in Nat
         /\ Queued = Len(reports) + Len(observations)
    BY FeedbackAssumption DEF TypeInv, ChannelOK, Queued
  <2> HIDE DEF sent
  <2>14. CASE sent = "Full"
    <3>1. UNCHANGED <<channelVars, pendingVars>>
      BY <2>1, <2>7, <2>9, <2>14 DEF channelVars, pendingVars
    <3>2. TypeInv'
      BY <1>1, <3>1 DEF TypeInv, ChannelOK, AdapterOK, CachedIsSeen, channelVars, pendingVars,
                        deviceVars, Queued
    <3> QED BY <3>1, <3>2, EverythingFrame
  <2>15. CASE sent = "Closed"
    <3>1. /\ pendingReports' = removed /\ reports' = reports
          /\ closedOn' = closedOn \cup {next.item}
      BY <2>7, <2>9, <2>15
    <3>2. ChannelOK'
      BY <2>8, <2>9, <3>1 DEF TypeInv, ChannelOK, Queued
    <3>3. AdapterOK' /\ CachedIsSeen'
      BY <1>1, <2>1, <2>6, <2>9, <3>1 DEF TypeInv, AdapterOK, CachedIsSeen, deviceVars
    <3>4. UNCHANGED ToSet(reports) /\ Carried(pendingReports') = Carried(removed)
      BY <3>1
    <3>5. Everything' = Everything
      BY Zenon, <2>10, <2>12, <3>1, <3>4, EverythingIs, EverythingNext
    <3> QED BY <3>2, <3>3, <3>5 DEF TypeInv
  <2>16. CASE sent = "Sent"
    <3>1. /\ pendingReports' = removed /\ reports' = Append(reports, next.item)
          /\ closedOn' = closedOn
      BY <2>7, <2>9, <2>16
    <3> DEFINE longer == Append(reports, next.item)
    <3>2. /\ longer \in Seq(Evidences)
          /\ ToSet(longer) = ToSet(reports) \cup {next.item}
          /\ Len(longer) = Len(reports) + 1
      BY <2>2, <2>8, AppendItems, AppendProperties
    <3> HIDE DEF longer
    <3>3. reports' = longer
      BY <3>1 DEF longer
    <3>4. Queued' = Len(longer) + Len(observations)
      BY <2>9, <2>13, <3>2, <3>3 DEF Queued
    <3>5. Queued' <= Capacity
      BY <2>11, <2>13, <2>16, <3>2, <3>4
    <3>6. ChannelOK'
      BY <2>9, <3>1, <3>2, <3>3, <3>5 DEF TypeInv, ChannelOK
    <3>7. AdapterOK' /\ CachedIsSeen'
      BY <1>1, <2>1, <2>6, <2>9, <3>1 DEF TypeInv, AdapterOK, CachedIsSeen, deviceVars
    <3>8. ToSet(reports') = ToSet(reports) \cup {next.item} /\ Carried(pendingReports') = Carried(removed)
      BY <3>1, <3>2, <3>3
    <3>9. Everything' = Everything
      BY Zenon, <2>10, <2>12, <3>1, <3>8, EverythingIs, EverythingNext
    <3> QED BY <3>6, <3>7, <3>9 DEF TypeInv
  <2> QED BY <2>11, <2>14, <2>15, <2>16
<1> QED BY <1>2, <1>3

LEMMA ObservationStep ==
  ASSUME TypeInv, DeliverObservation
  PROVE  TypeInv' /\ Everything' = Everything
<1>1. UNCHANGED <<now, behavior, cachedOutcomes, deviceVars, commands, executions, dispatches>>
  BY DEF DeliverObservation, DeliveryUnchanged
<1>2. CASE DueItems(pendingObservations, delivery.through) = 0
  <2>1. UNCHANGED <<channelVars, pendingVars>>
    BY <1>2 DEF DeliverObservation
  <2>2. TypeInv'
    BY <1>1, <2>1 DEF TypeInv, ChannelOK, AdapterOK, CachedIsSeen, channelVars, pendingVars,
                      deviceVars, Queued
  <2> QED BY <2>1, <2>2, EverythingFrame
<1>3. CASE DueItems(pendingObservations, delivery.through) # 0
  <2> DEFINE k == Next_(pendingObservations)
             next == pendingObservations[k]
             sent == SendResult(next.sender, Queued)
  <2>1. /\ TrySendObservation(next.sender, next.item)
        /\ pendingObservations' = Erased(pendingObservations, next.sender)
        /\ UNCHANGED pendingReports
    BY <1>3 DEF DeliverObservation
  <2>2. pendingObservations \in Seq(PendingItems) /\ observations \in Seq(Evidences)
    BY DEF TypeInv, ChannelOK, AdapterOK
  <2>3. DueItems(pendingObservations, delivery.through) \in 0..Len(pendingObservations)
    BY <2>2, DueItemsType
  <2>4. k \in 1..Len(pendingObservations)
    BY <1>3, <2>2, <2>3 DEF Next_
  <2> HIDE DEF k
  <2>5. next \in PendingItems
    BY <2>2, <2>4
  <2> DEFINE removed == RemoveAt(pendingObservations, k)
  <2>6. removed \in Seq(PendingItems) /\ ToSet(pendingObservations) = ToSet(removed) \cup {next}
    BY <2>2, <2>4, RemovedProperties
  <2>7. pendingObservations' = IF sent = "Full" THEN pendingObservations ELSE removed
    BY <2>1 DEF Erased, k
  <2>8. next.item \in Evidences
    BY <2>5 DEF PendingItems
  <2>9. /\ observations' = IF sent = "Sent" THEN Append(observations, next.item) ELSE observations
        /\ closedOn' = IF sent = "Closed" THEN closedOn \cup {next.item} ELSE closedOn
        /\ UNCHANGED <<epoch, reports, shutdown, seen>>
    BY <2>1 DEF TrySendObservation
  <2> HIDE DEF next, removed
  <2>10. Carried(pendingObservations) = Carried(removed) \cup {next.item}
    BY <2>6, CarriedByMore
  <2>11. sent \in {"Closed", "Full", "Sent"} /\ (sent = "Sent" => ~(Queued >= Capacity))
    BY DEF SendResult
  <2>12. UNCHANGED <<seen, ToSet(reports), Carried(pendingReports)>>
    BY <2>1, <2>9
  <2>13. /\ Capacity \in Nat /\ Queued \in Nat /\ Queued <= Capacity
         /\ Len(reports) \in Nat /\ Len(observations) \in Nat
         /\ Queued = Len(reports) + Len(observations)
    BY FeedbackAssumption DEF TypeInv, ChannelOK, Queued
  <2> HIDE DEF sent
  <2>14. CASE sent = "Full"
    <3>1. UNCHANGED <<channelVars, pendingVars>>
      BY <2>1, <2>7, <2>9, <2>14 DEF channelVars, pendingVars
    <3>2. TypeInv'
      BY <1>1, <3>1 DEF TypeInv, ChannelOK, AdapterOK, CachedIsSeen, channelVars, pendingVars,
                        deviceVars, Queued
    <3> QED BY <3>1, <3>2, EverythingFrame
  <2>15. CASE sent = "Closed"
    <3>1. /\ pendingObservations' = removed /\ observations' = observations
          /\ closedOn' = closedOn \cup {next.item}
      BY <2>7, <2>9, <2>15
    <3>2. ChannelOK'
      BY <2>8, <2>9, <3>1 DEF TypeInv, ChannelOK, Queued
    <3>3. AdapterOK' /\ CachedIsSeen'
      BY <1>1, <2>1, <2>6, <2>9, <3>1 DEF TypeInv, AdapterOK, CachedIsSeen, deviceVars
    <3>4. UNCHANGED ToSet(observations) /\ Carried(pendingObservations') = Carried(removed)
      BY <3>1
    <3>5. Everything' = Everything
      BY Zenon, <2>10, <2>12, <3>1, <3>4, EverythingIs, EverythingNext
    <3> QED BY <3>2, <3>3, <3>5 DEF TypeInv
  <2>16. CASE sent = "Sent"
    <3>1. /\ pendingObservations' = removed /\ observations' = Append(observations, next.item)
          /\ closedOn' = closedOn
      BY <2>7, <2>9, <2>16
    <3> DEFINE longer == Append(observations, next.item)
    <3>2. /\ longer \in Seq(Evidences)
          /\ ToSet(longer) = ToSet(observations) \cup {next.item}
          /\ Len(longer) = Len(observations) + 1
      BY <2>2, <2>8, AppendItems, AppendProperties
    <3> HIDE DEF longer
    <3>3. observations' = longer
      BY <3>1 DEF longer
    <3>4. Queued' = Len(longer) + Len(reports)
      BY <2>9, <2>13, <3>2, <3>3 DEF Queued
    <3>5. Queued' <= Capacity
      BY <2>11, <2>13, <2>16, <3>2, <3>4
    <3>6. ChannelOK'
      BY <2>9, <3>1, <3>2, <3>3, <3>5 DEF TypeInv, ChannelOK
    <3>7. AdapterOK' /\ CachedIsSeen'
      BY <1>1, <2>1, <2>6, <2>9, <3>1 DEF TypeInv, AdapterOK, CachedIsSeen, deviceVars
    <3>8. ToSet(observations') = ToSet(observations) \cup {next.item} /\ Carried(pendingObservations') = Carried(removed)
      BY <3>1, <3>2, <3>3
    <3>9. Everything' = Everything
      BY Zenon, <2>10, <2>12, <3>1, <3>8, EverythingIs, EverythingNext
    <3> QED BY <3>6, <3>7, <3>9 DEF TypeInv
  <2> QED BY <2>11, <2>14, <2>15, <2>16
<1> QED BY <1>2, <1>3

-----------------------------------------------------------------------------
(* The receiver *)

LEMMA TryReceiveStep ==
  ASSUME TypeInv, TryReceive, UNCHANGED adapterVars
  PROVE  TypeInv' /\ Everything' = Everything
<1>1. /\ reports # <<>> /\ seen' = seen \cup {Head(reports)} /\ reports' = Tail(reports)
      /\ UNCHANGED <<epoch, observations, shutdown, closedOn>>
  BY DEF TryReceive
<1>2. reports \in Seq(Evidences)
  BY DEF TypeInv, ChannelOK
<1>3. /\ Tail(reports) \in Seq(Evidences) /\ Head(reports) \in Evidences
      /\ ToSet(reports) = ToSet(Tail(reports)) \cup {Head(reports)}
      /\ Len(Tail(reports)) <= Len(reports)
  BY <1>1, <1>2, TailItems, HeadTailProperties
<1>4. ToSet(reports) = ToSet(reports') \cup {Head(reports)} /\ reports' \in Seq(Evidences)
      /\ Len(reports') <= Len(reports)
  BY <1>1, <1>3
<1>5. seen' = seen \cup {Head(reports)} /\ seen \subseteq seen' /\ seen' \subseteq Evidences
  BY <1>1, <1>3 DEF TypeInv, ChannelOK
<1>6. UNCHANGED <<ToSet(observations), closedOn, Carried(pendingReports), Carried(pendingObservations)>>
  BY <1>1 DEF adapterVars, pendingVars
<1>7. Everything' = Everything
  BY Zenon, <1>4, <1>5, <1>6, EverythingIs, EverythingNext
<1>8. Queued' <= Queued
  BY <1>1, <1>2, <1>4 DEF Queued, TypeInv, ChannelOK
<1>9. ChannelOK'
  <2>1. Queued' \in Nat /\ Queued \in Nat /\ Queued <= Capacity /\ Capacity \in Nat
    BY <1>1, <1>4, FeedbackAssumption DEF Queued, TypeInv, ChannelOK
  <2>2. Queued' <= Capacity
    BY <1>8, <2>1
  <2> QED BY <1>1, <1>4, <1>5, <2>2 DEF TypeInv, ChannelOK
<1>10. AdapterOK' /\ CachedIsSeen'
  BY <1>5 DEF TypeInv, AdapterOK, CachedIsSeen, adapterVars, pendingVars, deviceVars
<1> QED BY <1>7, <1>9, <1>10 DEF TypeInv

LEMMA TryReceiveObservationStep ==
  ASSUME TypeInv, TryReceiveObservation, UNCHANGED adapterVars
  PROVE  TypeInv' /\ Everything' = Everything
<1>1. /\ observations # <<>> /\ seen' = seen \cup {Head(observations)} /\ observations' = Tail(observations)
      /\ UNCHANGED <<epoch, reports, shutdown, closedOn>>
  BY DEF TryReceiveObservation
<1>2. observations \in Seq(Evidences)
  BY DEF TypeInv, ChannelOK
<1>3. /\ Tail(observations) \in Seq(Evidences) /\ Head(observations) \in Evidences
      /\ ToSet(observations) = ToSet(Tail(observations)) \cup {Head(observations)}
      /\ Len(Tail(observations)) <= Len(observations)
  BY <1>1, <1>2, TailItems, HeadTailProperties
<1>4. ToSet(observations) = ToSet(observations') \cup {Head(observations)} /\ observations' \in Seq(Evidences)
      /\ Len(observations') <= Len(observations)
  BY <1>1, <1>3
<1>5. seen' = seen \cup {Head(observations)} /\ seen \subseteq seen' /\ seen' \subseteq Evidences
  BY <1>1, <1>3 DEF TypeInv, ChannelOK
<1>6. UNCHANGED <<ToSet(reports), closedOn, Carried(pendingReports), Carried(pendingObservations)>>
  BY <1>1 DEF adapterVars, pendingVars
<1>7. Everything' = Everything
  BY Zenon, <1>4, <1>5, <1>6, EverythingIs, EverythingNext
<1>8. Queued' <= Queued
  BY <1>1, <1>2, <1>4 DEF Queued, TypeInv, ChannelOK
<1>9. ChannelOK'
  <2>1. Queued' \in Nat /\ Queued \in Nat /\ Queued <= Capacity /\ Capacity \in Nat
    BY <1>1, <1>4, FeedbackAssumption DEF Queued, TypeInv, ChannelOK
  <2>2. Queued' <= Capacity
    BY <1>8, <2>1
  <2> QED BY <1>1, <1>4, <1>5, <2>2 DEF TypeInv, ChannelOK
<1>10. AdapterOK' /\ CachedIsSeen'
  BY <1>5 DEF TypeInv, AdapterOK, CachedIsSeen, adapterVars, pendingVars, deviceVars
<1> QED BY <1>7, <1>9, <1>10 DEF TypeInv

LEMMA DrainStep ==
  ASSUME TypeInv, Drain, UNCHANGED adapterVars
  PROVE  TypeInv' /\ Everything' = Everything
<1>1. /\ seen' = seen \cup ToSet(reports) /\ reports' = <<>>
      /\ UNCHANGED <<epoch, observations, shutdown, closedOn>>
  BY DEF Drain, Items
<1>2. reports \in Seq(Evidences) /\ <<>> \in Seq(Evidences) /\ Len(<<>>) = 0
  BY DEF TypeInv, ChannelOK
<1>3. ToSet(reports) \subseteq Evidences
  BY <1>2, ElementOf
<1>4. ToSet(reports') = {} /\ reports' \in Seq(Evidences) /\ Len(reports') <= Len(reports)
  BY <1>1, <1>2, EmptyItems
<1>5. seen' = seen \cup ToSet(reports) /\ seen \subseteq seen' /\ seen' \subseteq Evidences
  BY <1>1, <1>3 DEF TypeInv, ChannelOK
<1>6. UNCHANGED <<ToSet(observations), closedOn, Carried(pendingReports), Carried(pendingObservations)>>
  BY <1>1 DEF adapterVars, pendingVars
<1>7. Everything' = Everything
  BY Zenon, <1>4, <1>5, <1>6, EverythingIs, EverythingNext
<1>8. Queued' <= Queued
  BY <1>1, <1>2, <1>4 DEF Queued, TypeInv, ChannelOK
<1>9. ChannelOK'
  <2>1. Queued' \in Nat /\ Queued \in Nat /\ Queued <= Capacity /\ Capacity \in Nat
    BY <1>1, <1>4, FeedbackAssumption DEF Queued, TypeInv, ChannelOK
  <2>2. Queued' <= Capacity
    BY <1>8, <2>1
  <2> QED BY <1>1, <1>4, <1>5, <2>2 DEF TypeInv, ChannelOK
<1>10. AdapterOK' /\ CachedIsSeen'
  BY <1>5 DEF TypeInv, AdapterOK, CachedIsSeen, adapterVars, pendingVars, deviceVars
<1> QED BY <1>7, <1>9, <1>10 DEF TypeInv

LEMMA DrainObservationsStep ==
  ASSUME TypeInv, DrainObservations, UNCHANGED adapterVars
  PROVE  TypeInv' /\ Everything' = Everything
<1>1. /\ seen' = seen \cup ToSet(observations) /\ observations' = <<>>
      /\ UNCHANGED <<epoch, reports, shutdown, closedOn>>
  BY DEF DrainObservations, Items
<1>2. observations \in Seq(Evidences) /\ <<>> \in Seq(Evidences) /\ Len(<<>>) = 0
  BY DEF TypeInv, ChannelOK
<1>3. ToSet(observations) \subseteq Evidences
  BY <1>2, ElementOf
<1>4. ToSet(observations') = {} /\ observations' \in Seq(Evidences) /\ Len(observations') <= Len(observations)
  BY <1>1, <1>2, EmptyItems
<1>5. seen' = seen \cup ToSet(observations) /\ seen \subseteq seen' /\ seen' \subseteq Evidences
  BY <1>1, <1>3 DEF TypeInv, ChannelOK
<1>6. UNCHANGED <<ToSet(reports), closedOn, Carried(pendingReports), Carried(pendingObservations)>>
  BY <1>1 DEF adapterVars, pendingVars
<1>7. Everything' = Everything
  BY Zenon, <1>4, <1>5, <1>6, EverythingIs, EverythingNext
<1>8. Queued' <= Queued
  BY <1>1, <1>2, <1>4 DEF Queued, TypeInv, ChannelOK
<1>9. ChannelOK'
  <2>1. Queued' \in Nat /\ Queued \in Nat /\ Queued <= Capacity /\ Capacity \in Nat
    BY <1>1, <1>4, FeedbackAssumption DEF Queued, TypeInv, ChannelOK
  <2>2. Queued' <= Capacity
    BY <1>8, <2>1
  <2> QED BY <1>1, <1>4, <1>5, <2>2 DEF TypeInv, ChannelOK
<1>10. AdapterOK' /\ CachedIsSeen'
  BY <1>5 DEF TypeInv, AdapterOK, CachedIsSeen, adapterVars, pendingVars, deviceVars
<1> QED BY <1>7, <1>9, <1>10 DEF TypeInv

LEMMA ReconnectStep ==
  ASSUME TypeInv, Reconnect, UNCHANGED adapterVars
  PROVE  TypeInv' /\ Everything' = Everything
<1>1. /\ epoch' = epoch + 1 /\ reports' = <<>> /\ observations' = <<>> /\ shutdown' = FALSE
      /\ closedOn' = closedOn \cup ToSet(reports) \cup ToSet(observations)
      /\ seen' = seen
  BY DEF Reconnect, Items
<1>2. ToSet(reports) \subseteq Evidences /\ ToSet(observations) \subseteq Evidences
  BY ElementOf DEF TypeInv, ChannelOK
<1>3. ToSet(reports') = {} /\ ToSet(observations') = {}
  BY <1>1, EmptyItems
<1>4. UNCHANGED <<Carried(pendingReports), Carried(pendingObservations)>>
  BY DEF adapterVars, pendingVars
<1>5. Everything' = Everything
  BY Zenon, <1>1, <1>3, <1>4, EverythingIs, EverythingNext
<1>6. ChannelOK'
  <2>1. Queued' = 0 /\ Capacity \in Nat
    BY <1>1, FeedbackAssumption DEF Queued
  <2>2. Queued' <= Capacity
    BY <2>1
  <2>3. closedOn' \subseteq Evidences
    BY <1>1, <1>2 DEF TypeInv, ChannelOK
  <2>4. epoch' \in Nat /\ reports' \in Seq(Evidences) /\ observations' \in Seq(Evidences)
    BY <1>1 DEF TypeInv, ChannelOK
  <2>5. seen' \subseteq Evidences /\ shutdown' \in BOOLEAN
    BY <1>1 DEF TypeInv, ChannelOK
  <2> QED BY <2>2, <2>3, <2>4, <2>5 DEF ChannelOK
<1>7. AdapterOK' /\ CachedIsSeen'
  BY <1>1 DEF TypeInv, AdapterOK, CachedIsSeen, adapterVars, pendingVars, deviceVars
<1> QED BY <1>5, <1>6, <1>7 DEF TypeInv

LEMMA ShutdownStep ==
  ASSUME TypeInv, Shutdown, UNCHANGED adapterVars
  PROVE  TypeInv' /\ Everything' = Everything
<1>1. TypeInv'
  BY DEF Shutdown, TypeInv, ChannelOK, AdapterOK, CachedIsSeen, Queued, adapterVars,
         pendingVars, deviceVars
<1>2. Everything' = Everything
  BY DEF Shutdown, adapterVars, pendingVars, Everything, InFlight, Items
<1> QED BY <1>1, <1>2

-----------------------------------------------------------------------------
(* Every step *)

\* The device did not change, and neither did the evidence of its changes.
Quiet ==
  /\ Changes(Everything') = Changes(Everything)
  /\ UNCHANGED deviceVars

\* The device changed, and the evidence of the change is the only new one.
Changed(kind) ==
  /\ revision' = revision + 1
  /\ Changes(Everything') = Changes(Everything)
       \cup {[kind |-> kind, revision |-> revision', value |-> state']}

Progress == Quiet \/ Changed("Applied") \/ Changed("Observed")

LEMMA DispatchStep ==
  ASSUME TypeInv, NEW command \in EffectCommands, Dispatch(command)
  PROVE  TypeInv' /\ Progress
<1>1. now' = now /\ behavior' = behavior /\ commands' = commands \cup {command}
  BY DEF Dispatch
<1>2. \/ Answered(command) /\ Repeats(command)
      \/ Unchanged
      \/ Concludes(command, "Accepted")
      \/ Concludes(command, "Failed")
      \/ Executes(command, epoch)
  BY DEF Dispatch
<1>3. commands' \subseteq EffectCommands
  BY <1>1 DEF TypeInv, AdapterOK
<1>4. CASE Answered(command) /\ Repeats(command)
  <2>1. seen' = seen
    BY <1>4 DEF Answered, Repeats, TypeInv, CachedIsSeen
  <2>2. UNCHANGED <<channelVars, pendingVars, cachedOutcomes, deviceVars, executions>>
    BY <1>4, <2>1 DEF Repeats, channelVars
  <2>3. TypeInv'
    BY <1>1, <1>3, <2>2 DEF TypeInv, ChannelOK, AdapterOK, CachedIsSeen, channelVars,
                            pendingVars, deviceVars, Queued
  <2>4. Everything' = Everything
    BY <2>2, EverythingFrame
  <2> QED BY <2>2, <2>3, <2>4 DEF Progress, Quiet
<1>5. CASE Unchanged
  <2>2. UNCHANGED <<channelVars, pendingVars, cachedOutcomes, deviceVars, executions>>
    BY <1>5 DEF Unchanged
  <2>3. TypeInv'
    BY <1>1, <1>3, <2>2 DEF TypeInv, ChannelOK, AdapterOK, CachedIsSeen, channelVars,
                            pendingVars, deviceVars, Queued
  <2>4. Everything' = Everything
    BY <2>2, EverythingFrame
  <2> QED BY <2>2, <2>3, <2>4 DEF Progress, Quiet
<1>6. ASSUME NEW disposition, Concludes(command, disposition)
      PROVE  TypeInv' /\ Progress
  <2> DEFINE result == [disposition |-> disposition, reports |-> {}]
  <2>1. /\ cachedOutcomes' = CacheOutcome(command, result)
        /\ UNCHANGED <<channelVars, pendingVars, deviceVars, executions>>
    BY <1>6 DEF Concludes
  <2>2. result.reports \subseteq seen' /\ seen \subseteq seen'
    BY <2>1 DEF channelVars
  <2> HIDE DEF result
  <2>3. CachedIsSeen'
    BY <2>1, <2>2, CachedStaysSeen DEF TypeInv
  <2>4. ChannelOK' /\ AdapterOK'
    BY <1>1, <1>3, <2>1 DEF TypeInv, ChannelOK, AdapterOK, channelVars, pendingVars,
                            deviceVars, Queued
  <2>5. Everything' = Everything
    BY <2>1, EverythingFrame
  <2> QED BY <2>1, <2>3, <2>4, <2>5 DEF TypeInv, Progress, Quiet
<1>7. CASE Executes(command, epoch)
  <2> DEFINE evidence == Evidence(command)
  <2>1. /\ ChannelOK' /\ CachedIsSeen' /\ pendingReports' \in Seq(PendingItems)
        /\ Everything' = Everything \cup {evidence}
    BY <1>7, ExecutesStep
  <2>2. /\ evidence \in Evidences /\ evidence.kind = behavior.outcome
        /\ behavior.outcome # "Observed"
    BY EvidenceType
  <2>3. /\ executions' = [executions EXCEPT ![command.id] =
              IF behavior.outcome = "Applied" THEN @ + 1 ELSE @]
        /\ pendingObservations' = pendingObservations
        /\ (behavior.outcome = "Applied" =>
              state' = evidence.value /\ revision' = evidence.revision)
        /\ (behavior.outcome # "Applied" => UNCHANGED deviceVars)
    BY <1>7 DEF Executes
  <2>4. executions' \in [1..MaxCommand -> Nat]
    <3>1. executions \in [1..MaxCommand -> Nat] /\ command.id \in 1..MaxCommand
      BY DEF TypeInv, AdapterOK, EffectCommands
    <3>2. executions' = [executions EXCEPT ![command.id] =
            IF behavior.outcome = "Applied" THEN @ + 1 ELSE @]
      BY <2>3
    <3>3. CASE behavior.outcome = "Applied"
      <4>1. executions' = [executions EXCEPT ![command.id] = @ + 1]
        BY <3>2, <3>3
      <4> QED BY <3>1, <4>1
    <3>4. CASE behavior.outcome # "Applied"
      <4>1. executions' = [executions EXCEPT ![command.id] = @]
        BY <3>2, <3>4
      <4> QED BY <3>1, <4>1
    <3> QED BY <3>3, <3>4
  <2>5. CASE behavior.outcome = "Applied"
    <3>1. evidence = [kind |-> "Applied", revision |-> revision + 1,
                      value |-> Normalize[command.value]]
      BY <2>5 DEF Evidence
    <3>2. /\ revision' = revision + 1
          /\ evidence = [kind |-> "Applied", revision |-> revision', value |-> state']
      BY <2>3, <2>5, <3>1
    <3> HIDE DEF evidence
    <3>3. evidence.kind = "Applied"
      BY <2>2, <2>5
    <3>4. Changes(Everything') = Changes(Everything) \cup {evidence}
      BY <2>1, <3>3 DEF Changes
    <3>5. Changed("Applied")
      BY <3>2, <3>4 DEF Changed
    <3>6. AdapterOK'
      BY <1>1, <1>3, <2>1, <2>3, <2>4, <3>2 DEF TypeInv, AdapterOK
    <3> QED BY <2>1, <3>5, <3>6 DEF TypeInv, Progress
  <2>6. CASE behavior.outcome # "Applied"
    <3>1. UNCHANGED deviceVars
      BY <2>3, <2>6
    <3> HIDE DEF evidence
    <3>2. evidence.kind \notin {"Applied", "Observed"}
      BY <2>2, <2>6
    <3>3. Changes(Everything') = Changes(Everything)
      BY <2>1, <3>2 DEF Changes
    <3>4. AdapterOK'
      BY <1>1, <1>3, <2>1, <2>3, <2>4, <3>1 DEF TypeInv, AdapterOK, deviceVars
    <3> QED BY <2>1, <3>1, <3>3, <3>4 DEF TypeInv, Progress, Quiet
  <2> QED BY <2>5, <2>6
<1> QED BY <1>2, <1>4, <1>5, <1>6, <1>7

LEMMA ObserveStep ==
  ASSUME TypeInv, NEW value \in Values, NEW due \in 0..MaxTime, Observe(value, due)
  PROVE  TypeInv' /\ Progress
<1> DEFINE evidence == [kind |-> "Observed", revision |-> revision + 1, value |-> value]
           item == [due |-> due, sender |-> epoch, item |-> evidence]
           emplaced == Emplaced(pendingObservations, item, 1)
<1>1. /\ state' = value /\ revision' = revision + 1
      /\ pendingObservations' = emplaced
      /\ UNCHANGED <<channelVars, now, behavior, pendingReports, cachedOutcomes, commands,
                     executions, dispatches, delivery>>
  BY DEF Observe, ObservedRevision
<1>2. /\ revision \in Nat /\ epoch \in Nat /\ due \in Nat
      /\ pendingObservations \in Seq(PendingItems)
  BY DEF TypeInv, ChannelOK, AdapterOK
<1>3. evidence \in Evidences
  BY <1>2 DEF Evidences
<1>4. evidence = [kind |-> "Observed", revision |-> revision', value |-> state']
      /\ evidence.kind = "Observed"
  BY <1>1
<1> HIDE DEF evidence
<1>5. item \in PendingItems /\ item.item = evidence
  BY <1>2, <1>3 DEF PendingItems
<1> HIDE DEF item
<1>6. emplaced \in Seq(PendingItems)
  BY <1>2, <1>5, EmplacedProperties
<1>7. ToSet(emplaced) = ToSet(pendingObservations) \cup {item}
  <2>1. 1 > 0 => ToSet(emplaced) = ToSet(pendingObservations) \cup {item}
    BY <1>2, <1>5, EmplacedProperties
  <2> QED BY <2>1
<1> HIDE DEF emplaced
<1>8. Carried(pendingObservations') = Carried(pendingObservations) \cup {evidence}
  BY <1>1, <1>5, <1>7, CarriedByMore
<1>9. UNCHANGED <<ToSet(reports), ToSet(observations), seen, closedOn, Carried(pendingReports)>>
  BY <1>1 DEF channelVars
<1>10. Everything' = Everything \cup {evidence}
  BY Zenon, <1>8, <1>9, EverythingIs, EverythingNext
<1>11. Changes(Everything') = Changes(Everything) \cup {evidence}
  BY <1>4, <1>10 DEF Changes
<1>12. Changed("Observed")
  BY <1>1, <1>4, <1>11 DEF Changed
<1>13. ChannelOK' /\ CachedIsSeen'
  BY <1>1 DEF TypeInv, ChannelOK, CachedIsSeen, channelVars, Queued
<1>14. AdapterOK'
  BY <1>1, <1>2, <1>6 DEF TypeInv, AdapterOK
<1> QED BY <1>12, <1>13, <1>14 DEF TypeInv, Progress

LEMMA Step ==
  ASSUME TypeInv, [Next]_vars
  PROVE  TypeInv' /\ Progress
<1>1. ASSUME NEW b \in Behaviors, SetBehavior(b)
      PROVE  TypeInv' /\ Progress
  <2>1. UNCHANGED <<channelVars, pendingVars>> /\ UNCHANGED deviceVars
    BY <1>1 DEF SetBehavior
  <2>2. TypeInv'
    BY <1>1 DEF SetBehavior, TypeInv, ChannelOK, AdapterOK, CachedIsSeen, channelVars,
                pendingVars, deviceVars, Queued
  <2> QED BY <2>1, <2>2, EverythingFrame DEF Progress, Quiet
<1>2. ASSUME NEW id \in 1..MaxCommand, NEW value \in Values, Issue(id, value)
      PROVE  TypeInv' /\ Progress
  <2> DEFINE command == [id |-> id, value |-> value, issuedAt |-> now]
  <2>1. command \in EffectCommands
    BY DEF EffectCommands, TypeInv, AdapterOK
  <2>2. Dispatch(command)
    BY <1>2 DEF Issue
  <2> HIDE DEF command
  <2> QED BY <2>1, <2>2, DispatchStep
<1>3. CASE Retry
  <2>1. PICK command \in commands : Dispatch(command)
    BY <1>3 DEF Retry
  <2>2. command \in EffectCommands
    BY DEF TypeInv, AdapterOK
  <2> QED BY <2>1, <2>2, DispatchStep
<1>11. CASE Confuse
  <2>1. PICK command \in commands, value \in Values : Dispatch([command EXCEPT !.value = value])
    BY <1>11 DEF Confuse
  <2> DEFINE other == [command EXCEPT !.value = value]
  <2>2. other \in EffectCommands
    BY DEF TypeInv, AdapterOK, EffectCommands
  <2> HIDE DEF other
  <2>3. Dispatch(other)
    BY <2>1 DEF other
  <2> QED BY <2>2, <2>3, DispatchStep
<1>4. ASSUME NEW value \in Values, NEW due \in 0..MaxTime, Observe(value, due)
      PROVE  TypeInv' /\ Progress
  BY <1>4, ObserveStep
<1>5. CASE DeliverThrough
  <2>1. UNCHANGED <<channelVars, pendingVars>> /\ UNCHANGED deviceVars
    BY <1>5 DEF DeliverThrough
  <2>2. TypeInv'
    BY <1>5 DEF DeliverThrough, TypeInv, ChannelOK, AdapterOK, CachedIsSeen, channelVars,
                pendingVars, deviceVars, Queued
  <2> QED BY <2>1, <2>2, EverythingFrame DEF Progress, Quiet
<1>6. CASE DeliverReport
  <2>1. UNCHANGED deviceVars
    BY <1>6 DEF DeliverReport, DeliveryUnchanged
  <2> QED BY <1>6, <2>1, ReportStep DEF Progress, Quiet
<1>7. CASE DeliverObservation
  <2>1. UNCHANGED deviceVars
    BY <1>7 DEF DeliverObservation, DeliveryUnchanged
  <2> QED BY <1>7, <2>1, ObservationStep DEF Progress, Quiet
<1>8. CASE Tick
  <2>1. UNCHANGED <<channelVars, pendingVars>> /\ UNCHANGED deviceVars
    BY <1>8 DEF Tick
  <2>2. TypeInv'
    BY <1>8 DEF Tick, TypeInv, ChannelOK, AdapterOK, CachedIsSeen, channelVars,
                pendingVars, deviceVars, Queued
  <2> QED BY <2>1, <2>2, EverythingFrame DEF Progress, Quiet
<1>9. CASE (Receive \/ Shutdown \/ Reconnect) /\ UNCHANGED adapterVars
  <2>1. TypeInv' /\ Everything' = Everything
    BY <1>9, TryReceiveStep, TryReceiveObservationStep, DrainStep, DrainObservationsStep,
       ShutdownStep, ReconnectStep DEF Receive
  <2>2. UNCHANGED deviceVars
    BY <1>9 DEF adapterVars
  <2> QED BY <2>1, <2>2 DEF Progress, Quiet
<1>10. CASE UNCHANGED vars
  <2>1. UNCHANGED <<channelVars, pendingVars>> /\ UNCHANGED deviceVars
    BY <1>10 DEF vars
  <2>2. TypeInv'
    BY <1>10 DEF vars, TypeInv, ChannelOK, AdapterOK, CachedIsSeen, channelVars,
                pendingVars, deviceVars, Queued
  <2> QED BY <2>1, <2>2, EverythingFrame DEF Progress, Quiet
<1> QED BY <1>1, <1>2, <1>3, <1>4, <1>5, <1>6, <1>7, <1>8, <1>9, <1>10, <1>11 DEF Next

-----------------------------------------------------------------------------
(* The evidence of the changes *)

\* The two properties are inductive together with the types.
Reported == EveryChangeIsReported /\ EvidenceAgrees

LEMMA ReportedStep ==
  ASSUME TypeInv, TypeInv', Progress, Reported
  PROVE  Reported'
<1> DEFINE old == Changes(Everything)
           new == Changes(Everything')
<1>1. /\ revision \in Nat
      /\ \A r \in 1..revision : \E e \in old : e.revision = r
      /\ \A e, f \in old :
           /\ e.revision = f.revision => e.value = f.value
           /\ e.revision <= revision
           /\ e.revision = revision => e.value = state
  BY DEF Reported, EveryChangeIsReported, EvidenceAgrees, Everything, TypeInv, AdapterOK
<1>2. SUFFICES /\ \A r \in 1..revision' : \E e \in new : e.revision = r
               /\ \A e, f \in new :
                    /\ e.revision = f.revision => e.value = f.value
                    /\ e.revision <= revision'
                    /\ e.revision = revision' => e.value = state'
  BY DEF Reported, EveryChangeIsReported, EvidenceAgrees, Everything
<1>3. CASE Quiet
  <2>1. new = old /\ revision' = revision /\ state' = state
    BY <1>3 DEF Quiet, deviceVars
  <2> HIDE DEF new, old
  <2> QED BY <1>1, <2>1
<1>4. ASSUME NEW kind, Changed(kind)
      PROVE  /\ \A r \in 1..revision' : \E e \in new : e.revision = r
             /\ \A e, f \in new :
                  /\ e.revision = f.revision => e.value = f.value
                  /\ e.revision <= revision'
                  /\ e.revision = revision' => e.value = state'
  <2> DEFINE added == [kind |-> kind, revision |-> revision', value |-> state']
  <2>1. revision' = revision + 1 /\ new = old \cup {added}
    BY <1>4 DEF Changed
  <2>2. added.revision = revision' /\ added.value = state'
    OBVIOUS
  <2>3. \A e \in old : e.revision \in Nat
    <3>1. old \subseteq Evidences
      <4>1. ToSet(reports) \subseteq Evidences /\ ToSet(observations) \subseteq Evidences
        BY ElementOf DEF TypeInv, ChannelOK
      <4>2. ToSet(pendingReports) \subseteq PendingItems
            /\ ToSet(pendingObservations) \subseteq PendingItems
        BY ElementOf DEF TypeInv, AdapterOK
      <4>3. Carried(pendingReports) \subseteq Evidences
            /\ Carried(pendingObservations) \subseteq Evidences
        BY <4>2 DEF Carried, PendingItems
      <4>4. Everything \subseteq Evidences
        BY <4>1, <4>3, EverythingIs DEF TypeInv, ChannelOK
      <4> QED BY <4>4 DEF Changes
    <3> QED BY <3>1 DEF Evidences
  <2> HIDE DEF new, old, added
  <2>4. \A r \in 1..revision' : \E e \in new : e.revision = r
    <3> TAKE r \in 1..revision'
    <3>1. CASE r \in 1..revision
      BY <1>1, <2>1, <3>1
    <3>2. CASE r = revision'
      BY <2>1, <2>2, <3>2
    <3> QED BY <1>1, <2>1, <3>1, <3>2
  <2>5. ASSUME NEW e \in new, NEW f \in new
        PROVE  /\ e.revision = f.revision => e.value = f.value
               /\ e.revision <= revision'
               /\ e.revision = revision' => e.value = state'
    <3>1. CASE e \in old /\ f \in old
      BY <1>1, <2>1, <2>3, <3>1
    <3>2. CASE e \in old /\ f = added
      <4>1. e.revision \in Nat /\ e.revision <= revision /\ f.revision = revision + 1
        BY <1>1, <2>1, <2>2, <2>3, <3>2
      <4> QED BY <1>1, <2>1, <4>1
    <3>3. CASE e = added /\ f \in old
      <4>1. /\ f.revision \in Nat /\ f.revision <= revision
            /\ e.revision = revision + 1 /\ e.value = state'
        BY <1>1, <2>1, <2>2, <2>3, <3>3
      <4> QED BY <1>1, <2>1, <4>1
    <3>4. CASE e = added /\ f = added
      BY <1>1, <2>1, <2>2, <3>4
    <3> QED BY <2>1, <3>1, <3>2, <3>3, <3>4
  <2> QED BY <2>4, <2>5
<1> QED BY <1>3, <1>4 DEF Progress

LEMMA Initially ==
  ASSUME Init
  PROVE  TypeInv /\ Reported
<1>1. /\ epoch = 1 /\ shutdown = FALSE /\ reports = <<>> /\ observations = <<>>
      /\ seen = {} /\ closedOn = {} /\ now = 0 /\ behavior \in Behaviors
      /\ pendingReports = <<>> /\ pendingObservations = <<>> /\ cachedOutcomes = <<>>
      /\ revision = 0 /\ commands = {} /\ executions = [id \in 1..MaxCommand |-> 0]
  BY DEF Init, ChannelInit
<1>2. Queued = 0 /\ Capacity \in Nat
  BY <1>1, FeedbackAssumption DEF Queued
<1>3. ChannelOK
  <2>1. <<>> \in Seq(Evidences)
    OBVIOUS
  <2>2. reports \in Seq(Evidences) /\ observations \in Seq(Evidences)
    BY <1>1, <2>1
  <2>3. Queued <= Capacity
    BY <1>2
  <2>5. epoch \in Nat
    BY <1>1
  <2>6. shutdown \in BOOLEAN
    BY <1>1
  <2>4. seen \subseteq Evidences /\ closedOn \subseteq Evidences
    BY <1>1
  <2> QED BY <2>2, <2>3, <2>4, <2>5, <2>6 DEF ChannelOK
<1>4. AdapterOK /\ CachedIsSeen
  BY <1>1 DEF AdapterOK, CachedIsSeen
<1>5. Carried(pendingReports) = {} /\ Carried(pendingObservations) = {}
      /\ ToSet(reports) = {} /\ ToSet(observations) = {}
  BY <1>1, EmptyItems DEF Carried
<1>6. Everything = {}
  BY <1>1, <1>5, EverythingIs
<1>7. Changes(InFlight \cup seen \cup closedOn) = {} /\ revision = 0
  BY <1>1, <1>6 DEF Changes, Everything
<1>8. Reported
  <2>1. 1..revision = {}
    BY <1>7
  <2>2. EveryChangeIsReported
    BY <2>1 DEF EveryChangeIsReported
  <2>3. EvidenceAgrees
    BY Zenon, <1>7 DEF EvidenceAgrees
  <2> QED BY <2>2, <2>3 DEF Reported
<1> QED BY <1>3, <1>4, <1>8 DEF TypeInv

\* The inductive invariant of the adapter: the types, what the channel holds,
\* what the cache repeats, and the evidence of the changes.
THEOREM Invariant == Spec => [](TypeInv /\ Reported)
<1>1. Init => TypeInv /\ Reported
  BY Initially
<1>2. TypeInv /\ Reported /\ [Next]_vars => (TypeInv /\ Reported)'
  <2> SUFFICES ASSUME TypeInv, Reported, [Next]_vars
               PROVE  TypeInv' /\ Reported'
    OBVIOUS
  <2>1. TypeInv' /\ Progress
    BY Step
  <2> QED BY <2>1, ReportedStep
<1> QED BY <1>1, <1>2, PTL DEF Spec

\* Every revision of the device has evidence that is pending, queued, received
\* or on a closed channel, for every capacity, latency, number of duplicates
\* and order of delivery (dispatch, observe and deliver_through).
THEOREM ChangesAreReported == Spec => []EveryChangeIsReported
<1>1. TypeInv /\ Reported => EveryChangeIsReported
  BY DEF Reported
<1> QED BY <1>1, Invariant, PTL

\* All evidence of a revision agrees, and that of the newest one is the state
\* of the device (deviceRevisions and deviceState of InMemoryAdapter).
THEOREM EvidenceIsConsistent == Spec => []EvidenceAgrees
<1>1. TypeInv /\ Reported => EvidenceAgrees
  BY DEF Reported
<1> QED BY <1>1, Invariant, PTL

-----------------------------------------------------------------------------
(* Idempotency *)

\* A command that changed the device is in the outcome cache.
OnceInv ==
  NativeIdempotency =>
    \A id \in 1..MaxCommand :
      /\ executions[id] <= 1
      /\ executions[id] = 1 => id \in DOMAIN cachedOutcomes

LEMMA OnceStep ==
  ASSUME TypeInv, OnceInv, [Next]_vars
  PROVE  OnceInv'
<1> SUFFICES ASSUME NativeIdempotency
             PROVE  OnceInv'
  BY DEF OnceInv
<1>1. executions \in [1..MaxCommand -> Nat]
  BY DEF TypeInv, AdapterOK
<1>2. CASE executions' = executions /\ DOMAIN cachedOutcomes \subseteq DOMAIN cachedOutcomes'
  BY <1>1, <1>2 DEF OnceInv
<1>3. ASSUME NEW command \in EffectCommands, Dispatch(command)
      PROVE  OnceInv'
  <2>1. CASE Executes(command, epoch) /\ ~Answered(command)
    <3>1. command.id \notin DOMAIN cachedOutcomes /\ command.id \in 1..MaxCommand
      BY <2>1 DEF Answered, EffectCommands
    <3>2. executions[command.id] = 0
      BY <1>1, <3>1 DEF OnceInv
    <3>3. /\ \A id \in 1..MaxCommand \ {command.id} : executions'[id] = executions[id]
          /\ executions'[command.id] \in {0, 1}
      <4>1. executions' = [executions EXCEPT ![command.id] =
              IF behavior.outcome = "Applied" THEN @ + 1 ELSE @]
        BY <2>1 DEF Executes
      <4>2. CASE behavior.outcome = "Applied"
        <5>1. executions' = [executions EXCEPT ![command.id] = @ + 1]
          BY <4>1, <4>2
        <5> QED BY <1>1, <3>1, <3>2, <5>1
      <4>3. CASE behavior.outcome # "Applied"
        <5>1. executions' = [executions EXCEPT ![command.id] = @]
          BY <4>1, <4>3
        <5> QED BY <1>1, <3>1, <3>2, <5>1
      <4> QED BY <4>2, <4>3
    <3>4. DOMAIN cachedOutcomes' = DOMAIN cachedOutcomes \cup {command.id}
      BY <2>1, CachedDomain DEF Executes
    <3> QED BY <1>1, <3>3, <3>4 DEF OnceInv
  <2>2. ASSUME NEW disposition, Concludes(command, disposition)
        PROVE  OnceInv'
    <3>1. executions' = executions
      BY <2>2 DEF Concludes
    <3>2. DOMAIN cachedOutcomes' = DOMAIN cachedOutcomes \cup {command.id}
      BY <2>2, CachedDomain DEF Concludes
    <3> QED BY <1>2, <3>1, <3>2
  <2>3. CASE Repeats(command)
    BY <1>2, <2>3 DEF Repeats
  <2>4. CASE Unchanged
    BY <1>2, <2>4 DEF Unchanged
  <2>5. \/ Executes(command, epoch) /\ ~Answered(command)
        \/ Concludes(command, "Accepted")
        \/ Concludes(command, "Failed")
        \/ Repeats(command)
        \/ Unchanged
    BY <1>3 DEF Dispatch
  <2> QED BY <2>1, <2>2, <2>3, <2>4, <2>5
<1>4. ASSUME NEW id \in 1..MaxCommand, NEW value \in Values, Issue(id, value)
      PROVE  OnceInv'
  <2> DEFINE command == [id |-> id, value |-> value, issuedAt |-> now]
  <2>1. command \in EffectCommands
    BY DEF EffectCommands, TypeInv, AdapterOK
  <2>2. Dispatch(command)
    BY <1>4 DEF Issue
  <2> HIDE DEF command
  <2> QED BY <1>3, <2>1, <2>2
<1>5. CASE Retry
  <2>1. PICK command \in commands : Dispatch(command)
    BY <1>5 DEF Retry
  <2>2. command \in EffectCommands
    BY DEF TypeInv, AdapterOK
  <2> QED BY <1>3, <2>1, <2>2
<1>7. CASE Confuse
  <2>1. PICK command \in commands, value \in Values : Dispatch([command EXCEPT !.value = value])
    BY <1>7 DEF Confuse
  <2> DEFINE other == [command EXCEPT !.value = value]
  <2>2. other \in EffectCommands
    BY DEF TypeInv, AdapterOK, EffectCommands
  <2> HIDE DEF other
  <2>3. Dispatch(other)
    BY <2>1 DEF other
  <2> QED BY <1>3, <2>2, <2>3
<1>6. \/ \E id \in 1..MaxCommand, value \in Values : Issue(id, value)
      \/ Retry \/ Confuse
      \/ executions' = executions /\ cachedOutcomes' = cachedOutcomes
  BY DEF Next, vars, SetBehavior, Observe, DeliverThrough, DeliverReport, DeliverObservation,
         DeliveryUnchanged, Tick, adapterVars
<1> QED BY <1>2, <1>4, <1>5, <1>6, <1>7

\* With native idempotency no command changes the device twice: a retry, also
\* one after a crash, a refusal or a lost answer, is answered from the outcome
\* cache (cache_outcome and its lookup in dispatch).
THEOREM NoSecondExecution == Spec => []ExecutedOnce
<1>1. Init => OnceInv
  BY DEF Init, OnceInv
<1>2. TypeInv /\ OnceInv /\ [Next]_vars => OnceInv'
  BY OnceStep
<1>3. OnceInv => ExecutedOnce
  BY DEF OnceInv, ExecutedOnce
<1>4. TypeInv /\ Reported => TypeInv
  OBVIOUS
<1> QED BY <1>1, <1>2, <1>3, <1>4, Invariant, PTL DEF Spec

-----------------------------------------------------------------------------
(* Delivery *)

\* The observations follow when no report is left, and nothing is dispatched
\* or observed during a call.
CallInv == delivery.phase = "observations" => pendingReports = <<>>

LEMMA NoneDue ==
  ASSUME NEW through
  PROVE  DueItems(<<>>, through) = 0
<1>1. {i \in DOMAIN <<>> : Due(<<>>[i], through)} = {}
  OBVIOUS
<1> QED BY <1>1, FS_EmptySet DEF DueItems

\* Outside the loops a call neither goes on nor ends, and the reports a call
\* has left stay as they are.
LEMMA CallFrame ==
  ASSUME [Next]_vars, ~DeliverReport, ~DeliverObservation
  PROVE  \/ DeliverThrough
         \/ delivery' = delivery /\ (delivery = NoDelivery \/ pendingReports' = pendingReports)
<1>1. ASSUME NEW b \in Behaviors, SetBehavior(b)
      PROVE  delivery' = delivery /\ delivery = NoDelivery
  BY <1>1 DEF SetBehavior
<1>2. ASSUME NEW command, Dispatch(command)
      PROVE  delivery' = delivery /\ delivery = NoDelivery
  BY <1>2 DEF Dispatch
<1>3. ASSUME NEW value, NEW due, Observe(value, due)
      PROVE  delivery' = delivery /\ delivery = NoDelivery
  BY <1>3 DEF Observe
<1>4. CASE Tick
  BY <1>4 DEF Tick, pendingVars
<1>5. CASE (Receive \/ Shutdown \/ Reconnect) /\ UNCHANGED adapterVars
  BY <1>5 DEF adapterVars, pendingVars
<1>6. CASE UNCHANGED vars
  BY <1>6 DEF vars, pendingVars
<1> QED BY <1>1, <1>2, <1>3, <1>4, <1>5, <1>6, Zenon DEF Next, Issue, Retry, Confuse

LEMMA CallStep ==
  ASSUME CallInv, [Next]_vars
  PROVE  CallInv'
<1>1. NoDelivery.phase = "none"
  BY DEF NoDelivery
<1>2. CASE DeliverThrough
  <2>1. delivery'.phase = "reports"
    BY <1>2 DEF DeliverThrough
  <2> QED BY <2>1 DEF CallInv
<1>3. CASE DeliverReport
  <2>1. CASE DueItems(pendingReports, delivery.through) = 0
    <3>1. /\ pendingReports # <<>> => delivery' = NoDelivery
          /\ pendingReports' = pendingReports
      BY <1>3, <2>1 DEF DeliverReport, pendingVars
    <3> QED BY <1>1, <3>1 DEF CallInv
  <2>2. CASE DueItems(pendingReports, delivery.through) # 0
    <3>1. delivery.phase = "reports" /\ delivery' \in {NoDelivery, delivery}
      BY <1>3, <2>2 DEF DeliverReport, Continues
    <3> QED BY <1>1, <3>1 DEF CallInv
  <2> QED BY <2>1, <2>2
<1>4. CASE DeliverObservation
  <2>1. pendingReports' = pendingReports /\ delivery.phase = "observations"
    BY <1>4 DEF DeliverObservation, pendingVars
  <2> QED BY <2>1 DEF CallInv
<1>5. CASE ~DeliverThrough /\ ~DeliverReport /\ ~DeliverObservation
  BY <1>1, <1>5, CallFrame DEF CallInv
<1> QED BY <1>2, <1>3, <1>4, <1>5

\* For any number of commands and observations, a call of deliver_through
\* leaves an item that was due behind only when the channel is full, or the item
\* is an observation and a report that is not due yet is pending.
THEOREM NothingDueIsForgotten == Spec => [][LeavesOnlyBlocked]_vars
<1>1. Init => CallInv
  BY DEF Init, CallInv, NoDelivery
<1>2. CallInv /\ [Next]_vars => CallInv'
  BY CallStep
<1>3. CallInv /\ [Next]_vars => [LeavesOnlyBlocked]_vars
  <2> SUFFICES ASSUME CallInv, [Next]_vars, delivery # NoDelivery, delivery' = NoDelivery
               PROVE  \/ Queued >= Capacity /\ ~shutdown
                      \/ /\ DueItems(pendingReports', delivery.through) = 0
                         /\ pendingReports' = <<>> =>
                              DueItems(pendingObservations', delivery.through) = 0
    BY DEF LeavesOnlyBlocked
  <2>1. ASSUME NEW sender, Continues(sender) = NoDelivery
        PROVE  Queued >= Capacity /\ ~shutdown
    <3>1. SendResult(sender, Queued) = "Full"
      BY <2>1 DEF Continues
    <3> DEFINE queued == Queued
    <3>2. SendResult(sender, queued) = "Full"
      BY <3>1
    <3> HIDE DEF queued
    <3>3. ~shutdown /\ queued >= Capacity
      BY <3>2 DEF SendResult
    <3> QED BY <3>3 DEF queued
  <2>2. CASE DeliverReport
    <3>1. CASE DueItems(pendingReports, delivery.through) = 0
      <4>1. pendingReports # <<>> /\ pendingReports' = pendingReports
        BY <2>2, <3>1 DEF DeliverReport, pendingVars, NoDelivery
      <4> QED BY <3>1, <4>1
    <3>2. CASE DueItems(pendingReports, delivery.through) # 0
      <4>1. \E sender : Continues(sender) = NoDelivery
        BY <2>2, <3>2, Zenon DEF DeliverReport
      <4> QED BY <2>1, <4>1
    <3> QED BY <3>1, <3>2
  <2>3. CASE DeliverObservation
    <3>1. CASE DueItems(pendingObservations, delivery.through) = 0
      <4>1. /\ pendingReports' = <<>>
            /\ pendingObservations' = pendingObservations
        BY <2>3, <3>1 DEF DeliverObservation, pendingVars, CallInv
      <4> QED BY <3>1, <4>1, NoneDue
    <3>2. CASE DueItems(pendingObservations, delivery.through) # 0
      <4>1. \E sender : Continues(sender) = NoDelivery
        BY <2>3, <3>2, Zenon DEF DeliverObservation
      <4> QED BY <2>1, <4>1
    <3> QED BY <3>1, <3>2
  <2>4. CASE DeliverThrough
    BY <2>4 DEF DeliverThrough
  <2> QED BY <2>2, <2>3, <2>4, CallFrame
<1> QED BY <1>1, <1>2, <1>3, PTL DEF Spec
=============================================================================
