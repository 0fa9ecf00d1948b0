--------------------- MODULE IdempotentDispatcherProofs ---------------------
(* Proofs about IdempotentDispatcher, for every value of its constants. *)
EXTENDS IdempotentDispatcher, FunctionTheorems, FiniteSetTheorems,
        SequenceTheorems, TLAPS

-----------------------------------------------------------------------------
(* The inductive invariant *)

\* The maps from some of the keys K to T.
MapsTo(K, T) == UNION {[S -> T] : S \in SUBSET K}

\* TypeOK, in parts.
MapsTyped ==
  /\ memory \in MapsTo(Keys, Outcome)
  /\ recency \in Seq(Keys)
  /\ uncertain \in MapsTo(Keys, Commands)

FlightTyped ==
  /\ inFlight \in MapsTo(Keys, 1..Len(entries))
  /\ entries \in Seq(Entry)
  /\ entry \in [Threads -> 0..Len(entries)]

StoreTyped == persisted \in MapsTo(Keys, Outcome)

LocalTyped ==
  /\ pc \in [Threads -> {"idle", "enter", "waitEntry", "waitSlot", "find", "call",
                         "store", "remember", "fail", "notify"}]
  /\ cmd \in [Threads -> Commands \cup {None}]
  /\ got \in [Threads -> Outcome \cup {None}]
  /\ woken \subseteq Threads

HistoryTyped ==
  /\ executed \in [Keys -> Nat]
  /\ forgotten \in [Keys -> Nat]
  /\ answers \subseteq Outcome
  /\ calls \in 0..MaxCalls
  /\ resets \in 0..MaxResets

\* A thread inside dispatch has a command.
Busy == \A th \in Threads : pc[th] # "idle" => cmd[th] \in Commands

\* A leading thread's key is in flight under the thread's own entry, no two
\* keys share an entry, an entry in flight is not completed, and there are no
\* more of them than slots.
Flights ==
  /\ \A th \in Threads :
       Leading(th) => Key(th) \in DOMAIN inFlight /\ entry[th] = inFlight[Key(th)]
  /\ \A k, l \in DOMAIN inFlight : inFlight[k] = inFlight[l] => k = l
  /\ \A k \in DOMAIN inFlight : ~entries[inFlight[k]].completed
  /\ IsFiniteSet(DOMAIN inFlight)
  /\ Cardinality(DOMAIN inFlight) <= MaxConcurrentDispatches

\* A completed entry holds an outcome or a failure, a waiting duplicate has an
\* entry, and a leader that stores or remembers has an outcome.
EntriesTold ==
  /\ \A i \in 1..Len(entries) :
       entries[i].completed => entries[i].failed \/ entries[i].outcome # None
  /\ \A th \in Threads : pc[th] = "waitEntry" => entry[th] # 0
  /\ \A th \in Threads : pc[th] \in {"store", "remember"} => got[th] # None

\* recency lists the keys of memory once each and is no longer than the limit,
\* which the map of uncertain keys respects too.
Caches ==
  /\ Len(recency) <= MaxMemoryOutcomes
  /\ \A i, j \in 1..Len(recency) : recency[i] = recency[j] => i = j
  /\ \A i \in 1..Len(recency) : recency[i] \in DOMAIN memory
  /\ \A k \in DOMAIN memory : \E i \in 1..Len(recency) : recency[i] = k
  /\ IsFiniteSet(DOMAIN uncertain)
  /\ Cardinality(DOMAIN uncertain) <= MaxMemoryOutcomes

Structure ==
  TypeOK /\ Busy /\ Flights /\ EntriesTold /\ SingleFlight /\ Caches /\ NoLostWakeup

\* A key of which nothing is known, or whose leader has still to call, was not
\* executed more often than it was forgotten.
Counted ==
  /\ ReexecutedOnlyIfForgotten
  /\ \A k \in Keys :
       k \notin DOMAIN memory \cup DOMAIN uncertain \cup DOMAIN inFlight
         => executed[k] <= forgotten[k]
  /\ \A th \in Threads :
       pc[th] \in {"find", "call"} => executed[Key(th)] <= forgotten[Key(th)]

\* A leader calls the adapter, and stores, only for a key that is not stored;
\* without a persistent cache nothing is; an outcome is that of its command.
Stored ==
  /\ \A th \in Threads : pc[th] \in {"call", "store"} => Key(th) \notin DOMAIN persisted
  /\ \A th \in Threads : pc[th] \in {"find", "store"} => Persistent
  /\ ~Persistent => DOMAIN persisted = {}
  /\ \A th \in Threads : pc[th] = "idle" => got[th] = None
  /\ \A th \in Threads : got[th] # None => got[th].command = cmd[th]

\* o is what a persistent cache p has for the key of its command.
StoredIn(p, o) ==
  KeyOf[o.command] \in DOMAIN p /\ p[KeyOf[o.command]] = o

\* Whatever can still be answered to a caller is what is stored.
Agreed ==
  Persistent =>
    /\ \A k \in DOMAIN memory : StoredIn(persisted, memory[k])
    /\ \A i \in 1..Len(entries) :
         entries[i].outcome # None => StoredIn(persisted, entries[i].outcome)
    /\ \A th \in Threads :
         pc[th] \in {"remember", "notify"} /\ got[th] # None => StoredIn(persisted, got[th])
    /\ \A o \in answers : StoredIn(persisted, o)

IInv == Structure /\ Counted /\ Stored /\ Agreed
-----------------------------------------------------------------------------
(* Lemmas *)

\* TypeOK is the conjunction of its parts.
LEMMA TypeParts ==
  TypeOK <=> MapsTyped /\ FlightTyped /\ StoreTyped /\ LocalTyped /\ HistoryTyped
BY DEF TypeOK, MapsTyped, FlightTyped, StoreTyped, LocalTyped,
  HistoryTyped, MapsTo

\* What the types of the maps say of their domains and members.
LEMMA TypeFacts ==
  ASSUME TypeOK
  PROVE  /\ DOMAIN memory \subseteq Keys
         /\ \A k \in DOMAIN memory : memory[k] \in Outcome
         /\ memory = [k \in DOMAIN memory |-> memory[k]]
         /\ DOMAIN uncertain \subseteq Keys
         /\ \A k \in DOMAIN uncertain : uncertain[k] \in Commands
         /\ uncertain = [k \in DOMAIN uncertain |-> uncertain[k]]
         /\ DOMAIN inFlight \subseteq Keys
         /\ \A k \in DOMAIN inFlight : inFlight[k] \in 1..Len(entries)
         /\ inFlight = [k \in DOMAIN inFlight |-> inFlight[k]]
         /\ DOMAIN persisted \subseteq Keys
         /\ \A k \in DOMAIN persisted : persisted[k] \in Outcome
         /\ persisted = [k \in DOMAIN persisted |-> persisted[k]]
BY DEF TypeOK

\* A map from some of K to T, as the type invariant writes it.
LEMMA PartialMap ==
  ASSUME NEW K, NEW T, NEW f, DOMAIN f \subseteq K,
         f = [x \in DOMAIN f |-> f[x]], \A x \in DOMAIN f : f[x] \in T
  PROVE  f \in MapsTo(K, T)
<1>1. f \in [DOMAIN f -> T]
  OBVIOUS
<1> QED
  BY <1>1 DEF MapsTo

\* The map without keys is such a map.
LEMMA NothingTyped ==
  ASSUME NEW K, NEW T
  PROVE  Nothing \in MapsTo(K, T)
<1>1. Nothing \in [{} -> T]
  BY DEF Nothing
<1> QED
  BY <1>1 DEF MapsTo

\* Put adds or replaces one member of a map.
LEMMA PutTyped ==
  ASSUME NEW K, NEW T, NEW f \in MapsTo(K, T),
         NEW k \in K, NEW v \in T
  PROVE  Put(f, k, v) \in MapsTo(K, T)
<1>1. PICK S \in SUBSET K : f \in [S -> T]
  BY DEF MapsTo
<1>2. Put(f, k, v) \in [S \cup {k} -> T]
  BY <1>1 DEF Put
<1> QED
  BY <1>2 DEF MapsTo

\* Without drops members of a map.
LEMMA WithoutTyped ==
  ASSUME NEW K, NEW T, NEW f \in MapsTo(K, T), NEW R
  PROVE  Without(f, R) \in MapsTo(K, T)
<1>1. PICK S \in SUBSET K : f \in [S -> T]
  BY DEF MapsTo
<1>2. Without(f, R) \in [S \ R -> T]
  BY <1>1 DEF Without
<1> QED
  BY <1>2 DEF MapsTo

\* The entry of a leading thread exists.
LEMMA LeaderHasEntry ==
  ASSUME TypeOK, Busy, Flights, NEW th \in Threads, Leading(th)
  PROVE  entry[th] \in 1..Len(entries) /\ Key(th) \in Keys
BY TypeFacts DEF Flights

\* Changing one entry leaves the others and their number alone.
LEMMA EntryReplaced ==
  ASSUME NEW s \in Seq(Entry), NEW e \in 1..Len(s), NEW r \in Entry
  PROVE  /\ [s EXCEPT ![e] = r] \in Seq(Entry)
         /\ Len([s EXCEPT ![e] = r]) = Len(s)
         /\ [s EXCEPT ![e] = r][e] = r
         /\ \A i \in 1..Len(s) : i # e => [s EXCEPT ![e] = r][i] = s[i]
BY ExceptSeq

\* Splicing position i of a sequence to its front permutes it.
LEMMA SpliceFront ==
  ASSUME NEW K, NEW s \in Seq(K), NEW i \in 1..Len(s)
  PROVE  LET t == <<s[i]>> \o SubSeq(s, 1, i - 1) \o SubSeq(s, i + 1, Len(s))
         IN  /\ t \in Seq(K)
             /\ Len(t) = Len(s)
             /\ \A j \in 1..Len(s) :
                  t[j] = IF j = 1 THEN s[i] ELSE IF j <= i THEN s[j - 1] ELSE s[j]
<1> DEFINE a == SubSeq(s, 1, i - 1)
           b == SubSeq(s, i + 1, Len(s))
<1>1. Len(s) \in Nat /\ i \in 1..Len(s) /\ s[i] \in K
  BY LenProperties, ElementOfSeq
<1>2. a \in Seq(K) /\ Len(a) = i - 1 /\ \A j \in 1..(i - 1) : a[j] = s[j]
  BY <1>1, SubSeqProperties
<1>3. b \in Seq(K) /\ Len(b) = Len(s) - i /\ \A j \in 1..(Len(s) - i) : b[j] = s[i + j]
  BY <1>1, SubSeqProperties
<1>4. <<s[i]>> \in Seq(K) /\ Len(<<s[i]>>) = 1 /\ <<s[i]>>[1] = s[i]
  BY <1>1
<1> HIDE DEF a, b
<1> DEFINE c == <<s[i]>> \o a
<1>5. /\ c \in Seq(K)
      /\ Len(c) = i
      /\ \A j \in 1..i : c[j] = IF j = 1 THEN s[i] ELSE s[j - 1]
  BY <1>1, <1>2, <1>4, ConcatProperties
<1> HIDE DEF c
<1>6. /\ c \o b \in Seq(K)
      /\ Len(c \o b) = Len(s)
      /\ \A j \in 1..Len(s) :
           (c \o b)[j] = IF j = 1 THEN s[i] ELSE IF j <= i THEN s[j - 1] ELSE s[j]
  <2>1. /\ c \o b \in Seq(K)
        /\ Len(c \o b) = Len(c) + Len(b)
        /\ \A j \in 1..(Len(c) + Len(b)) :
             (c \o b)[j] = IF j <= Len(c) THEN c[j] ELSE b[j - Len(c)]
    <3>1. c \in Seq(K)
      BY <1>5
    <3>2. b \in Seq(K)
      BY <1>3
    <3> QED
      BY <3>1, <3>2, ConcatProperties
  <2>2. Len(c) + Len(b) = Len(s)
    BY <1>1, <1>3, <1>5
  <2>3. ASSUME NEW j \in 1..Len(s), j <= i
        PROVE  (c \o b)[j] = IF j = 1 THEN s[i] ELSE IF j <= i THEN s[j - 1] ELSE s[j]
    BY <1>1, <1>5, <2>1, <2>2, <2>3
  <2>4. ASSUME NEW j \in 1..Len(s), i < j
        PROVE  (c \o b)[j] = IF j = 1 THEN s[i] ELSE IF j <= i THEN s[j - 1] ELSE s[j]
    <3>1. (c \o b)[j] = b[j - i] /\ j - i \in 1..(Len(s) - i)
      BY <1>1, <1>5, <2>1, <2>2, <2>4
    <3>2. b[j - i] = s[i + (j - i)] /\ i + (j - i) = j
      BY <1>1, <1>3, <3>1
    <3> QED
      BY <1>1, <2>4, <3>1, <3>2
  <2> QED
    BY <1>1, <2>1, <2>2, <2>3, <2>4
<1> QED
  BY <1>6 DEF a, b, c

\* Moving a key to the front, or adding it there, lists every key once.
LEMMA FrontedFacts ==
  ASSUME TypeOK, Caches, NEW k \in Keys
  PROVE  /\ Fronted(k) \in Seq(Keys)
         /\ Len(Fronted(k)) = IF k \in DOMAIN memory THEN Len(recency) ELSE Len(recency) + 1
         /\ Fronted(k)[1] = k
         /\ \A i, j \in 1..Len(Fronted(k)) : Fronted(k)[i] = Fronted(k)[j] => i = j
         /\ \A i \in 1..Len(Fronted(k)) : Fronted(k)[i] \in DOMAIN memory \cup {k}
         /\ \A x \in DOMAIN memory \cup {k} :
              \E i \in 1..Len(Fronted(k)) : Fronted(k)[i] = x
<1>1. recency \in Seq(Keys) /\ Len(recency) \in Nat /\ DOMAIN recency = 1..Len(recency)
  BY LenProperties DEF TypeOK
<1>2. CASE k \in DOMAIN memory
  <2> DEFINE p == CHOOSE i \in DOMAIN recency : recency[i] = k
             t == <<recency[p]>> \o SubSeq(recency, 1, p - 1)
                    \o SubSeq(recency, p + 1, Len(recency))
  <2>1. p \in 1..Len(recency) /\ recency[p] = k
    BY <1>1, <1>2 DEF Caches
  <2>2. Fronted(k) = t
    BY <1>2, <2>1 DEF Fronted
  <2> HIDE DEF p
  <2>3. /\ t \in Seq(Keys)
        /\ Len(t) = Len(recency)
        /\ \A j \in 1..Len(recency) :
             t[j] = IF j = 1 THEN k ELSE IF j <= p THEN recency[j - 1] ELSE recency[j]
    <3>1. recency \in Seq(Keys)
      BY <1>1
    <3>2. p \in 1..Len(recency)
      BY <2>1
    <3>3. /\ t \in Seq(Keys)
          /\ Len(t) = Len(recency)
          /\ \A j \in 1..Len(recency) :
               t[j] = IF j = 1 THEN recency[p]
                      ELSE IF j <= p THEN recency[j - 1] ELSE recency[j]
      BY <3>1, <3>2, SpliceFront
    <3>4. recency[p] = k
      BY <2>1
    <3> HIDE DEF t
    <3> QED
      BY <3>3, <3>4
  <2> HIDE DEF t
  <2> DEFINE from(j) == IF j = 1 THEN p ELSE IF j <= p THEN j - 1 ELSE j
  <2>a. \A j \in 1..Len(t) : from(j) \in 1..Len(recency) /\ t[j] = recency[from(j)]
    BY <1>1, <2>1, <2>3
  <2>b. \A i, j \in 1..Len(t) : from(i) = from(j) => i = j
    BY <1>1, <2>1, <2>3
  <2> HIDE DEF from
  <2>4. \A i, j \in 1..Len(t) : t[i] = t[j] => i = j
    BY <2>a, <2>b DEF Caches
  <2>5. \A i \in 1..Len(t) : t[i] \in DOMAIN memory
    BY <2>a DEF Caches
  <2>6. ASSUME NEW x \in DOMAIN memory
        PROVE  \E i \in 1..Len(t) : t[i] = x
    <3>1. PICK i \in 1..Len(recency) : recency[i] = x
      BY DEF Caches
    <3>2. t[IF i = p THEN 1 ELSE IF i < p THEN i + 1 ELSE i] = x
      BY <1>1, <2>1, <2>3, <3>1
    <3>3. (IF i = p THEN 1 ELSE IF i < p THEN i + 1 ELSE i) \in 1..Len(t)
      BY <1>1, <2>1, <2>3, <3>1
    <3> QED
      BY <3>2, <3>3
  <2>7. t[1] = k
    BY <1>1, <2>1, <2>3
  <2> QED
    BY <1>2, <2>2, <2>3, <2>4, <2>5, <2>6, <2>7
<1>3. CASE k \notin DOMAIN memory
  <2> DEFINE t == <<k>> \o recency
  <2>1. Fronted(k) = t
    BY <1>3 DEF Fronted
  <2>2. <<k>> \in Seq(Keys) /\ Len(<<k>>) = 1 /\ <<k>>[1] = k
    OBVIOUS
  <2>3. /\ t \in Seq(Keys)
        /\ Len(t) = Len(recency) + 1
        /\ \A j \in 1..(Len(recency) + 1) : t[j] = IF j = 1 THEN k ELSE recency[j - 1]
    BY <1>1, <2>2, ConcatProperties
  <2> HIDE DEF t
  <2>4. \A i, j \in 1..Len(t) : t[i] = t[j] => i = j
    BY <1>1, <1>3, <2>3 DEF Caches
  <2>5. \A i \in 1..Len(t) : t[i] \in DOMAIN memory \cup {k}
    BY <1>1, <2>3 DEF Caches
  <2>6. ASSUME NEW x \in DOMAIN memory
        PROVE  \E i \in 1..Len(t) : t[i] = x
    <3>1. PICK i \in 1..Len(recency) : recency[i] = x
      BY DEF Caches
    <3>2. t[i + 1] = x /\ i + 1 \in 1..Len(t)
      BY <1>1, <2>3, <3>1
    <3> QED
      BY <3>2
  <2>7. t[1] = k /\ 1 \in 1..Len(t)
    BY <1>1, <2>3
  <2> QED
    BY <1>3, <2>1, <2>3, <2>4, <2>5, <2>6, <2>7
<1> QED
  BY <1>2, <1>3

\* The eviction of remember keeps a prefix of that list within the limit.
LEMMA KeptFacts ==
  ASSUME TypeOK, Caches, NEW k \in Keys
  PROVE  /\ Kept(k) \in Seq(Keys)
         /\ Len(Kept(k)) <= MaxMemoryOutcomes
         /\ \A i, j \in 1..Len(Kept(k)) : Kept(k)[i] = Kept(k)[j] => i = j
         /\ \A i \in 1..Len(Kept(k)) : Kept(k)[i] \in DOMAIN memory \cup {k}
<1> DEFINE all == Fronted(k)
           n == IF Len(all) < MaxMemoryOutcomes THEN Len(all) ELSE MaxMemoryOutcomes
<1>1. all \in Seq(Keys) /\ Len(all) \in Nat
  BY FrontedFacts, LenProperties
<1>2. n \in 0..Len(all) /\ n <= MaxMemoryOutcomes
  BY <1>1, CapacityAssumption
<1>3. \A i \in 1..Len(all) : all[i] \in Keys
  BY <1>1, ElementOfSeq
<1> HIDE DEF all, n
<1> DEFINE front == SubSeq(all, 1, n)
<1>4. front \in Seq(Keys) /\ Len(front) = n /\ \A i \in 1..n : front[i] = all[i]
  BY <1>1, <1>2, <1>3, SubSeqProperties
<1>5. Kept(k) = front
  BY DEF Kept, all, n
<1> HIDE DEF front
<1>6. /\ \A i, j \in 1..Len(all) : all[i] = all[j] => i = j
      /\ \A i \in 1..Len(all) : all[i] \in DOMAIN memory \cup {k}
  BY FrontedFacts DEF all
<1> QED
  BY <1>1, <1>2, <1>4, <1>5, <1>6

-----------------------------------------------------------------------------
(* Every step keeps the types *)

\* The states of the threads keep their types.
LEMMA LocalStep ==
  ASSUME TypeOK, Busy, Next
  PROVE  LocalTyped'
<1> USE KeyAssumption, NoneAssumption, CapacityAssumption
<1>1. ASSUME UNCHANGED <<pc, cmd, got, woken>>
      PROVE  LocalTyped'
  BY <1>1, TypeParts DEF LocalTyped
<1>2. ASSUME NEW th \in Threads, ReturnCached(th)
      PROVE  LocalTyped'
  BY <1>2 DEF ReturnCached, AtLoop, Answer, Leave, flight, bounds, LocalTyped,
    TypeOK, Busy
<1>3. ASSUME NEW th \in Threads, RethrowUncertain(th)
      PROVE  LocalTyped'
  BY <1>3 DEF RethrowUncertain, AtLoop, Leave, maps, flight, history, bounds,
    LocalTyped, TypeOK, Busy
<1>4. ASSUME NEW th \in Threads, WaitForLeader(th)
      PROVE  LocalTyped'
  BY <1>4 DEF WaitForLeader, Unknown, AtLoop, maps, flight, history, bounds,
    LocalTyped, TypeOK, Busy
<1>5. ASSUME NEW th \in Threads, WaitForSlot(th)
      PROVE  LocalTyped'
  BY <1>5 DEF WaitForSlot, Unknown, AtLoop, maps, flight, history, bounds,
    LocalTyped, TypeOK, Busy
<1>6. ASSUME NEW th \in Threads, Lead(th)
      PROVE  LocalTyped'
  BY <1>6 DEF Lead, Unknown, AtLoop, NewEntry, Put, maps, history, bounds,
    LocalTyped, TypeOK, Busy
<1>7. ASSUME NEW th \in Threads, SleepAgain(th)
      PROVE  LocalTyped'
  BY <1>7 DEF SleepAgain, Waiting, maps, flight, history, bounds, LocalTyped,
    TypeOK, Busy
<1>8. ASSUME NEW th \in Threads, TakeOutcome(th)
      PROVE  LocalTyped'
  BY <1>8 DEF TakeOutcome, Answer, Leave, maps, flight, bounds, LocalTyped,
    TypeOK, Busy
<1>9. ASSUME NEW th \in Threads, FindStored(th)
      PROVE  LocalTyped'
  <2>1. CASE persisted[Key(th)].command = cmd[th]
    BY <1>9, TypeFacts, <2>1 DEF FindStored, Goto, Key, Busy, TypeOK, LocalTyped
  <2>2. CASE persisted[Key(th)].command # cmd[th]
    BY <1>9, TypeFacts, <2>2 DEF FindStored, Goto, Key, Busy, TypeOK, LocalTyped
  <2> QED
    BY <2>1, <2>2
<1>10. ASSUME NEW th \in Threads, FindNothing(th)
      PROVE  LocalTyped'
  BY <1>10 DEF FindNothing, Goto, maps, flight, history, bounds, LocalTyped,
    TypeOK, Busy
<1>11. ASSUME NEW th \in Threads, AdapterReturns(th)
      PROVE  LocalTyped'
  <2>1. PICK result \in Results :
          got' = [got EXCEPT ![th] = [command |-> cmd[th], result |-> result]]
    BY <1>11 DEF AdapterReturns
  <2>2. [command |-> cmd[th], result |-> result] \in Outcome
    BY <1>11 DEF AdapterReturns, Busy, Outcome
  <2> QED
    BY <1>11, <2>1, <2>2 DEF AdapterReturns, Goto, TypeOK, LocalTyped
<1>12. ASSUME NEW th \in Threads, Store(th)
      PROVE  LocalTyped'
  BY <1>12 DEF Store, Put, Goto, maps, flight, history, bounds, LocalTyped,
    TypeOK, Busy
<1>13. ASSUME NEW th \in Threads, Remember(th)
      PROVE  LocalTyped'
  BY <1>13 DEF Remember, RememberInMemory, Without, Bump, Goto, bounds,
    LocalTyped, TypeOK, Busy
<1>14. ASSUME NEW th \in Threads, FinishFailure(th)
      PROVE  LocalTyped'
  BY <1>14 DEF FinishFailure, Without, Put, Bump, Goto, bounds, LocalTyped,
    TypeOK, Busy
<1>15. ASSUME NEW th \in Threads, Notify(th)
      PROVE  LocalTyped'
  BY <1>15 DEF Notify, Waiting, Leave, maps, flight, bounds, LocalTyped,
    TypeOK, Busy
<1>16. ASSUME NEW th \in Threads, FindThrows(th)
      PROVE  LocalTyped'
  BY <1>16 DEF FindThrows, Goto, maps, flight, history, bounds, LocalTyped,
    TypeOK, Busy
<1>17. ASSUME NEW th \in Threads, AdapterThrows(th)
      PROVE  LocalTyped'
  BY <1>17 DEF AdapterThrows, Bump, Goto, maps, flight, bounds, LocalTyped,
    TypeOK, Busy
<1>18. ASSUME NEW th \in Threads, StoreThrows(th)
      PROVE  LocalTyped'
  BY <1>18 DEF StoreThrows, Put, Goto, maps, flight, history, bounds,
    LocalTyped, TypeOK, Busy
<1>19. ASSUME NEW th \in Threads, RememberThrows(th)
      PROVE  LocalTyped'
  BY <1>19 DEF RememberThrows, Goto, maps, history, bounds, LocalTyped, TypeOK,
    Busy
<1>20. ASSUME NEW th \in Threads, WakeSpuriously(th)
      PROVE  LocalTyped'
  BY <1>20 DEF WakeSpuriously, Waiting, maps, flight, history, bounds,
    LocalTyped, TypeOK, Busy
<1>21. ASSUME NEW th \in Threads, NEW c \in Commands, Call(th, c)
      PROVE  LocalTyped'
  BY <1>21 DEF Call, maps, flight, history, LocalTyped, TypeOK, Busy
<1>22. CASE ClearMemory
  BY <1>1, <1>22 DEF ClearMemory, flight, local
<1>23. CASE Restart
  BY <1>23 DEF Restart, Nothing, Bump, LocalTyped, TypeOK, Busy
<1> QED
  BY <1>2, <1>3, <1>4, <1>5, <1>6, <1>7, <1>8, <1>9, <1>10, <1>11, <1>12,
    <1>13, <1>14, <1>15, <1>16, <1>17, <1>18, <1>19, <1>20, <1>21, <1>22, <1>23
    DEF Next, Step, Fault

\* The history variables keep their types.
LEMMA HistoryStep ==
  ASSUME TypeOK, Busy, EntriesTold, Next
  PROVE  HistoryTyped'
<1> USE KeyAssumption, NoneAssumption, CapacityAssumption
<1>1. ASSUME UNCHANGED <<executed, forgotten, answers, calls, resets>>
      PROVE  HistoryTyped'
  BY <1>1, TypeParts DEF HistoryTyped
<1>2. ASSUME NEW th \in Threads,
             \/ RethrowUncertain(th) \/ WaitForLeader(th) \/ WaitForSlot(th) \/
               Lead(th) \/ SleepAgain(th) \/ FindStored(th) \/ FindNothing(th)
               \/ Store(th) \/ FindThrows(th) \/ StoreThrows(th) \/
               RememberThrows(th) \/ WakeSpuriously(th)
      PROVE  HistoryTyped'
  BY <1>1, <1>2 DEF RethrowUncertain, Leave, maps, flight, history, bounds,
    WaitForLeader, WaitForSlot, Lead, SleepAgain, FindStored, Goto,
    FindNothing, Store, FindThrows, StoreThrows, RememberThrows, WakeSpuriously
<1>3. ASSUME NEW th \in Threads, ReturnCached(th)
      PROVE  HistoryTyped'
  BY <1>3, TypeFacts DEF ReturnCached, Answer, bounds, TypeOK, HistoryTyped
<1>4. ASSUME NEW th \in Threads, TakeOutcome(th)
      PROVE  HistoryTyped'
  <2> DEFINE e == entries[entry[th]]
  <2>1. entry[th] \in 1..Len(entries)
    BY <1>4 DEF TakeOutcome, TypeOK, EntriesTold
  <2>2. e \in Entry
    BY <2>1, ElementOfSeq DEF TypeOK
  <2>3. CASE e.failed
    BY <1>4, <2>3 DEF TakeOutcome, bounds, TypeOK, HistoryTyped
  <2>4. CASE ~e.failed
    <3>1. e.outcome \in Outcome
      BY <1>4, <2>2, <2>4 DEF TakeOutcome, Entry
    <3> QED
      BY <1>4, <2>4, <3>1 DEF TakeOutcome, Answer, bounds, TypeOK, HistoryTyped
  <2> QED
    BY <2>3, <2>4
<1>5. ASSUME NEW th \in Threads, AdapterReturns(th)
      PROVE  HistoryTyped'
  BY <1>5 DEF AdapterReturns, Bump, Goto, maps, flight, bounds, HistoryTyped,
    TypeOK, Busy, EntriesTold
<1>6. ASSUME NEW th \in Threads, Remember(th)
      PROVE  HistoryTyped'
  BY <1>6 DEF Remember, RememberInMemory, Without, Bump, Goto, bounds,
    HistoryTyped, TypeOK, Busy, EntriesTold
<1>7. ASSUME NEW th \in Threads, FinishFailure(th)
      PROVE  HistoryTyped'
  BY <1>7 DEF FinishFailure, Without, Put, Bump, Goto, bounds, HistoryTyped,
    TypeOK, Busy, EntriesTold
<1>8. ASSUME NEW th \in Threads, Notify(th)
      PROVE  HistoryTyped'
  BY <1>8 DEF Notify, Waiting, Leave, maps, flight, bounds, HistoryTyped,
    TypeOK, Busy, EntriesTold
<1>9. ASSUME NEW th \in Threads, AdapterThrows(th)
      PROVE  HistoryTyped'
  BY <1>9 DEF AdapterThrows, Bump, Goto, maps, flight, bounds, HistoryTyped,
    TypeOK, Busy, EntriesTold
<1>10. ASSUME NEW th \in Threads, NEW c \in Commands, Call(th, c)
      PROVE  HistoryTyped'
  BY <1>10 DEF Call, maps, flight, history, HistoryTyped, TypeOK, Busy,
    EntriesTold
<1>11. CASE ClearMemory
  BY <1>11 DEF ClearMemory, Nothing, Bump, flight, local, HistoryTyped, TypeOK,
    Busy, EntriesTold
<1>12. CASE Restart
  BY <1>12 DEF Restart, Nothing, Bump, HistoryTyped, TypeOK, Busy, EntriesTold
<1> QED
  BY <1>2, <1>3, <1>4, <1>5, <1>6, <1>7, <1>8, <1>9, <1>10, <1>11, <1>12 DEF
    Next, Step, Fault

\* The persistent cache keeps its type.
LEMMA StoreStep ==
  ASSUME TypeOK, Busy, EntriesTold, Next
  PROVE  StoreTyped'
<1> USE KeyAssumption, NoneAssumption, CapacityAssumption
<1>1. ASSUME UNCHANGED <<persisted>>
      PROVE  StoreTyped'
  BY <1>1, TypeParts DEF StoreTyped
<1>2. ASSUME NEW th \in Threads,
             \/ ReturnCached(th) \/ RethrowUncertain(th) \/ WaitForLeader(th)
               \/ WaitForSlot(th) \/ Lead(th) \/ SleepAgain(th) \/
               TakeOutcome(th) \/ FindStored(th) \/ FindNothing(th) \/
               AdapterReturns(th) \/ Remember(th) \/ FinishFailure(th) \/
               Notify(th) \/ FindThrows(th) \/ AdapterThrows(th) \/
               RememberThrows(th) \/ WakeSpuriously(th)
      PROVE  StoreTyped'
  BY <1>1, <1>2 DEF ReturnCached, Answer, Leave, flight, bounds,
    RethrowUncertain, maps, history, WaitForLeader, WaitForSlot, Lead,
    SleepAgain, TakeOutcome, FindStored, Goto, FindNothing, AdapterReturns,
    Remember, RememberInMemory, FinishFailure, Notify, FindThrows,
    AdapterThrows, RememberThrows, WakeSpuriously
<1>3. ASSUME NEW th \in Threads, Store(th)
      PROVE  StoreTyped'
  <2>1. Key(th) \in Keys /\ got[th] \in Outcome
    BY <1>3 DEF Store, Key, Busy, EntriesTold, TypeOK
  <2> QED
    <3>1. persisted \in MapsTo(Keys, Outcome)
      BY TypeParts DEF StoreTyped
    <3>2. Put(persisted, Key(th), got[th]) \in MapsTo(Keys, Outcome)
      BY <2>1, <3>1, PutTyped
    <3> QED
      BY <1>3, <3>2 DEF Store, StoreTyped
<1>4. ASSUME NEW th \in Threads, StoreThrows(th)
      PROVE  StoreTyped'
  <2>1. Key(th) \in Keys /\ got[th] \in Outcome
    BY <1>4 DEF StoreThrows, Key, Busy, EntriesTold, TypeOK
  <2> QED
    <3>1. persisted \in MapsTo(Keys, Outcome)
      BY TypeParts DEF StoreTyped
    <3>2. Put(persisted, Key(th), got[th]) \in MapsTo(Keys, Outcome)
      BY <2>1, <3>1, PutTyped
    <3> QED
      BY <1>4, <3>1, <3>2 DEF StoreThrows, StoreTyped
<1>5. ASSUME NEW th \in Threads, NEW c \in Commands, Call(th, c)
      PROVE  StoreTyped'
  BY <1>1, <1>5 DEF Call, maps, flight, history
<1>6. CASE ClearMemory
  BY <1>1, <1>6 DEF ClearMemory, flight, local
<1>7. CASE Restart
  BY <1>1, <1>7 DEF Restart
<1> QED
  BY <1>2, <1>3, <1>4, <1>5, <1>6, <1>7 DEF Next, Step, Fault

\* The maps of outcomes and uncertain keys keep their types.
LEMMA MapsStep ==
  ASSUME TypeOK, Busy, EntriesTold, Caches, Next
  PROVE  MapsTyped'
<1> USE KeyAssumption, NoneAssumption, CapacityAssumption
<1>1. ASSUME UNCHANGED <<memory, recency, uncertain>>
      PROVE  MapsTyped'
  BY <1>1, TypeParts DEF MapsTyped
<1>2. ASSUME NEW th \in Threads,
             \/ RethrowUncertain(th) \/ WaitForLeader(th) \/ WaitForSlot(th) \/
               Lead(th) \/ SleepAgain(th) \/ TakeOutcome(th) \/ FindStored(th)
               \/ FindNothing(th) \/ AdapterReturns(th) \/ Store(th) \/
               Notify(th) \/ FindThrows(th) \/ AdapterThrows(th) \/
               StoreThrows(th) \/ RememberThrows(th) \/ WakeSpuriously(th)
      PROVE  MapsTyped'
  BY <1>1, <1>2 DEF RethrowUncertain, Leave, maps, flight, history, bounds,
    WaitForLeader, WaitForSlot, Lead, SleepAgain, TakeOutcome, Answer,
    FindStored, Goto, FindNothing, AdapterReturns, Store, Notify, FindThrows,
    AdapterThrows, StoreThrows, RememberThrows, WakeSpuriously
<1>3. ASSUME NEW th \in Threads, ReturnCached(th)
      PROVE  MapsTyped'
  <2>1. Key(th) \in Keys
    BY <1>3, TypeFacts DEF ReturnCached
  <2>2. recency' \in Seq(Keys)
    BY <1>3, <2>1, FrontedFacts DEF ReturnCached
  <2> QED
    BY <1>3, <2>2, TypeParts DEF ReturnCached, MapsTyped
<1>4. ASSUME NEW th \in Threads, Remember(th)
      PROVE  MapsTyped'
  <2>1. Key(th) \in Keys /\ got[th] \in Outcome
    BY <1>4 DEF Remember, Key, Busy, EntriesTold, TypeOK
  <2>2. recency' \in Seq(Keys)
    BY <1>4, <2>1, KeptFacts DEF Remember, RememberInMemory
  <2>3. /\ DOMAIN memory' \subseteq DOMAIN memory \cup {Key(th)}
        /\ memory' = [x \in DOMAIN memory' |-> IF x = Key(th) THEN got[th] ELSE memory[x]]
    BY <1>4 DEF Remember, RememberInMemory
  <2>4. DOMAIN memory' \subseteq Keys
    BY <2>1, <2>3, TypeFacts
  <2>5. \A x \in DOMAIN memory' : memory'[x] \in Outcome
    BY <2>1, <2>3, TypeFacts
  <2>6. memory' \in MapsTo(Keys, Outcome)
    BY <2>3, <2>4, <2>5, PartialMap
  <2> QED
    BY <1>4, <2>2, <2>6, TypeParts DEF Remember, MapsTyped
<1>5. ASSUME NEW th \in Threads, FinishFailure(th)
      PROVE  MapsTyped'
  <2>1. Key(th) \in Keys /\ cmd[th] \in Commands
    BY <1>5 DEF FinishFailure, Key, Busy
  <2>2. PICK gone, lost :
          uncertain' = Without(Put(Without(uncertain, gone), Key(th), cmd[th]), lost)
    BY <1>5 DEF FinishFailure
  <2>3. uncertain' \in MapsTo(Keys, Commands)
    <3> DEFINE f == Without(uncertain, gone)
               k == Key(th)
               c == cmd[th]
               g == Put(f, k, c)
    <3>1. uncertain \in MapsTo(Keys, Commands)
      BY TypeParts DEF MapsTyped
    <3>2. f \in MapsTo(Keys, Commands)
      BY <3>1, WithoutTyped
    <3>3. k \in Keys
      BY <2>1
    <3>4. c \in Commands
      BY <2>1
    <3> HIDE DEF f, k, c
    <3>5. g \in MapsTo(Keys, Commands)
      BY <3>2, <3>3, <3>4, PutTyped
    <3>6. uncertain' = Without(g, lost)
      BY <2>2 DEF f, k, c
    <3> HIDE DEF g
    <3>7. Without(g, lost) \in MapsTo(Keys, Commands)
      BY <3>5, WithoutTyped
    <3> QED
      BY <3>6, <3>7
  <2> QED
    BY <1>5, <2>3, TypeParts DEF FinishFailure, MapsTyped
<1>6. ASSUME NEW th \in Threads, NEW c \in Commands, Call(th, c)
      PROVE  MapsTyped'
  BY <1>1, <1>6 DEF Call, maps, flight, history
<1>7. CASE ClearMemory
  <2>1. memory' = Nothing /\ uncertain' = Nothing /\ recency' = <<>>
    BY <1>7 DEF ClearMemory
  <2> QED
    BY <2>1, NothingTyped, EmptySeq DEF MapsTyped
<1>8. CASE Restart
  <2>1. memory' = Nothing /\ uncertain' = Nothing /\ recency' = <<>>
    BY <1>8 DEF Restart
  <2> QED
    BY <2>1, NothingTyped, EmptySeq DEF MapsTyped
<1> QED
  BY <1>2, <1>3, <1>4, <1>5, <1>6, <1>7, <1>8 DEF Next, Step, Fault

\* The three ways an entry is updated.
LEMMA EntryUpdated ==
  ASSUME TypeOK, NEW e \in 1..Len(entries), NEW o \in Outcome \cup {None},
         NEW s, s \in {[entries EXCEPT ![e].completed = TRUE, ![e].outcome = o],
                       [entries EXCEPT ![e].outcome = o],
                       [entries EXCEPT ![e].completed = TRUE, ![e].failed = TRUE]}
  PROVE  /\ s \in Seq(Entry)
         /\ Len(s) = Len(entries)
         /\ \A i \in 1..Len(entries) : i # e => s[i] = entries[i]
<1>1. entries \in Seq(Entry) /\ entries[e] \in Entry
  BY ElementOfSeq DEF TypeOK
<1>2. PICK r \in Entry : s = [entries EXCEPT ![e] = r]
  <2>1. CASE s = [entries EXCEPT ![e].completed = TRUE, ![e].outcome = o]
    <3>1. s = [entries EXCEPT ![e] = [entries[e] EXCEPT !.completed = TRUE, !.outcome = o]]
      BY <1>1, <2>1, LenProperties
    <3>2. [entries[e] EXCEPT !.completed = TRUE, !.outcome = o] \in Entry
      BY <1>1 DEF Entry
    <3> QED
      BY <3>1, <3>2
  <2>2. CASE s = [entries EXCEPT ![e].outcome = o]
    <3>1. s = [entries EXCEPT ![e] = [entries[e] EXCEPT !.outcome = o]]
      BY <1>1, <2>2, LenProperties
    <3>2. [entries[e] EXCEPT !.outcome = o] \in Entry
      BY <1>1 DEF Entry
    <3> QED
      BY <3>1, <3>2
  <2>3. CASE s = [entries EXCEPT ![e].completed = TRUE, ![e].failed = TRUE]
    <3>1. s = [entries EXCEPT ![e] = [entries[e] EXCEPT !.completed = TRUE, !.failed = TRUE]]
      BY <1>1, <2>3, LenProperties
    <3>2. [entries[e] EXCEPT !.completed = TRUE, !.failed = TRUE] \in Entry
      BY <1>1 DEF Entry
    <3> QED
      BY <3>1, <3>2
  <2> QED
    BY <2>1, <2>2, <2>3
<1> QED
  BY <1>1, <1>2, EntryReplaced

\* Entries and the map of keys in flight keep their types.
LEMMA FlightStep ==
  ASSUME TypeOK, Busy, Flights, EntriesTold, Next
  PROVE  FlightTyped'
<1> USE KeyAssumption, NoneAssumption, CapacityAssumption
<1>1. ASSUME UNCHANGED <<inFlight, entries, entry>>
      PROVE  FlightTyped'
  BY <1>1, TypeParts DEF FlightTyped
<1>2. ASSUME NEW th \in Threads,
             \/ WaitForSlot(th) \/ SleepAgain(th) \/ FindStored(th) \/
               FindNothing(th) \/ AdapterReturns(th) \/ Store(th) \/
               FindThrows(th) \/ AdapterThrows(th) \/ StoreThrows(th) \/
               WakeSpuriously(th)
      PROVE  FlightTyped'
  BY <1>1, <1>2 DEF WaitForSlot, maps, flight, history, bounds, SleepAgain,
    FindStored, Goto, FindNothing, AdapterReturns, Store, FindThrows,
    AdapterThrows, StoreThrows, WakeSpuriously
<1>3. ASSUME NEW th \in Threads, ReturnCached(th)
      PROVE  FlightTyped'
  BY <1>3, TypeParts DEF ReturnCached, Leave, flight, FlightTyped
<1>4. ASSUME NEW th \in Threads, RethrowUncertain(th)
      PROVE  FlightTyped'
  BY <1>4, TypeParts DEF RethrowUncertain, Leave, flight, FlightTyped
<1>5. ASSUME NEW th \in Threads, WaitForLeader(th)
      PROVE  FlightTyped'
  BY <1>5, TypeFacts, TypeParts DEF WaitForLeader, flight, FlightTyped
<1>6. ASSUME NEW th \in Threads, Lead(th)
      PROVE  FlightTyped'
  <2>1. Key(th) \in Keys
    BY <1>6 DEF Lead, Unknown, AtLoop, Key, Busy
  <2>2. NewEntry \in Entry
    BY DEF NewEntry, Entry
  <2>3. entries' \in Seq(Entry) /\ Len(entries') = Len(entries) + 1 /\ Len(entries) \in Nat
    BY <1>6, <2>2, AppendProperties, LenProperties DEF Lead, TypeOK
  <2>4. inFlight \in MapsTo(Keys, 1..Len(entries'))
    <3>1. \A k \in DOMAIN inFlight : inFlight[k] \in 1..Len(entries')
      BY <2>3, TypeFacts
    <3> QED
      BY <3>1, TypeFacts, PartialMap
  <2>5. inFlight' \in MapsTo(Keys, 1..Len(entries'))
    <3>1. Len(entries) + 1 \in 1..Len(entries')
      BY <2>3
    <3> QED
      BY <1>6, <2>1, <2>4, <3>1, PutTyped DEF Lead
  <2>6. entry' \in [Threads -> 0..Len(entries')]
    BY <1>6, <2>3 DEF Lead, TypeOK
  <2> QED
    BY <2>3, <2>5, <2>6 DEF FlightTyped
<1>7. ASSUME NEW th \in Threads, TakeOutcome(th)
      PROVE  FlightTyped'
  BY <1>7, TypeParts DEF TakeOutcome, Leave, flight, FlightTyped
<1>8. ASSUME NEW th \in Threads, Remember(th)
      PROVE  FlightTyped'
  <2>1. entry[th] \in 1..Len(entries)
    BY <1>8, LeaderHasEntry DEF Remember, Leading
  <2>2. entries' \in Seq(Entry) /\ Len(entries') = Len(entries)
    <3>1. got[th] \in Outcome \cup {None}
      BY DEF TypeOK
    <3> QED
      BY <1>8, <2>1, <3>1, EntryUpdated DEF Remember
  <2>3. inFlight' \in MapsTo(Keys, 1..Len(entries'))
    <3>1. inFlight \in MapsTo(Keys, 1..Len(entries))
      BY TypeParts DEF FlightTyped
    <3>2. Without(inFlight, {Key(th)}) \in MapsTo(Keys, 1..Len(entries))
      BY <3>1, WithoutTyped
    <3> QED
      BY <1>8, <2>2, <3>1, <3>2 DEF Remember, RememberInMemory
  <2> QED
    BY <1>8, <2>2, <2>3, TypeParts DEF Remember, FlightTyped
<1>9. ASSUME NEW th \in Threads, FinishFailure(th)
      PROVE  FlightTyped'
  <2>1. entry[th] \in 1..Len(entries)
    BY <1>9, LeaderHasEntry DEF FinishFailure, Leading
  <2>2. entries' \in Seq(Entry) /\ Len(entries') = Len(entries)
    <3>1. got[th] \in Outcome \cup {None}
      BY DEF TypeOK
    <3> QED
      BY <1>9, <2>1, <3>1, EntryUpdated DEF FinishFailure
  <2>3. inFlight' \in MapsTo(Keys, 1..Len(entries'))
    <3>1. inFlight \in MapsTo(Keys, 1..Len(entries))
      BY TypeParts DEF FlightTyped
    <3>2. Without(inFlight, {Key(th)}) \in MapsTo(Keys, 1..Len(entries))
      BY <3>1, WithoutTyped
    <3> QED
      BY <1>9, <2>2, <3>1, <3>2 DEF FinishFailure
  <2> QED
    BY <1>9, <2>2, <2>3, TypeParts DEF FinishFailure, FlightTyped
<1>10. ASSUME NEW th \in Threads, Notify(th)
      PROVE  FlightTyped'
  BY <1>10, TypeParts DEF Notify, Leave, flight, FlightTyped
<1>11. ASSUME NEW th \in Threads, RememberThrows(th)
      PROVE  FlightTyped'
  <2>1. entry[th] \in 1..Len(entries)
    BY <1>11, LeaderHasEntry DEF RememberThrows, Leading
  <2>2. entries' \in Seq(Entry) /\ Len(entries') = Len(entries)
    <3>1. got[th] \in Outcome \cup {None}
      BY DEF TypeOK
    <3> QED
      BY <1>11, <2>1, <3>1, EntryUpdated DEF RememberThrows
  <2>3. inFlight' \in MapsTo(Keys, 1..Len(entries'))
    <3>1. inFlight \in MapsTo(Keys, 1..Len(entries))
      BY TypeParts DEF FlightTyped
    <3>2. Without(inFlight, {Key(th)}) \in MapsTo(Keys, 1..Len(entries))
      BY <3>1, WithoutTyped
    <3> QED
      BY <1>11, <2>2, <3>1, <3>2 DEF RememberThrows
  <2> QED
    BY <1>11, <2>2, <2>3, TypeParts DEF RememberThrows, FlightTyped
<1>12. ASSUME NEW th \in Threads, NEW c \in Commands, Call(th, c)
      PROVE  FlightTyped'
  BY <1>1, <1>12 DEF Call, maps, flight, history
<1>13. CASE ClearMemory
  BY <1>1, <1>13 DEF ClearMemory, flight, local
<1>14. CASE Restart
  <2>1. entries' \in Seq(Entry) /\ Len(entries') = 0
    BY <1>14, EmptySeq DEF Restart
  <2>2. inFlight' \in MapsTo(Keys, 1..Len(entries'))
    <3>1. inFlight' = Nothing
      BY <1>14 DEF Restart
    <3> QED
      BY <3>1, NothingTyped
  <2>3. entry' \in [Threads -> 0..Len(entries')]
    <3>1. entry' = [th \in Threads |-> 0]
      BY <1>14 DEF Restart
    <3>2. 0 \in 0..Len(entries')
      BY <2>1
    <3> QED
      BY <3>1, <3>2
  <2> QED
    BY <2>1, <2>2, <2>3 DEF FlightTyped
<1> QED
  BY <1>2, <1>3, <1>4, <1>5, <1>6, <1>7, <1>8, <1>9, <1>10, <1>11, <1>12,
    <1>13, <1>14 DEF Next, Step, Fault

-----------------------------------------------------------------------------
(* Every step keeps the flights, the entries and the caches consistent *)

\* A thread has a command from its call of dispatch to its return.
LEMMA BusyStep ==
  ASSUME TypeOK, Busy, Next
  PROVE  Busy'
<1> USE KeyAssumption, NoneAssumption, CapacityAssumption
<1>1. ASSUME UNCHANGED <<pc, cmd>>
      PROVE  Busy'
  BY <1>1 DEF Busy
<1>2. ASSUME NEW th \in Threads,
             \/ SleepAgain(th) \/ WakeSpuriously(th)
      PROVE  Busy'
  BY <1>1, <1>2 DEF SleepAgain, maps, flight, history, bounds, WakeSpuriously
<1>3. ASSUME NEW th \in Threads, ReturnCached(th)
      PROVE  Busy'
  BY <1>3 DEF ReturnCached, AtLoop, Answer, Leave, flight, bounds, Busy, TypeOK
<1>4. ASSUME NEW th \in Threads, RethrowUncertain(th)
      PROVE  Busy'
  BY <1>4 DEF RethrowUncertain, AtLoop, Leave, maps, flight, history, bounds,
    Busy, TypeOK
<1>5. ASSUME NEW th \in Threads, WaitForLeader(th)
      PROVE  Busy'
  BY <1>5 DEF WaitForLeader, Unknown, AtLoop, maps, flight, history, bounds,
    Busy, TypeOK
<1>6. ASSUME NEW th \in Threads, WaitForSlot(th)
      PROVE  Busy'
  BY <1>6 DEF WaitForSlot, Unknown, AtLoop, maps, flight, history, bounds,
    Busy, TypeOK
<1>7. ASSUME NEW th \in Threads, Lead(th)
      PROVE  Busy'
  BY <1>7 DEF Lead, Unknown, AtLoop, NewEntry, Put, maps, history, bounds,
    Busy, TypeOK
<1>8. ASSUME NEW th \in Threads, TakeOutcome(th)
      PROVE  Busy'
  BY <1>8 DEF TakeOutcome, Answer, Leave, maps, flight, bounds, Busy, TypeOK
<1>9. ASSUME NEW th \in Threads, FindStored(th)
      PROVE  Busy'
  BY <1>9 DEF FindStored, Goto, TypeOK, Busy
<1>10. ASSUME NEW th \in Threads, FindNothing(th)
      PROVE  Busy'
  BY <1>10 DEF FindNothing, Goto, maps, flight, history, bounds, Busy, TypeOK
<1>11. ASSUME NEW th \in Threads, AdapterReturns(th)
      PROVE  Busy'
  BY <1>11 DEF AdapterReturns, Bump, Goto, maps, flight, bounds, Busy, TypeOK
<1>12. ASSUME NEW th \in Threads, Store(th)
      PROVE  Busy'
  BY <1>12 DEF Store, Put, Goto, maps, flight, history, bounds, Busy, TypeOK
<1>13. ASSUME NEW th \in Threads, Remember(th)
      PROVE  Busy'
  BY <1>13 DEF Remember, RememberInMemory, Without, Bump, Goto, bounds, Busy,
    TypeOK
<1>14. ASSUME NEW th \in Threads, FinishFailure(th)
      PROVE  Busy'
  BY <1>14 DEF FinishFailure, Without, Put, Bump, Goto, bounds, Busy, TypeOK
<1>15. ASSUME NEW th \in Threads, Notify(th)
      PROVE  Busy'
  BY <1>15 DEF Notify, Waiting, Leave, maps, flight, bounds, Busy, TypeOK
<1>16. ASSUME NEW th \in Threads, FindThrows(th)
      PROVE  Busy'
  BY <1>16 DEF FindThrows, Goto, maps, flight, history, bounds, Busy, TypeOK
<1>17. ASSUME NEW th \in Threads, AdapterThrows(th)
      PROVE  Busy'
  BY <1>17 DEF AdapterThrows, Bump, Goto, maps, flight, bounds, Busy, TypeOK
<1>18. ASSUME NEW th \in Threads, StoreThrows(th)
      PROVE  Busy'
  BY <1>18 DEF StoreThrows, Put, Goto, maps, flight, history, bounds, Busy,
    TypeOK
<1>19. ASSUME NEW th \in Threads, RememberThrows(th)
      PROVE  Busy'
  BY <1>19 DEF RememberThrows, Goto, maps, history, bounds, Busy, TypeOK
<1>20. ASSUME NEW th \in Threads, NEW c \in Commands, Call(th, c)
      PROVE  Busy'
  BY <1>20 DEF Call, maps, flight, history, Busy, TypeOK
<1>21. CASE ClearMemory
  BY <1>1, <1>21 DEF ClearMemory, flight, local
<1>22. CASE Restart
  BY <1>22 DEF Restart, Nothing, Bump, Busy, TypeOK
<1> QED
  BY <1>2, <1>3, <1>4, <1>5, <1>6, <1>7, <1>8, <1>9, <1>10, <1>11, <1>12,
    <1>13, <1>14, <1>15, <1>16, <1>17, <1>18, <1>19, <1>20, <1>21, <1>22 DEF
    Next, Step, Fault

\* A leader that moves on while it still leads.
LEMMA LeaderMoves ==
  ASSUME TypeOK, Busy, NEW th \in Threads, Leading(th), NEW label,
         label \in {"find", "call", "store", "remember", "fail"},
         Goto(th, label), UNCHANGED cmd
  PROVE  \A u \in Threads : (Leading(u))' = Leading(u) /\ (Key(u))' = Key(u)
BY DEF Goto, Leading, Key, TypeOK

\* A leader that has finished leads no longer; the others go on.
LEMMA LeaderEnds ==
  ASSUME TypeOK, NEW th \in Threads, Goto(th, "notify"), UNCHANGED cmd
  PROVE  \A u \in Threads : /\ (Leading(u))' <=> Leading(u) /\ u # th
                            /\ (Key(u))' = Key(u)
BY DEF Goto, Leading, Key, TypeOK

\* A step of a thread that leads neither before nor after changes no flight.
LEMMA OthersLead ==
  ASSUME TypeOK, NEW th \in Threads, ~Leading(th), NEW label,
         label \notin {"find", "call", "store", "remember", "fail"},
         Goto(th, label), \A u \in Threads \ {th} : cmd'[u] = cmd[u]
  PROVE  \A u \in Threads : /\ (Leading(u))' <=> Leading(u)
                            /\ Leading(u) => (Key(u))' = Key(u)
BY DEF Goto, Leading, Key, TypeOK

\* SingleFlight is about the leaders and the keys of the three maps alone.
LEMMA SingleFlightKept ==
  ASSUME SingleFlight, UNCHANGED <<memory, uncertain, inFlight>>,
         \A u \in Threads : /\ (Leading(u))' <=> Leading(u)
                            /\ Leading(u) => (Key(u))' = Key(u)
  PROVE  SingleFlight'
BY DEF SingleFlight

\* The end of a flight: the key is taken out of inFlight and only the
\* leader's own entry may have changed.
LEMMA FlightEnds ==
  ASSUME TypeOK, Busy, Flights, SingleFlight, NEW th \in Threads, Leading(th),
         Goto(th, "notify"), UNCHANGED <<cmd, entry>>,
         inFlight' = Without(inFlight, {Key(th)}),
         \A i \in 1..Len(entries) : i # entry[th] => entries'[i] = entries[i]
  PROVE  Flights'
<1> DEFINE k == Key(th)
<1>1. /\ DOMAIN inFlight' = DOMAIN inFlight \ {k}
      /\ \A x \in DOMAIN inFlight' : inFlight'[x] = inFlight[x]
  BY DEF Without
<1>2. k \in DOMAIN inFlight /\ entry[th] = inFlight[k]
  BY DEF Flights
<1>3. ASSUME NEW u \in Threads, (Leading(u))'
      PROVE  (Key(u))' \in DOMAIN inFlight' /\ entry'[u] = inFlight'[(Key(u))']
  <2>1. Leading(u) /\ u # th /\ (Key(u))' = Key(u)
    BY <1>3, LeaderEnds
  <2>2. Key(u) # k /\ Key(u) \in DOMAIN inFlight /\ entry[u] = inFlight[Key(u)]
    BY <2>1 DEF SingleFlight, Flights
  <2> QED
    BY <1>1, <2>1, <2>2
<1>4. \A x, y \in DOMAIN inFlight' : inFlight'[x] = inFlight'[y] => x = y
  BY <1>1 DEF Flights
<1>5. ASSUME NEW x \in DOMAIN inFlight'
      PROVE  ~entries'[inFlight'[x]].completed
  <2>1. inFlight'[x] = inFlight[x] /\ x \in DOMAIN inFlight /\ x # k
    BY <1>1
  <2>2. inFlight[x] \in 1..Len(entries) /\ inFlight[x] # entry[th]
    BY <1>2, <2>1, TypeFacts DEF Flights
  <2> QED
    BY <2>1, <2>2 DEF Flights
<1>6. IsFiniteSet(DOMAIN inFlight') /\ Cardinality(DOMAIN inFlight') <= MaxConcurrentDispatches
  <2>1. /\ IsFiniteSet(DOMAIN inFlight')
        /\ Cardinality(DOMAIN inFlight') <= Cardinality(DOMAIN inFlight)
    BY <1>1, FS_Subset DEF Flights
  <2> QED
    BY <2>1, CapacityAssumption, FS_CardinalityType DEF Flights
<1> QED
  BY <1>3, <1>4, <1>5, <1>6 DEF Flights

\* Flights holds after every step.
LEMMA FlightsStep ==
  ASSUME TypeOK, Busy, Flights, SingleFlight, Next
  PROVE  Flights'
<1> USE KeyAssumption, NoneAssumption, CapacityAssumption
<1>1. ASSUME UNCHANGED <<pc, cmd, entry, inFlight, entries>>
      PROVE  Flights'
  BY <1>1 DEF Flights, Leading, Key
<1>2. ASSUME NEW th \in Threads,
             \/ SleepAgain(th) \/ WakeSpuriously(th)
      PROVE  Flights'
  BY <1>1, <1>2 DEF SleepAgain, maps, flight, history, bounds, WakeSpuriously
<1>3. ASSUME NEW th \in Threads, ReturnCached(th)
      PROVE  Flights'
  BY <1>3 DEF ReturnCached, AtLoop, Answer, Leave, flight, bounds, Leading,
    Key, Flights, TypeOK, Busy, SingleFlight
<1>4. ASSUME NEW th \in Threads, RethrowUncertain(th)
      PROVE  Flights'
  BY <1>4 DEF RethrowUncertain, AtLoop, Leave, maps, flight, history, bounds,
    Leading, Key, Flights, TypeOK, Busy, SingleFlight
<1>5. ASSUME NEW th \in Threads, WaitForLeader(th)
      PROVE  Flights'
  BY <1>5 DEF WaitForLeader, Unknown, AtLoop, maps, flight, history, bounds,
    Leading, Key, Flights, TypeOK, Busy, SingleFlight
<1>6. ASSUME NEW th \in Threads, WaitForSlot(th)
      PROVE  Flights'
  BY <1>6 DEF WaitForSlot, Unknown, AtLoop, maps, flight, history, bounds,
    Leading, Key, Flights, TypeOK, Busy, SingleFlight
<1>7. ASSUME NEW th \in Threads, Lead(th)
      PROVE  Flights'
  <2> DEFINE k == Key(th)
             n == Len(entries) + 1
  <2>1. k \in Keys /\ k \notin DOMAIN inFlight /\ Len(entries) \in Nat
    BY <1>7, LenProperties DEF Lead, Unknown, AtLoop, Key, Busy, TypeOK
  <2>2. /\ DOMAIN inFlight' = DOMAIN inFlight \cup {k}
        /\ inFlight'[k] = n
        /\ \A x \in DOMAIN inFlight : inFlight'[x] = inFlight[x]
    BY <1>7, <2>1 DEF Lead, Put
  <2>3. entries'[n] = NewEntry /\ \A i \in 1..Len(entries) : entries'[i] = entries[i]
    BY <1>7, AppendProperties DEF Lead, TypeOK
  <2>4. ASSUME NEW u \in Threads, (Leading(u))'
        PROVE  (Key(u))' \in DOMAIN inFlight' /\ entry'[u] = inFlight'[(Key(u))']
    <3>1. (Key(u))' = Key(u)
      BY <1>7 DEF Lead, Key
    <3>2. CASE u = th
      BY <1>7, <2>2, <3>1, <3>2 DEF Lead, TypeOK
    <3>3. CASE u # th
      <4>1. Leading(u) /\ entry'[u] = entry[u]
        BY <1>7, <2>4, <3>3 DEF Lead, Leading, TypeOK
      <4> QED
        BY <2>2, <3>1, <4>1 DEF Flights
    <3> QED
      BY <3>2, <3>3
  <2>5. \A x \in DOMAIN inFlight : inFlight[x] \in 1..Len(entries)
    BY TypeFacts
  <2>6. \A x, y \in DOMAIN inFlight' : inFlight'[x] = inFlight'[y] => x = y
    BY <2>1, <2>2, <2>5 DEF Flights
  <2>7. \A x \in DOMAIN inFlight' : ~entries'[inFlight'[x]].completed
    BY <2>1, <2>2, <2>3, <2>5 DEF Flights, NewEntry
  <2>8. /\ IsFiniteSet(DOMAIN inFlight')
        /\ Cardinality(DOMAIN inFlight') = Cardinality(DOMAIN inFlight) + 1
    BY <2>1, <2>2, FS_AddElement DEF Flights
  <2>9. Cardinality(DOMAIN inFlight') <= MaxConcurrentDispatches
    BY <1>7, <2>8, FS_CardinalityType DEF Lead, SlotFree, Flights
  <2> QED
    BY <2>4, <2>6, <2>7, <2>8, <2>9 DEF Flights
<1>8. ASSUME NEW th \in Threads, TakeOutcome(th)
      PROVE  Flights'
  BY <1>8 DEF TakeOutcome, Answer, Leave, maps, flight, bounds, Leading, Key,
    Flights, TypeOK, Busy, SingleFlight
<1>9. ASSUME NEW th \in Threads, FindStored(th)
      PROVE  Flights'
  <2>1. PICK label \in {"remember", "fail"} : Goto(th, label)
    BY <1>9 DEF FindStored
  <2> QED
    BY <1>9, <2>1, LeaderMoves DEF FindStored, flight, Flights, Leading
<1>10. ASSUME NEW th \in Threads, FindNothing(th)
      PROVE  Flights'
  BY <1>10 DEF FindNothing, Goto, maps, flight, history, bounds, Leading, Key,
    Flights, TypeOK, Busy, SingleFlight
<1>11. ASSUME NEW th \in Threads, AdapterReturns(th)
      PROVE  Flights'
  BY <1>11 DEF AdapterReturns, Bump, Goto, maps, flight, bounds, Leading, Key,
    Flights, TypeOK, Busy, SingleFlight
<1>12. ASSUME NEW th \in Threads, Store(th)
      PROVE  Flights'
  BY <1>12 DEF Store, Put, Goto, maps, flight, history, bounds, Leading, Key,
    Flights, TypeOK, Busy, SingleFlight
<1>13. ASSUME NEW th \in Threads, Remember(th)
      PROVE  Flights'
  <2>1. Leading(th) /\ Goto(th, "notify")
    BY <1>13 DEF Remember, RememberInMemory, Leading
  <2>2. entry[th] \in 1..Len(entries) /\ got[th] \in Outcome \cup {None}
    BY <2>1, LeaderHasEntry DEF TypeOK
  <2>3. \A i \in 1..Len(entries) : i # entry[th] => entries'[i] = entries[i]
    BY <1>13, <2>2, EntryUpdated DEF Remember
  <2> QED
    BY <1>13, <2>1, <2>3, FlightEnds DEF Remember, RememberInMemory
<1>14. ASSUME NEW th \in Threads, FinishFailure(th)
      PROVE  Flights'
  <2>1. Leading(th) /\ Goto(th, "notify")
    BY <1>14 DEF FinishFailure, Leading
  <2>2. entry[th] \in 1..Len(entries) /\ got[th] \in Outcome \cup {None}
    BY <2>1, LeaderHasEntry DEF TypeOK
  <2>3. \A i \in 1..Len(entries) : i # entry[th] => entries'[i] = entries[i]
    BY <1>14, <2>2, EntryUpdated DEF FinishFailure
  <2> QED
    BY <1>14, <2>1, <2>3, FlightEnds DEF FinishFailure
<1>15. ASSUME NEW th \in Threads, Notify(th)
      PROVE  Flights'
  BY <1>15 DEF Notify, Waiting, Leave, maps, flight, bounds, Leading, Key,
    Flights, TypeOK, Busy, SingleFlight
<1>16. ASSUME NEW th \in Threads, FindThrows(th)
      PROVE  Flights'
  BY <1>16 DEF FindThrows, Goto, maps, flight, history, bounds, Leading, Key,
    Flights, TypeOK, Busy, SingleFlight
<1>17. ASSUME NEW th \in Threads, AdapterThrows(th)
      PROVE  Flights'
  BY <1>17 DEF AdapterThrows, Bump, Goto, maps, flight, bounds, Leading, Key,
    Flights, TypeOK, Busy, SingleFlight
<1>18. ASSUME NEW th \in Threads, StoreThrows(th)
      PROVE  Flights'
  BY <1>18 DEF StoreThrows, Put, Goto, maps, flight, history, bounds, Leading,
    Key, Flights, TypeOK, Busy, SingleFlight
<1>19. ASSUME NEW th \in Threads, RememberThrows(th)
      PROVE  Flights'
  <2>1. /\ Leading(th)
        /\ \A u \in Threads : (Leading(u))' = Leading(u) /\ (Key(u))' = Key(u)
    BY <1>19, LeaderMoves DEF RememberThrows, Leading
  <2>2. entry[th] \in 1..Len(entries)
    BY <2>1, LeaderHasEntry
  <2>3. \A i \in 1..Len(entries) : entries'[i].completed = entries[i].completed
    <3>1. entries \in Seq(Entry) /\ entries[entry[th]] \in Entry
      BY <2>2, ElementOfSeq DEF TypeOK
    <3> QED
      BY <1>19, <2>2, <3>1 DEF RememberThrows, Entry
  <2> QED
    BY <1>19, <2>1, <2>3, TypeFacts DEF RememberThrows, Flights
<1>20. ASSUME NEW th \in Threads, NEW c \in Commands, Call(th, c)
      PROVE  Flights'
  BY <1>20 DEF Call, maps, flight, history, Leading, Key, Flights, TypeOK,
    Busy, SingleFlight
<1>21. CASE ClearMemory
  BY <1>1, <1>21 DEF ClearMemory, flight, local
<1>22. CASE Restart
  <2>1. DOMAIN inFlight' = {}
    BY <1>22 DEF Restart, Nothing
  <2> QED
    BY <1>22, <2>1, FS_EmptySet DEF Restart, Flights, Leading
<1> QED
  BY <1>2, <1>3, <1>4, <1>5, <1>6, <1>7, <1>8, <1>9, <1>10, <1>11, <1>12,
    <1>13, <1>14, <1>15, <1>16, <1>17, <1>18, <1>19, <1>20, <1>21, <1>22 DEF
    Next, Step, Fault

\* EntriesTold holds after every step.
LEMMA EntriesStep ==
  ASSUME TypeOK, Busy, Flights, EntriesTold, Next
  PROVE  EntriesTold'
<1> USE KeyAssumption, NoneAssumption, CapacityAssumption
<1>1. ASSUME UNCHANGED <<pc, entry, got, entries>>
      PROVE  EntriesTold'
  BY <1>1 DEF EntriesTold, Leading, Key
<1>2. ASSUME NEW th \in Threads,
             \/ SleepAgain(th) \/ WakeSpuriously(th)
      PROVE  EntriesTold'
  BY <1>1, <1>2 DEF SleepAgain, maps, flight, history, bounds, WakeSpuriously
<1>3. ASSUME NEW th \in Threads, ReturnCached(th)
      PROVE  EntriesTold'
  BY <1>3 DEF ReturnCached, Leave, flight, EntriesTold, TypeOK
<1>4. ASSUME NEW th \in Threads, RethrowUncertain(th)
      PROVE  EntriesTold'
  BY <1>4 DEF RethrowUncertain, Leave, flight, EntriesTold, TypeOK
<1>5. ASSUME NEW th \in Threads, WaitForLeader(th)
      PROVE  EntriesTold'
  BY <1>5, TypeFacts DEF WaitForLeader, Unknown, AtLoop, maps, flight, history,
    bounds, Leading, Key, EntriesTold, TypeOK, Busy, Flights
<1>6. ASSUME NEW th \in Threads, WaitForSlot(th)
      PROVE  EntriesTold'
  BY <1>6, TypeFacts DEF WaitForSlot, Unknown, AtLoop, maps, flight, history,
    bounds, Leading, Key, EntriesTold, TypeOK, Busy, Flights
<1>7. ASSUME NEW th \in Threads, Lead(th)
      PROVE  EntriesTold'
  <2>1. /\ Len(entries) \in Nat
        /\ Len(entries') = Len(entries) + 1
        /\ \A i \in 1..Len(entries) : entries'[i] = entries[i]
        /\ entries'[Len(entries) + 1] = NewEntry
    BY <1>7 DEF Lead, TypeOK
  <2>2. \A i \in 1..Len(entries') :
          entries'[i].completed => entries'[i].failed \/ entries'[i].outcome # None
    BY <2>1 DEF NewEntry, EntriesTold
  <2>3. \A u \in Threads : /\ pc'[u] = "waitEntry" => entry'[u] # 0
                           /\ pc'[u] \in {"store", "remember"} => got'[u] # None
    BY <1>7, <2>1 DEF Lead, EntriesTold, TypeOK
  <2> QED
    BY <2>2, <2>3 DEF EntriesTold
<1>8. ASSUME NEW th \in Threads, TakeOutcome(th)
      PROVE  EntriesTold'
  BY <1>8 DEF TakeOutcome, Leave, flight, EntriesTold, TypeOK
<1>9. ASSUME NEW th \in Threads, FindStored(th)
      PROVE  EntriesTold'
  <2>1. CASE persisted[Key(th)].command = cmd[th]
    <3>1. persisted[Key(th)] # None
      BY <1>9, TypeFacts DEF FindStored, Outcome
    <3> QED
      BY <1>9, <2>1, <3>1 DEF FindStored, Goto, flight, TypeOK, EntriesTold
  <2>2. CASE persisted[Key(th)].command # cmd[th]
    BY <1>9, <2>2 DEF FindStored, Goto, flight, TypeOK, EntriesTold
  <2> QED
    BY <2>1, <2>2
<1>10. ASSUME NEW th \in Threads, FindNothing(th)
      PROVE  EntriesTold'
  BY <1>10 DEF FindNothing, Goto, flight, EntriesTold, TypeOK
<1>11. ASSUME NEW th \in Threads, AdapterReturns(th)
      PROVE  EntriesTold'
  <2>1. got'[th] # None
    BY <1>11 DEF AdapterReturns, Busy, TypeOK
  <2> QED
    BY <1>11, <2>1 DEF AdapterReturns, Goto, flight, TypeOK, EntriesTold
<1>12. ASSUME NEW th \in Threads, Store(th)
      PROVE  EntriesTold'
  BY <1>12 DEF Store, Goto, flight, EntriesTold, TypeOK
<1>13. ASSUME NEW th \in Threads, Remember(th)
      PROVE  EntriesTold'
  <2>1. entry[th] \in 1..Len(entries)
    BY <1>13, LeaderHasEntry DEF Remember, Leading
  <2>2. entries \in Seq(Entry) /\ entries[entry[th]] \in Entry
    BY <2>1, ElementOfSeq DEF TypeOK
  <2>3. got[th] # None
    BY <1>13 DEF Remember, EntriesTold
  <2>4. /\ Len(entries') = Len(entries)
        /\ \A i \in 1..Len(entries) :
             entries'[i].completed => entries'[i].failed \/ entries'[i].outcome # None
    BY <1>13, <2>1, <2>2, <2>3 DEF Remember, EntriesTold, Entry
  <2> QED
    BY <1>13, <2>4 DEF Remember, RememberInMemory, Goto, TypeOK, EntriesTold
<1>14. ASSUME NEW th \in Threads, FinishFailure(th)
      PROVE  EntriesTold'
  <2>1. entry[th] \in 1..Len(entries)
    BY <1>14, LeaderHasEntry DEF FinishFailure, Leading
  <2>2. entries \in Seq(Entry) /\ entries[entry[th]] \in Entry
    BY <2>1, ElementOfSeq DEF TypeOK
  <2>3. /\ Len(entries') = Len(entries)
        /\ \A i \in 1..Len(entries) :
             entries'[i].completed => entries'[i].failed \/ entries'[i].outcome # None
    BY <1>14, <2>1, <2>2 DEF FinishFailure, EntriesTold, Entry
  <2> QED
    BY <1>14, <2>3 DEF FinishFailure, Goto, TypeOK, EntriesTold
<1>15. ASSUME NEW th \in Threads, Notify(th)
      PROVE  EntriesTold'
  BY <1>15 DEF Notify, Leave, flight, EntriesTold, TypeOK
<1>16. ASSUME NEW th \in Threads, FindThrows(th)
      PROVE  EntriesTold'
  BY <1>16 DEF FindThrows, Goto, flight, EntriesTold, TypeOK
<1>17. ASSUME NEW th \in Threads, AdapterThrows(th)
      PROVE  EntriesTold'
  BY <1>17 DEF AdapterThrows, Goto, flight, EntriesTold, TypeOK
<1>18. ASSUME NEW th \in Threads, StoreThrows(th)
      PROVE  EntriesTold'
  BY <1>18 DEF StoreThrows, Goto, flight, EntriesTold, TypeOK
<1>19. ASSUME NEW th \in Threads, RememberThrows(th)
      PROVE  EntriesTold'
  BY <1>19, TypeFacts DEF RememberThrows, Goto, maps, history, bounds, Leading,
    Key, EntriesTold, TypeOK, Busy, Flights
<1>20. ASSUME NEW th \in Threads, NEW c \in Commands, Call(th, c)
      PROVE  EntriesTold'
  BY <1>20 DEF Call, flight, EntriesTold, TypeOK
<1>21. CASE ClearMemory
  BY <1>1, <1>21 DEF ClearMemory, flight, local
<1>22. CASE Restart
  BY <1>22, TypeFacts DEF Restart, Nothing, Bump, Leading, Key, EntriesTold,
    TypeOK, Busy, Flights
<1> QED
  BY <1>2, <1>3, <1>4, <1>5, <1>6, <1>7, <1>8, <1>9, <1>10, <1>11, <1>12,
    <1>13, <1>14, <1>15, <1>16, <1>17, <1>18, <1>19, <1>20, <1>21, <1>22 DEF
    Next, Step, Fault

\* SingleFlight holds after every step.
LEMMA SingleFlightStep ==
  ASSUME TypeOK, Busy, Flights, SingleFlight, Next
  PROVE  SingleFlight'
<1> USE KeyAssumption, NoneAssumption, CapacityAssumption
<1>1. ASSUME UNCHANGED <<pc, cmd, memory, uncertain, inFlight>>
      PROVE  SingleFlight'
  BY <1>1 DEF SingleFlight, Leading, Key
<1>2. ASSUME NEW th \in Threads,
             \/ SleepAgain(th) \/ WakeSpuriously(th)
      PROVE  SingleFlight'
  BY <1>1, <1>2 DEF SleepAgain, maps, flight, history, bounds, WakeSpuriously
<1>3. ASSUME NEW th \in Threads, ReturnCached(th)
      PROVE  SingleFlight'
  <2>1. ~Leading(th) /\ Goto(th, "idle") /\ \A u \in Threads \ {th} : cmd'[u] = cmd[u]
    BY <1>3 DEF ReturnCached, AtLoop, Leave, Goto, Leading, TypeOK
  <2> QED
    BY <1>3, <2>1, OthersLead, SingleFlightKept DEF ReturnCached, flight
<1>4. ASSUME NEW th \in Threads, RethrowUncertain(th)
      PROVE  SingleFlight'
  <2>1. ~Leading(th) /\ Goto(th, "idle") /\ \A u \in Threads \ {th} : cmd'[u] = cmd[u]
    BY <1>4 DEF RethrowUncertain, AtLoop, Leave, Goto, Leading, TypeOK
  <2> QED
    BY <1>4, <2>1, OthersLead, SingleFlightKept DEF RethrowUncertain, maps, flight
<1>5. ASSUME NEW th \in Threads, WaitForLeader(th)
      PROVE  SingleFlight'
  <2>1. ~Leading(th) /\ Goto(th, "waitEntry") /\ UNCHANGED cmd
    BY <1>5 DEF WaitForLeader, Unknown, AtLoop, Goto, Leading
  <2> QED
    BY <1>5, <2>1, OthersLead, SingleFlightKept DEF WaitForLeader, maps, flight
<1>6. ASSUME NEW th \in Threads, WaitForSlot(th)
      PROVE  SingleFlight'
  <2>1. ~Leading(th) /\ Goto(th, "waitSlot") /\ UNCHANGED cmd
    BY <1>6 DEF WaitForSlot, Unknown, AtLoop, Goto, Leading
  <2> QED
    BY <1>6, <2>1, OthersLead, SingleFlightKept DEF WaitForSlot, maps, flight
<1>7. ASSUME NEW th \in Threads, Lead(th)
      PROVE  SingleFlight'
  <2>1. Key(th) \notin DOMAIN memory \cup DOMAIN uncertain \cup DOMAIN inFlight
    BY <1>7 DEF Lead, Unknown
  <2>2. DOMAIN inFlight' = DOMAIN inFlight \cup {Key(th)}
    BY <1>7 DEF Lead, Put
  <2>3. \A u \in Threads : /\ (Key(u))' = Key(u)
                           /\ (Leading(u))' => u = th \/ Leading(u)
    BY <1>7 DEF Lead, Key, Leading, TypeOK
  <2>4. \A u \in Threads : Leading(u) => Key(u) # Key(th)
    BY <2>1 DEF Flights
  <2> QED
    BY <1>7, <2>1, <2>2, <2>3, <2>4 DEF Lead, maps, SingleFlight
<1>8. ASSUME NEW th \in Threads, TakeOutcome(th)
      PROVE  SingleFlight'
  <2>1. ~Leading(th) /\ Goto(th, "idle") /\ \A u \in Threads \ {th} : cmd'[u] = cmd[u]
    BY <1>8 DEF TakeOutcome, Leave, Goto, Leading, TypeOK
  <2> QED
    BY <1>8, <2>1, OthersLead, SingleFlightKept DEF TakeOutcome, maps, flight
<1>9. ASSUME NEW th \in Threads, FindStored(th)
      PROVE  SingleFlight'
  <2>1. PICK label \in {"remember", "fail"} : Goto(th, label)
    BY <1>9 DEF FindStored
  <2> QED
    BY <1>9, <2>1, LeaderMoves DEF FindStored, maps, flight, SingleFlight, Leading
<1>10. ASSUME NEW th \in Threads, FindNothing(th)
      PROVE  SingleFlight'
  BY <1>10, LeaderMoves DEF FindNothing, maps, flight, SingleFlight, Leading
<1>11. ASSUME NEW th \in Threads, AdapterReturns(th)
      PROVE  SingleFlight'
  BY <1>11, LeaderMoves DEF AdapterReturns, maps, flight, SingleFlight, Leading
<1>12. ASSUME NEW th \in Threads, Store(th)
      PROVE  SingleFlight'
  BY <1>12, LeaderMoves DEF Store, maps, flight, SingleFlight, Leading
<1>13. ASSUME NEW th \in Threads, Remember(th)
      PROVE  SingleFlight'
  <2>1. Goto(th, "notify") /\ UNCHANGED <<cmd, uncertain>>
    BY <1>13 DEF Remember, RememberInMemory
  <2>2. Leading(th)
    BY <1>13 DEF Remember, Leading
  <2>3. Key(th) \in DOMAIN inFlight
    BY <2>2 DEF Flights
  <2>4. /\ DOMAIN memory' \subseteq DOMAIN memory \cup {Key(th)}
        /\ DOMAIN inFlight' = DOMAIN inFlight \ {Key(th)}
    BY <1>13 DEF Remember, RememberInMemory, Without
  <2>5. \A u \in Threads : /\ (Leading(u))' <=> Leading(u) /\ u # th
                           /\ (Key(u))' = Key(u)
    BY <2>1, LeaderEnds
  <2> QED
    BY <2>1, <2>3, <2>4, <2>5 DEF SingleFlight
<1>14. ASSUME NEW th \in Threads, FinishFailure(th)
      PROVE  SingleFlight'
  <2>1. Goto(th, "notify") /\ UNCHANGED <<cmd, memory>>
    BY <1>14 DEF FinishFailure
  <2>2. Leading(th)
    BY <1>14 DEF FinishFailure, Leading
  <2>3. Key(th) \in DOMAIN inFlight
    BY <2>2 DEF Flights
  <2>4. /\ DOMAIN uncertain' \subseteq DOMAIN uncertain \cup {Key(th)}
        /\ DOMAIN inFlight' = DOMAIN inFlight \ {Key(th)}
    BY <1>14 DEF FinishFailure, Without, Put
  <2>5. \A u \in Threads : /\ (Leading(u))' <=> Leading(u) /\ u # th
                           /\ (Key(u))' = Key(u)
    BY <2>1, LeaderEnds
  <2> QED
    BY <2>1, <2>3, <2>4, <2>5 DEF SingleFlight
<1>15. ASSUME NEW th \in Threads, Notify(th)
      PROVE  SingleFlight'
  <2>1. ~Leading(th) /\ Goto(th, "idle") /\ \A u \in Threads \ {th} : cmd'[u] = cmd[u]
    BY <1>15 DEF Notify, Leave, Goto, Leading, TypeOK
  <2> QED
    BY <1>15, <2>1, OthersLead, SingleFlightKept DEF Notify, maps, flight
<1>16. ASSUME NEW th \in Threads, FindThrows(th)
      PROVE  SingleFlight'
  BY <1>16, LeaderMoves DEF FindThrows, maps, flight, SingleFlight, Leading
<1>17. ASSUME NEW th \in Threads, AdapterThrows(th)
      PROVE  SingleFlight'
  BY <1>17, LeaderMoves DEF AdapterThrows, maps, flight, SingleFlight, Leading
<1>18. ASSUME NEW th \in Threads, StoreThrows(th)
      PROVE  SingleFlight'
  BY <1>18, LeaderMoves DEF StoreThrows, maps, flight, SingleFlight, Leading
<1>19. ASSUME NEW th \in Threads, RememberThrows(th)
      PROVE  SingleFlight'
  BY <1>19, LeaderMoves DEF RememberThrows, maps, flight, SingleFlight, Leading
<1>20. ASSUME NEW th \in Threads, NEW c \in Commands, Call(th, c)
      PROVE  SingleFlight'
  <2>1. ~Leading(th) /\ Goto(th, "enter") /\ \A u \in Threads \ {th} : cmd'[u] = cmd[u]
    BY <1>20 DEF Call, Goto, Leading, TypeOK
  <2> QED
    BY <1>20, <2>1, OthersLead, SingleFlightKept DEF Call, maps, flight
<1>21. CASE ClearMemory
  BY <1>21, TypeFacts DEF ClearMemory, Nothing, Bump, flight, local, Leading,
    Key, SingleFlight, TypeOK, Busy, Flights
<1>22. CASE Restart
  BY <1>22, TypeFacts DEF Restart, Nothing, Bump, Leading, Key, SingleFlight,
    TypeOK, Busy, Flights
<1> QED
  BY <1>2, <1>3, <1>4, <1>5, <1>6, <1>7, <1>8, <1>9, <1>10, <1>11, <1>12,
    <1>13, <1>14, <1>15, <1>16, <1>17, <1>18, <1>19, <1>20, <1>21, <1>22 DEF
    Next, Step, Fault

\* Caches holds after every step.
LEMMA CachesStep ==
  ASSUME TypeOK, Busy, Caches, Next
  PROVE  Caches'
<1> USE KeyAssumption, NoneAssumption, CapacityAssumption
<1>1. ASSUME UNCHANGED <<memory, recency, uncertain>>
      PROVE  Caches'
  BY <1>1 DEF Caches
<1>2. ASSUME NEW th \in Threads,
             \/ RethrowUncertain(th) \/ WaitForLeader(th) \/ WaitForSlot(th) \/
               Lead(th) \/ SleepAgain(th) \/ TakeOutcome(th) \/ FindStored(th)
               \/ FindNothing(th) \/ AdapterReturns(th) \/ Store(th) \/
               Notify(th) \/ FindThrows(th) \/ AdapterThrows(th) \/
               StoreThrows(th) \/ RememberThrows(th) \/ WakeSpuriously(th)
      PROVE  Caches'
  BY <1>1, <1>2 DEF RethrowUncertain, Leave, maps, flight, history, bounds,
    WaitForLeader, WaitForSlot, Lead, SleepAgain, TakeOutcome, Answer,
    FindStored, Goto, FindNothing, AdapterReturns, Store, Notify, FindThrows,
    AdapterThrows, StoreThrows, RememberThrows, WakeSpuriously
<1>3. ASSUME NEW th \in Threads, ReturnCached(th)
      PROVE  Caches'
  <2>1. Key(th) \in DOMAIN memory /\ Key(th) \in Keys
    BY <1>3, TypeFacts DEF ReturnCached
  <2>2. recency' = Fronted(Key(th)) /\ UNCHANGED <<memory, uncertain>>
    BY <1>3 DEF ReturnCached
  <2>3. DOMAIN memory \cup {Key(th)} = DOMAIN memory
    BY <2>1
  <2> DEFINE s == Fronted(Key(th))
  <2>4. /\ Len(s) = Len(recency)
        /\ \A i, j \in 1..Len(s) : s[i] = s[j] => i = j
        /\ \A i \in 1..Len(s) : s[i] \in DOMAIN memory
        /\ \A x \in DOMAIN memory : \E i \in 1..Len(s) : s[i] = x
    BY <2>1, <2>3, FrontedFacts
  <2> HIDE DEF s
  <2>5. recency' = s
    BY <2>2 DEF s
  <2> QED
    BY <2>2, <2>4, <2>5 DEF Caches
<1>4. ASSUME NEW th \in Threads, Remember(th)
      PROVE  Caches'
  <2> DEFINE k == Key(th)
             s == Kept(k)
  <2>1. k \in Keys
    BY <1>4 DEF Remember, Key, Busy
  <2>2. recency' = s /\ UNCHANGED uncertain
    BY <1>4 DEF Remember, RememberInMemory
  <2>3. /\ s \in Seq(Keys)
        /\ Len(s) <= MaxMemoryOutcomes
        /\ \A i, j \in 1..Len(s) : s[i] = s[j] => i = j
        /\ \A i \in 1..Len(s) : s[i] \in DOMAIN memory \cup {k}
    BY <2>1, KeptFacts
  <2>4. DOMAIN memory' = {x \in DOMAIN memory \cup {k} : \E i \in DOMAIN s : s[i] = x}
    BY <1>4 DEF Remember, RememberInMemory
  <2> HIDE DEF s, k
  <2>5. DOMAIN s = 1..Len(s)
    BY <2>3, LenProperties
  <2> QED
    BY <2>2, <2>3, <2>4, <2>5 DEF Caches
<1>5. ASSUME NEW th \in Threads, FinishFailure(th)
      PROVE  Caches'
  <2> DEFINE k == Key(th)
             full == k \notin DOMAIN uncertain
                     /\ Cardinality(DOMAIN uncertain) >= MaxMemoryOutcomes
  <2>1. PICK gone \in IF full THEN {{x} : x \in DOMAIN uncertain} ELSE {{}},
             lost \in {{}, {k}} :
          uncertain' = Without(Put(Without(uncertain, gone), k, cmd[th]), lost)
    BY <1>5 DEF FinishFailure
  <2>2. DOMAIN uncertain' = ((DOMAIN uncertain \ gone) \cup {k}) \ lost
    BY <2>1 DEF Without, Put
  <2> DEFINE rest == DOMAIN uncertain \ gone
             with == rest \cup {k}
  <2> USE DEF Caches
  <2>3. Cardinality(DOMAIN uncertain) \in Nat
    BY FS_CardinalityType
  <2>4. IsFiniteSet(rest) /\ Cardinality(rest) \in Nat
    BY FS_Subset, FS_CardinalityType
  <2>5. /\ IsFiniteSet(with)
        /\ Cardinality(with) \in Nat
        /\ Cardinality(with) = IF k \in rest THEN Cardinality(rest) ELSE Cardinality(rest) + 1
    BY <2>4, FS_AddElement, FS_CardinalityType
  <2>6. Cardinality(with) <= MaxMemoryOutcomes
    <3>1. CASE full
      <4>1. PICK x \in DOMAIN uncertain : gone = {x}
        BY <2>1, <3>1
      <4>2. Cardinality(rest) = Cardinality(DOMAIN uncertain) - 1
        BY <4>1, FS_RemoveElement
      <4> QED
        BY <2>3, <2>4, <2>5, <4>2
    <3>2. CASE ~full
      <4>1. rest = DOMAIN uncertain
        BY <2>1, <3>2
      <4> QED
        BY <2>3, <2>5, <3>2, <4>1
    <3> QED
      BY <3>1, <3>2
  <2>7. /\ IsFiniteSet(DOMAIN uncertain')
        /\ Cardinality(DOMAIN uncertain') <= Cardinality(with)
        /\ Cardinality(DOMAIN uncertain') \in Nat
    <3>1. DOMAIN uncertain' \subseteq with
      BY <2>2
    <3> QED
      BY <2>5, <3>1, FS_Subset, FS_CardinalityType
  <2>8. Cardinality(DOMAIN uncertain') <= MaxMemoryOutcomes
    BY <2>5, <2>6, <2>7
  <2> QED
    BY <1>5, <2>7, <2>8 DEF FinishFailure
<1>6. ASSUME NEW th \in Threads, NEW c \in Commands, Call(th, c)
      PROVE  Caches'
  BY <1>1, <1>6 DEF Call, maps, flight, history
<1>7. CASE ClearMemory
  <2>1. DOMAIN memory' = {} /\ recency' = <<>> /\ DOMAIN uncertain' = {}
    BY <1>7 DEF ClearMemory, Nothing
  <2> QED
    BY <2>1, FS_EmptySet DEF Caches
<1>8. CASE Restart
  <2>1. DOMAIN memory' = {} /\ recency' = <<>> /\ DOMAIN uncertain' = {}
    BY <1>8 DEF Restart, Nothing
  <2> QED
    BY <2>1, FS_EmptySet DEF Caches
<1> QED
  BY <1>2, <1>3, <1>4, <1>5, <1>6, <1>7, <1>8 DEF Next, Step, Fault

\* A step of th that leaves it awake or with nothing to wake up for, and that
\* the other threads do not see, loses no wakeup.
LEMMA WakeupKept ==
  ASSUME NoLostWakeup, NEW th \in Threads,
         ~(Waiting(th))' \/ ~(Ready(th))',
         \A u \in Threads \ {th} : /\ (Ready(u))' = Ready(u)
                                   /\ (Waiting(u))' = Waiting(u)
                                   /\ u \in woken' <=> u \in woken,
         \A u \in Threads : pc[u] = "notify" => pc'[u] = "notify"
  PROVE  NoLostWakeup'
BY DEF NoLostWakeup

\* A leader's step that leaves the maps and the entries alone is such a step.
LEMMA LeaderUnseen ==
  ASSUME TypeOK, NoLostWakeup, NEW th \in Threads, Leading(th),
         NEW label, label \in {"find", "call", "store", "remember", "fail"},
         Goto(th, label), UNCHANGED <<maps, flight, cmd, entry, woken>>
  PROVE  NoLostWakeup'
<1>1. ~(Waiting(th))' /\ pc[th] # "notify"
  BY DEF Goto, Leading, Waiting, TypeOK
<1>2. \A u \in Threads \ {th} : /\ (Ready(u))' = Ready(u)
                                /\ (Waiting(u))' = Waiting(u)
                                /\ pc'[u] = pc[u]
  BY DEF Goto, maps, flight, Ready, EntryReady, SlotReady, SlotFree, Key, Waiting,
    TypeOK
<1> QED
  BY <1>1, <1>2, WakeupKept

\* NoLostWakeup holds after every step.
LEMMA WakeupStep ==
  ASSUME TypeOK, Busy, Flights, EntriesTold, NoLostWakeup, Next
  PROVE  NoLostWakeup'
<1> USE KeyAssumption, NoneAssumption, CapacityAssumption
<1>1. ASSUME UNCHANGED <<pc, cmd, entry, woken, entries, memory, uncertain, inFlight>>
      PROVE  NoLostWakeup'
  BY <1>1 DEF NoLostWakeup, Waiting, Ready, EntryReady, SlotReady, SlotFree,
    Key
<1>2. ASSUME NEW th \in Threads, ReturnCached(th)
      PROVE  NoLostWakeup'
  <2>1. ~(Waiting(th))' /\ pc[th] # "notify"
    BY <1>2 DEF ReturnCached, AtLoop, Leave, Waiting, TypeOK
  <2>2. \A u \in Threads \ {th} : /\ (Ready(u))' = Ready(u)
                                  /\ (Waiting(u))' = Waiting(u)
                                  /\ u \in woken' <=> u \in woken
                                  /\ pc'[u] = pc[u]
    BY <1>2 DEF ReturnCached, Leave, maps, flight, Ready, EntryReady, SlotReady,
      SlotFree, Key, Waiting, TypeOK
  <2> QED
    BY <2>1, <2>2, WakeupKept
<1>3. ASSUME NEW th \in Threads, RethrowUncertain(th)
      PROVE  NoLostWakeup'
  <2>1. ~(Waiting(th))' /\ pc[th] # "notify"
    BY <1>3 DEF RethrowUncertain, AtLoop, Leave, Waiting, TypeOK
  <2>2. \A u \in Threads \ {th} : /\ (Ready(u))' = Ready(u)
                                  /\ (Waiting(u))' = Waiting(u)
                                  /\ u \in woken' <=> u \in woken
                                  /\ pc'[u] = pc[u]
    BY <1>3 DEF RethrowUncertain, Leave, maps, flight, Ready, EntryReady, SlotReady,
      SlotFree, Key, Waiting, TypeOK
  <2> QED
    BY <2>1, <2>2, WakeupKept
<1>4. ASSUME NEW th \in Threads, WaitForLeader(th)
      PROVE  NoLostWakeup'
  <2>1. ~entries[inFlight[Key(th)]].completed
    BY <1>4 DEF WaitForLeader, Flights
  <2>2. pc' = [pc EXCEPT ![th] = "waitEntry"] /\ entry'[th] = inFlight[Key(th)]
    BY <1>4 DEF WaitForLeader, TypeOK
  <2>3. ~(Ready(th))'
    BY <1>4, <2>1, <2>2 DEF WaitForLeader, flight, Ready, EntryReady, TypeOK
  <2>4. \A u \in Threads \ {th} : /\ (Ready(u))' = Ready(u)
                                  /\ (Waiting(u))' = Waiting(u)
                                  /\ u \in woken' <=> u \in woken
    BY <1>4 DEF WaitForLeader, maps, flight, Ready, EntryReady, SlotReady, SlotFree,
      Key, Waiting, TypeOK
  <2>5. \A u \in Threads : pc[u] = "notify" => pc'[u] = "notify"
    BY <1>4 DEF WaitForLeader, Unknown, AtLoop, TypeOK
  <2> QED
    BY <2>3, <2>4, <2>5, WakeupKept
<1>5. ASSUME NEW th \in Threads, WaitForSlot(th)
      PROVE  NoLostWakeup'
  <2>1. ~(Ready(th))'
    BY <1>5 DEF WaitForSlot, Unknown, maps, flight, Ready, SlotReady, SlotFree, Key,
      TypeOK
  <2>2. \A u \in Threads \ {th} : /\ (Ready(u))' = Ready(u)
                                  /\ (Waiting(u))' = Waiting(u)
                                  /\ u \in woken' <=> u \in woken
    BY <1>5 DEF WaitForSlot, maps, flight, Ready, EntryReady, SlotReady, SlotFree,
      Key, Waiting, TypeOK
  <2>3. \A u \in Threads : pc[u] = "notify" => pc'[u] = "notify"
    BY <1>5 DEF WaitForSlot, Unknown, AtLoop, TypeOK
  <2> QED
    BY <2>1, <2>2, <2>3, WakeupKept
<1>6. ASSUME NEW th \in Threads, Lead(th)
      PROVE  NoLostWakeup'
  BY <1>6, TypeFacts DEF Lead, Unknown, AtLoop, NewEntry, Put, maps, history,
    bounds, Waiting, Ready, EntryReady, SlotReady, SlotFree, Key, NoLostWakeup,
    TypeOK, Busy, Flights, EntriesTold
<1>7. ASSUME NEW th \in Threads, SleepAgain(th)
      PROVE  NoLostWakeup'
  <2>1. \A u \in Threads : (Ready(u))' = Ready(u) /\ (Waiting(u))' = Waiting(u)
    BY <1>7 DEF SleepAgain, maps, flight, Ready, EntryReady, SlotReady, SlotFree,
      Key, Waiting
  <2> QED
    BY <1>7, <2>1 DEF SleepAgain, NoLostWakeup
<1>8. ASSUME NEW th \in Threads, TakeOutcome(th)
      PROVE  NoLostWakeup'
  <2>1. ~(Waiting(th))' /\ pc[th] # "notify"
    BY <1>8 DEF TakeOutcome, Leave, Waiting, TypeOK
  <2>2. \A u \in Threads \ {th} : /\ (Ready(u))' = Ready(u)
                                  /\ (Waiting(u))' = Waiting(u)
                                  /\ u \in woken' <=> u \in woken
                                  /\ pc'[u] = pc[u]
    BY <1>8 DEF TakeOutcome, Leave, maps, flight, Ready, EntryReady, SlotReady,
      SlotFree, Key, Waiting, TypeOK
  <2> QED
    BY <2>1, <2>2, WakeupKept
<1>9. ASSUME NEW th \in Threads, FindStored(th)
      PROVE  NoLostWakeup'
  <2>1. PICK label \in {"remember", "fail"} : Goto(th, label)
    BY <1>9 DEF FindStored
  <2> QED
    BY <1>9, <2>1, LeaderUnseen DEF FindStored, Leading
<1>10. ASSUME NEW th \in Threads, FindNothing(th)
      PROVE  NoLostWakeup'
  BY <1>10, LeaderUnseen DEF FindNothing, Leading
<1>11. ASSUME NEW th \in Threads, AdapterReturns(th)
      PROVE  NoLostWakeup'
  BY <1>11, LeaderUnseen DEF AdapterReturns, Leading
<1>12. ASSUME NEW th \in Threads, Store(th)
      PROVE  NoLostWakeup'
  BY <1>12, LeaderUnseen DEF Store, Leading
<1>13. ASSUME NEW th \in Threads, Remember(th)
      PROVE  NoLostWakeup'
  BY <1>13 DEF Remember, RememberInMemory, Goto, NoLostWakeup, TypeOK
<1>14. ASSUME NEW th \in Threads, FinishFailure(th)
      PROVE  NoLostWakeup'
  BY <1>14 DEF FinishFailure, Goto, NoLostWakeup, TypeOK
<1>15. ASSUME NEW th \in Threads, Notify(th)
      PROVE  NoLostWakeup'
  BY <1>15 DEF Notify, Waiting, Leave, NoLostWakeup, TypeOK
<1>16. ASSUME NEW th \in Threads, FindThrows(th)
      PROVE  NoLostWakeup'
  BY <1>16, LeaderUnseen DEF FindThrows, Leading
<1>17. ASSUME NEW th \in Threads, AdapterThrows(th)
      PROVE  NoLostWakeup'
  BY <1>17, LeaderUnseen DEF AdapterThrows, Leading
<1>18. ASSUME NEW th \in Threads, StoreThrows(th)
      PROVE  NoLostWakeup'
  BY <1>18, LeaderUnseen DEF StoreThrows, Leading
<1>19. ASSUME NEW th \in Threads, RememberThrows(th)
      PROVE  NoLostWakeup'
  BY <1>19, TypeFacts DEF RememberThrows, Goto, maps, history, bounds, Waiting,
    Ready, EntryReady, SlotReady, SlotFree, Key, NoLostWakeup, TypeOK, Busy,
    Flights, EntriesTold
<1>20. ASSUME NEW th \in Threads, WakeSpuriously(th)
      PROVE  NoLostWakeup'
  BY <1>20, TypeFacts DEF WakeSpuriously, Waiting, maps, flight, history,
    bounds, Ready, EntryReady, SlotReady, SlotFree, Key, NoLostWakeup, TypeOK,
    Busy, Flights, EntriesTold
<1>21. ASSUME NEW th \in Threads, NEW c \in Commands, Call(th, c)
      PROVE  NoLostWakeup'
  BY <1>21, TypeFacts DEF Call, maps, flight, history, Waiting, Ready,
    EntryReady, SlotReady, SlotFree, Key, NoLostWakeup, TypeOK, Busy, Flights,
    EntriesTold
<1>22. CASE ClearMemory
  BY <1>22, TypeFacts DEF ClearMemory, Nothing, Bump, flight, local, Waiting,
    Ready, EntryReady, SlotReady, SlotFree, Key, NoLostWakeup, TypeOK, Busy,
    Flights, EntriesTold
<1>23. CASE Restart
  BY <1>23, TypeFacts DEF Restart, Nothing, Bump, Waiting, Ready, EntryReady,
    SlotReady, SlotFree, Key, NoLostWakeup, TypeOK, Busy, Flights, EntriesTold
<1> QED
  BY <1>2, <1>3, <1>4, <1>5, <1>6, <1>7, <1>8, <1>9, <1>10, <1>11, <1>12,
    <1>13, <1>14, <1>15, <1>16, <1>17, <1>18, <1>19, <1>20, <1>21, <1>22, <1>23
    DEF Next, Step, Fault

-----------------------------------------------------------------------------
(* Every step keeps the counts *)

\* The end of a flight: whatever is no longer known is counted as forgotten.
LEMMA CountedEnd ==
  ASSUME TypeOK, Busy, Counted, NEW th \in Threads, Key(th) \in Keys,
         Goto(th, "notify"), UNCHANGED <<cmd, executed>>,
         DOMAIN inFlight' = DOMAIN inFlight \ {Key(th)},
         NEW lost,
         \A x \in Keys :
           forgotten'[x] = IF x \in lost THEN forgotten[x] + 1 ELSE forgotten[x],
         \A x \in DOMAIN memory \cup DOMAIN uncertain \cup {Key(th)} :
           x \in lost \/ x \in DOMAIN memory' \/ x \in DOMAIN uncertain'
  PROVE  Counted'
<1>1. \A x \in Keys : executed[x] \in Nat /\ forgotten[x] \in Nat
  BY DEF TypeOK
<1>2. ASSUME NEW u \in Threads, pc'[u] \in {"find", "call"}
      PROVE  pc[u] = pc'[u] /\ (Key(u))' = Key(u) /\ Key(u) \in Keys
  BY <1>2, KeyAssumption DEF Goto, Key, Busy, TypeOK
<1>3. ReexecutedOnlyIfForgotten'
  BY <1>1 DEF Counted, ReexecutedOnlyIfForgotten
<1>4. ASSUME NEW x \in Keys,
             x \notin DOMAIN memory' \cup DOMAIN uncertain' \cup DOMAIN inFlight'
      PROVE  executed[x] <= forgotten'[x]
  <2>1. CASE x \in lost
    BY <1>1, <2>1 DEF Counted, ReexecutedOnlyIfForgotten
  <2>2. CASE x \notin lost
    BY <1>1, <1>4, <2>2 DEF Counted
  <2> QED
    BY <2>1, <2>2
<1>5. \A u \in Threads : pc'[u] \in {"find", "call"} => executed[Key(u)] <= forgotten'[Key(u)]
  BY <1>1, <1>2 DEF Counted
<1> QED
  BY <1>2, <1>3, <1>4, <1>5 DEF Counted

\* Counted holds after every step.
LEMMA CountedStep ==
  ASSUME TypeOK, Busy, Flights, SingleFlight, Counted, Next
  PROVE  Counted'
<1> USE KeyAssumption, NoneAssumption, CapacityAssumption
<1>1. ASSUME UNCHANGED <<pc, cmd, memory, uncertain, inFlight, executed, forgotten>>
      PROVE  Counted'
  BY <1>1 DEF Counted, ReexecutedOnlyIfForgotten, Key
<1>2. ASSUME NEW th \in Threads,
             \/ SleepAgain(th) \/ WakeSpuriously(th)
      PROVE  Counted'
  BY <1>1, <1>2 DEF SleepAgain, maps, flight, history, bounds, WakeSpuriously
<1>3. ASSUME NEW th \in Threads, ReturnCached(th)
      PROVE  Counted'
  BY <1>3, TypeFacts DEF ReturnCached, AtLoop, Answer, Leave, flight, bounds,
    ReexecutedOnlyIfForgotten, Key, Counted, TypeOK, Busy, Flights,
    SingleFlight
<1>4. ASSUME NEW th \in Threads, RethrowUncertain(th)
      PROVE  Counted'
  BY <1>4, TypeFacts DEF RethrowUncertain, AtLoop, Leave, maps, flight,
    history, bounds, ReexecutedOnlyIfForgotten, Key, Counted, TypeOK, Busy,
    Flights, SingleFlight
<1>5. ASSUME NEW th \in Threads, WaitForLeader(th)
      PROVE  Counted'
  BY <1>5, TypeFacts DEF WaitForLeader, Unknown, AtLoop, maps, flight, history,
    bounds, ReexecutedOnlyIfForgotten, Key, Counted, TypeOK, Busy, Flights,
    SingleFlight
<1>6. ASSUME NEW th \in Threads, WaitForSlot(th)
      PROVE  Counted'
  BY <1>6, TypeFacts DEF WaitForSlot, Unknown, AtLoop, maps, flight, history,
    bounds, ReexecutedOnlyIfForgotten, Key, Counted, TypeOK, Busy, Flights,
    SingleFlight
<1>7. ASSUME NEW th \in Threads, Lead(th)
      PROVE  Counted'
  <2>1. /\ Key(th) \in Keys
        /\ Key(th) \notin DOMAIN memory \cup DOMAIN uncertain \cup DOMAIN inFlight
    BY <1>7 DEF Lead, Unknown, AtLoop, Key, Busy
  <2>2. DOMAIN inFlight' = DOMAIN inFlight \cup {Key(th)}
    BY <1>7 DEF Lead, Put
  <2>3. executed[Key(th)] <= forgotten[Key(th)]
    BY <2>1 DEF Counted
  <2>4. \A u \in Threads : (Key(u))' = Key(u) /\ (u # th => pc'[u] = pc[u])
    BY <1>7 DEF Lead, Key, TypeOK
  <2> QED
    BY <1>7, <2>2, <2>3, <2>4 DEF Lead, maps, history, Counted, ReexecutedOnlyIfForgotten
<1>8. ASSUME NEW th \in Threads, TakeOutcome(th)
      PROVE  Counted'
  BY <1>8, TypeFacts DEF TakeOutcome, Answer, Leave, maps, flight, bounds,
    ReexecutedOnlyIfForgotten, Key, Counted, TypeOK, Busy, Flights,
    SingleFlight
<1>9. ASSUME NEW th \in Threads, FindStored(th)
      PROVE  Counted'
  BY <1>9 DEF FindStored, Goto, maps, flight, history, Key, TypeOK, Counted,
    ReexecutedOnlyIfForgotten
<1>10. ASSUME NEW th \in Threads, FindNothing(th)
      PROVE  Counted'
  BY <1>10, TypeFacts DEF FindNothing, Goto, maps, flight, history, bounds,
    ReexecutedOnlyIfForgotten, Key, Counted, TypeOK, Busy, Flights,
    SingleFlight
<1>11. ASSUME NEW th \in Threads, AdapterReturns(th)
      PROVE  Counted'
  <2>1. Key(th) \in Keys /\ Leading(th) /\ Key(th) \in DOMAIN inFlight
    BY <1>11 DEF AdapterReturns, Leading, Key, Busy, Flights
  <2>2. \A x \in Keys : executed'[x] = IF x = Key(th) THEN executed[x] + 1 ELSE executed[x]
    BY <1>11 DEF AdapterReturns, Bump, TypeOK
  <2>3. /\ executed[Key(th)] <= forgotten[Key(th)]
        /\ UNCHANGED <<cmd, memory, uncertain, inFlight, forgotten>>
    BY <1>11 DEF AdapterReturns, maps, flight, Counted
  <2>4. ASSUME NEW u \in Threads, pc'[u] \in {"find", "call"}
        PROVE  u # th /\ pc[u] = pc'[u] /\ (Key(u))' = Key(u) /\ Key(u) # Key(th)
    <3>1. u # th /\ pc[u] = pc'[u] /\ (Key(u))' = Key(u)
      BY <1>11, <2>4 DEF AdapterReturns, Goto, Key, TypeOK
    <3> QED
      BY <2>1, <2>4, <3>1 DEF SingleFlight, Leading
  <2>5. \A u \in Threads : pc'[u] \in {"find", "call"} => Key(u) \in Keys
    BY <2>4 DEF Key, Busy
  <2>6. \A x \in Keys : executed[x] \in Nat /\ forgotten[x] \in Nat
    BY DEF TypeOK
  <2>7. ReexecutedOnlyIfForgotten'
    BY <2>2, <2>3, <2>6 DEF Counted, ReexecutedOnlyIfForgotten
  <2>8. \A x \in Keys :
          x \notin DOMAIN memory' \cup DOMAIN uncertain' \cup DOMAIN inFlight'
            => executed'[x] <= forgotten'[x]
    BY <2>1, <2>2, <2>3 DEF Counted
  <2>9. \A u \in Threads :
          pc'[u] \in {"find", "call"} => executed'[(Key(u))'] <= forgotten'[(Key(u))']
    BY <2>2, <2>3, <2>4, <2>5 DEF Counted
  <2> QED
    BY <2>7, <2>8, <2>9 DEF Counted
<1>12. ASSUME NEW th \in Threads, Store(th)
      PROVE  Counted'
  BY <1>12, TypeFacts DEF Store, Put, Goto, maps, flight, history, bounds,
    ReexecutedOnlyIfForgotten, Key, Counted, TypeOK, Busy, Flights,
    SingleFlight
<1>13. ASSUME NEW th \in Threads, Remember(th)
      PROVE  Counted'
  <2> DEFINE k == Key(th)
             lost == (DOMAIN memory \cup {k}) \ DOMAIN memory'
  <2>1. k \in Keys /\ pc[th] = "remember"
    BY <1>13 DEF Remember, Key, Busy
  <2>2. /\ DOMAIN inFlight' = DOMAIN inFlight \ {k}
        /\ forgotten' = Bump(forgotten, lost)
        /\ UNCHANGED <<executed, cmd, uncertain>>
        /\ Goto(th, "notify")
    BY <1>13 DEF Remember, RememberInMemory, Without
  <2> HIDE DEF lost
  <2>3. \A x \in Keys : forgotten'[x] = IF x \in lost THEN forgotten[x] + 1 ELSE forgotten[x]
    BY <2>2 DEF Bump, TypeOK
  <2> QED
    BY <2>1, <2>2, <2>3, CountedEnd DEF lost
<1>14. ASSUME NEW th \in Threads, FinishFailure(th)
      PROVE  Counted'
  <2> DEFINE k == Key(th)
  <2>1. k \in Keys
    BY <1>14 DEF FinishFailure, Key, Busy
  <2>2. PICK gone, lost :
          /\ uncertain' = Without(Put(Without(uncertain, gone), k, cmd[th]), lost)
          /\ forgotten' = Bump(forgotten, gone \cup lost)
    BY <1>14 DEF FinishFailure
  <2>3. DOMAIN uncertain' = ((DOMAIN uncertain \ gone) \cup {k}) \ lost
    BY <2>2 DEF Without, Put
  <2>4. \A x \in Keys :
          forgotten'[x] = IF x \in gone \cup lost THEN forgotten[x] + 1 ELSE forgotten[x]
    BY <2>2 DEF Bump, TypeOK
  <2>5. /\ DOMAIN inFlight' = DOMAIN inFlight \ {k}
        /\ UNCHANGED <<executed, cmd, memory>>
        /\ Goto(th, "notify")
    BY <1>14 DEF FinishFailure, Without
  <2> HIDE DEF k
  <2> QED
    BY <2>1, <2>3, <2>4, <2>5, CountedEnd DEF k
<1>15. ASSUME NEW th \in Threads, Notify(th)
      PROVE  Counted'
  BY <1>15 DEF Notify, Leave, maps, flight, Key, TypeOK, Counted, ReexecutedOnlyIfForgotten
<1>16. ASSUME NEW th \in Threads, FindThrows(th)
      PROVE  Counted'
  BY <1>16, TypeFacts DEF FindThrows, Goto, maps, flight, history, bounds,
    ReexecutedOnlyIfForgotten, Key, Counted, TypeOK, Busy, Flights,
    SingleFlight
<1>17. ASSUME NEW th \in Threads, AdapterThrows(th)
      PROVE  Counted'
  <2>1. Key(th) \in Keys /\ Leading(th) /\ Key(th) \in DOMAIN inFlight
    BY <1>17 DEF AdapterThrows, Leading, Key, Busy, Flights
  <2>2. \A x \in Keys : executed'[x] = IF x = Key(th) THEN executed[x] + 1 ELSE executed[x]
    BY <1>17 DEF AdapterThrows, Bump, TypeOK
  <2>3. /\ executed[Key(th)] <= forgotten[Key(th)]
        /\ UNCHANGED <<cmd, memory, uncertain, inFlight, forgotten>>
    BY <1>17 DEF AdapterThrows, maps, flight, Counted
  <2>4. ASSUME NEW u \in Threads, pc'[u] \in {"find", "call"}
        PROVE  u # th /\ pc[u] = pc'[u] /\ (Key(u))' = Key(u) /\ Key(u) # Key(th)
    <3>1. u # th /\ pc[u] = pc'[u] /\ (Key(u))' = Key(u)
      BY <1>17, <2>4 DEF AdapterThrows, Goto, Key, TypeOK
    <3> QED
      BY <2>1, <2>4, <3>1 DEF SingleFlight, Leading
  <2>5. \A u \in Threads : pc'[u] \in {"find", "call"} => Key(u) \in Keys
    BY <2>4 DEF Key, Busy
  <2>6. \A x \in Keys : executed[x] \in Nat /\ forgotten[x] \in Nat
    BY DEF TypeOK
  <2>7. ReexecutedOnlyIfForgotten'
    BY <2>2, <2>3, <2>6 DEF Counted, ReexecutedOnlyIfForgotten
  <2>8. \A x \in Keys :
          x \notin DOMAIN memory' \cup DOMAIN uncertain' \cup DOMAIN inFlight'
            => executed'[x] <= forgotten'[x]
    BY <2>1, <2>2, <2>3 DEF Counted
  <2>9. \A u \in Threads :
          pc'[u] \in {"find", "call"} => executed'[(Key(u))'] <= forgotten'[(Key(u))']
    BY <2>2, <2>3, <2>4, <2>5 DEF Counted
  <2> QED
    BY <2>7, <2>8, <2>9 DEF Counted
<1>18. ASSUME NEW th \in Threads, StoreThrows(th)
      PROVE  Counted'
  BY <1>18, TypeFacts DEF StoreThrows, Put, Goto, maps, flight, history,
    bounds, ReexecutedOnlyIfForgotten, Key, Counted, TypeOK, Busy, Flights,
    SingleFlight
<1>19. ASSUME NEW th \in Threads, RememberThrows(th)
      PROVE  Counted'
  BY <1>19, TypeFacts DEF RememberThrows, Goto, maps, history, bounds,
    ReexecutedOnlyIfForgotten, Key, Counted, TypeOK, Busy, Flights,
    SingleFlight
<1>20. ASSUME NEW th \in Threads, NEW c \in Commands, Call(th, c)
      PROVE  Counted'
  BY <1>20, TypeFacts DEF Call, maps, flight, history,
    ReexecutedOnlyIfForgotten, Key, Counted, TypeOK, Busy, Flights,
    SingleFlight
<1>21. CASE ClearMemory
  <2>1. DOMAIN memory' = {} /\ DOMAIN uncertain' = {}
    BY <1>21 DEF ClearMemory, Nothing
  <2>2. \A x \in Keys : forgotten'[x] = IF x \in DOMAIN memory \cup DOMAIN uncertain
                                        THEN forgotten[x] + 1 ELSE forgotten[x]
    BY <1>21 DEF ClearMemory, Bump, TypeOK
  <2>3. UNCHANGED <<pc, cmd, inFlight, executed>>
    BY <1>21 DEF ClearMemory, flight, local
  <2>4. \A th \in Threads : (Key(th))' = Key(th) /\ (pc[th] # "idle" => Key(th) \in Keys)
    BY <2>3 DEF Key, Busy
  <2>5. \A x \in Keys : executed[x] \in Nat /\ forgotten[x] \in Nat
    BY DEF TypeOK
  <2>6. ReexecutedOnlyIfForgotten'
    BY <2>2, <2>3, <2>5 DEF Counted, ReexecutedOnlyIfForgotten
  <2>7. \A x \in Keys :
          x \notin DOMAIN memory' \cup DOMAIN uncertain' \cup DOMAIN inFlight'
            => executed'[x] <= forgotten'[x]
    BY <2>1, <2>2, <2>3, <2>5 DEF Counted, ReexecutedOnlyIfForgotten
  <2>8. \A u \in Threads :
          pc'[u] \in {"find", "call"} => executed'[(Key(u))'] <= forgotten'[(Key(u))']
    BY <2>2, <2>3, <2>4, <2>5 DEF Counted
  <2> QED
    BY <2>6, <2>7, <2>8 DEF Counted
<1>22. CASE Restart
  BY <1>22, TypeFacts DEF Restart, Nothing, Bump, ReexecutedOnlyIfForgotten,
    Key, Counted, TypeOK, Busy, Flights, SingleFlight
<1> QED
  BY <1>2, <1>3, <1>4, <1>5, <1>6, <1>7, <1>8, <1>9, <1>10, <1>11, <1>12,
    <1>13, <1>14, <1>15, <1>16, <1>17, <1>18, <1>19, <1>20, <1>21, <1>22 DEF
    Next, Step, Fault

-----------------------------------------------------------------------------
(* Every step keeps callers and persistent cache in agreement *)

\* Stored holds after every step.
LEMMA StoredStep ==
  ASSUME TypeOK, Busy, Flights, SingleFlight, Stored, Next
  PROVE  Stored'
<1> USE KeyAssumption, NoneAssumption, CapacityAssumption
<1>1. ASSUME UNCHANGED <<pc, cmd, got, persisted>>
      PROVE  Stored'
  BY <1>1 DEF Stored, Key
<1>2. ASSUME NEW th \in Threads,
             \/ SleepAgain(th) \/ WakeSpuriously(th)
      PROVE  Stored'
  BY <1>1, <1>2 DEF SleepAgain, maps, flight, history, bounds, WakeSpuriously
<1>3. ASSUME NEW th \in Threads, ReturnCached(th)
      PROVE  Stored'
  BY <1>3 DEF ReturnCached, AtLoop, Answer, Leave, flight, bounds, Key, Stored,
    TypeOK, Busy, Flights, SingleFlight
<1>4. ASSUME NEW th \in Threads, RethrowUncertain(th)
      PROVE  Stored'
  BY <1>4 DEF RethrowUncertain, Leave, Key, TypeOK, Stored
<1>5. ASSUME NEW th \in Threads, WaitForLeader(th)
      PROVE  Stored'
  BY <1>5 DEF WaitForLeader, Unknown, AtLoop, maps, flight, history, bounds,
    Key, Stored, TypeOK, Busy, Flights, SingleFlight
<1>6. ASSUME NEW th \in Threads, WaitForSlot(th)
      PROVE  Stored'
  BY <1>6 DEF WaitForSlot, Unknown, AtLoop, maps, flight, history, bounds, Key,
    Stored, TypeOK, Busy, Flights, SingleFlight
<1>7. ASSUME NEW th \in Threads, Lead(th)
      PROVE  Stored'
  BY <1>7 DEF Lead, Unknown, AtLoop, NewEntry, Put, maps, history, bounds, Key,
    Stored, TypeOK, Busy, Flights, SingleFlight
<1>8. ASSUME NEW th \in Threads, TakeOutcome(th)
      PROVE  Stored'
  BY <1>8 DEF TakeOutcome, Answer, Leave, maps, flight, bounds, Key, Stored,
    TypeOK, Busy, Flights, SingleFlight
<1>9. ASSUME NEW th \in Threads, FindStored(th)
      PROVE  Stored'
  <2>1. /\ UNCHANGED <<cmd, persisted>>
        /\ pc'[th] \notin {"idle", "find", "call", "store"}
        /\ \A u \in Threads : u # th => pc'[u] = pc[u] /\ got'[u] = got[u]
    BY <1>9 DEF FindStored, Goto, TypeOK
  <2>2. \A u \in Threads : (Key(u))' = Key(u)
    BY <2>1 DEF Key
  <2>3. got'[th] = got[th] \/ got'[th].command = cmd[th]
    BY <1>9 DEF FindStored, TypeOK
  <2> QED
    BY <2>1, <2>2, <2>3 DEF Stored
<1>10. ASSUME NEW th \in Threads, FindNothing(th)
      PROVE  Stored'
  BY <1>10 DEF FindNothing, Goto, maps, flight, history, bounds, Key, Stored,
    TypeOK, Busy, Flights, SingleFlight
<1>11. ASSUME NEW th \in Threads, AdapterReturns(th)
      PROVE  Stored'
  BY <1>11 DEF AdapterReturns, Bump, Goto, maps, flight, bounds, Key, Stored,
    TypeOK, Busy, Flights, SingleFlight
<1>12. ASSUME NEW th \in Threads, Store(th)
      PROVE  Stored'
  <2>1. DOMAIN persisted' \subseteq DOMAIN persisted \cup {Key(th)}
    BY <1>12 DEF Store, Put
  <2>2. /\ Persistent
        /\ UNCHANGED <<cmd, got>>
        /\ pc'[th] \notin {"idle", "find", "call", "store"}
        /\ \A u \in Threads : u # th => pc'[u] = pc[u]
    BY <1>12 DEF Store, Goto, TypeOK, Stored
  <2>3. \A u \in Threads : (Key(u))' = Key(u)
    BY <2>2 DEF Key
  <2>4. \A u \in Threads : pc[u] \in {"call", "store"} /\ u # th => Key(u) # Key(th)
    BY <1>12 DEF Store, SingleFlight, Leading
  <2> QED
    BY <2>1, <2>2, <2>3, <2>4 DEF Stored
<1>13. ASSUME NEW th \in Threads, Remember(th)
      PROVE  Stored'
  BY <1>13 DEF Remember, RememberInMemory, Without, Bump, Goto, bounds, Key,
    Stored, TypeOK, Busy, Flights, SingleFlight
<1>14. ASSUME NEW th \in Threads, FinishFailure(th)
      PROVE  Stored'
  BY <1>14 DEF FinishFailure, Without, Put, Bump, Goto, bounds, Key, Stored,
    TypeOK, Busy, Flights, SingleFlight
<1>15. ASSUME NEW th \in Threads, Notify(th)
      PROVE  Stored'
  BY <1>15 DEF Notify, Waiting, Leave, maps, flight, bounds, Key, Stored,
    TypeOK, Busy, Flights, SingleFlight
<1>16. ASSUME NEW th \in Threads, FindThrows(th)
      PROVE  Stored'
  BY <1>16 DEF FindThrows, Goto, maps, flight, history, bounds, Key, Stored,
    TypeOK, Busy, Flights, SingleFlight
<1>17. ASSUME NEW th \in Threads, AdapterThrows(th)
      PROVE  Stored'
  BY <1>17 DEF AdapterThrows, Bump, Goto, maps, flight, bounds, Key, Stored,
    TypeOK, Busy, Flights, SingleFlight
<1>18. ASSUME NEW th \in Threads, StoreThrows(th)
      PROVE  Stored'
  <2>1. DOMAIN persisted' \subseteq DOMAIN persisted \cup {Key(th)}
    BY <1>18 DEF StoreThrows, Put
  <2>2. /\ Persistent
        /\ UNCHANGED <<cmd, got>>
        /\ pc'[th] \notin {"idle", "find", "call", "store"}
        /\ \A u \in Threads : u # th => pc'[u] = pc[u]
    BY <1>18 DEF StoreThrows, Goto, TypeOK, Stored
  <2>3. \A u \in Threads : (Key(u))' = Key(u)
    BY <2>2 DEF Key
  <2>4. \A u \in Threads : pc[u] \in {"call", "store"} /\ u # th => Key(u) # Key(th)
    BY <1>18 DEF StoreThrows, SingleFlight, Leading
  <2> QED
    BY <2>1, <2>2, <2>3, <2>4 DEF Stored
<1>19. ASSUME NEW th \in Threads, RememberThrows(th)
      PROVE  Stored'
  BY <1>19 DEF RememberThrows, Goto, maps, history, bounds, Key, Stored,
    TypeOK, Busy, Flights, SingleFlight
<1>20. ASSUME NEW th \in Threads, NEW c \in Commands, Call(th, c)
      PROVE  Stored'
  <2>1. got[th] = None
    BY <1>20 DEF Call, Stored
  <2>2. \A u \in Threads : u # th => (Key(u))' = Key(u) /\ pc'[u] = pc[u] /\ cmd'[u] = cmd[u]
    BY <1>20 DEF Call, Key, TypeOK
  <2>3. pc'[th] = "enter" /\ UNCHANGED <<got, persisted>>
    BY <1>20 DEF Call, TypeOK
  <2> QED
    BY <2>1, <2>2, <2>3 DEF Stored
<1>21. CASE ClearMemory
  BY <1>1, <1>21 DEF ClearMemory, flight, local
<1>22. CASE Restart
  BY <1>22 DEF Restart, Nothing, Bump, Key, Stored, TypeOK, Busy, Flights,
    SingleFlight
<1> QED
  BY <1>2, <1>3, <1>4, <1>5, <1>6, <1>7, <1>8, <1>9, <1>10, <1>11, <1>12,
    <1>13, <1>14, <1>15, <1>16, <1>17, <1>18, <1>19, <1>20, <1>21, <1>22 DEF
    Next, Step, Fault

\* The persistent cache only grows: a store is for a key that is not there.
LEMMA PersistedGrows ==
  ASSUME TypeOK, Stored, Next
  PROVE  \A k \in DOMAIN persisted : k \in DOMAIN persisted' /\ persisted'[k] = persisted[k]
<1>1. ASSUME UNCHANGED persisted
      PROVE  \A k \in DOMAIN persisted : k \in DOMAIN persisted' /\ persisted'[k] = persisted[k]
  BY <1>1
<1>2. ASSUME NEW th \in Threads, Store(th) \/ StoreThrows(th)
      PROVE  \A k \in DOMAIN persisted : k \in DOMAIN persisted' /\ persisted'[k] = persisted[k]
  <2>1. Key(th) \notin DOMAIN persisted
    BY <1>2 DEF Store, StoreThrows, Stored
  <2>2. persisted' = persisted \/ persisted' = Put(persisted, Key(th), got[th])
    BY <1>2 DEF Store, StoreThrows
  <2> QED
    BY <2>1, <2>2 DEF Put
<1>3. UNCHANGED persisted \/ \E th \in Threads : Store(th) \/ StoreThrows(th)
  BY DEF ReturnCached, RethrowUncertain, WaitForLeader, WaitForSlot, Lead,
    SleepAgain, TakeOutcome, FindStored, FindNothing, AdapterReturns, Remember,
    FinishFailure, Notify, FindThrows, AdapterThrows, RememberThrows,
    WakeSpuriously, Call, ClearMemory, Restart, Next, Step, Fault
<1> QED
  BY <1>1, <1>2, <1>3

\* What was stored stays stored.
LEMMA StaysStored ==
  ASSUME TypeOK, Stored, Next, NEW o, StoredIn(persisted, o)
  PROVE  StoredIn(persisted', o)
BY PersistedGrows DEF StoredIn

\* A step keeps Agreed when whatever it hands on is stored afterwards.
LEMMA AgreedFrom ==
  ASSUME TypeOK, Stored, Agreed, Next, Persistent,
         \A k \in DOMAIN memory' :
           StoredIn(persisted', memory'[k]) \/ (k \in DOMAIN memory /\ memory'[k] = memory[k]),
         \A i \in 1..Len(entries') : entries'[i].outcome # None =>
           \/ StoredIn(persisted', entries'[i].outcome)
           \/ i \in 1..Len(entries) /\ entries'[i].outcome = entries[i].outcome,
         \A th \in Threads : pc'[th] \in {"remember", "notify"} /\ got'[th] # None =>
           \/ StoredIn(persisted', got'[th])
           \/ pc[th] \in {"remember", "notify"} /\ got'[th] = got[th],
         \A o \in answers' : StoredIn(persisted', o) \/ o \in answers
  PROVE  Agreed'
<1>1. \A o : StoredIn(persisted, o) => StoredIn(persisted', o)
  BY StaysStored
<1>2. \A k \in DOMAIN memory' : StoredIn(persisted', memory'[k])
  BY <1>1 DEF Agreed
<1>3. \A i \in 1..Len(entries') :
        entries'[i].outcome # None => StoredIn(persisted', entries'[i].outcome)
  BY <1>1 DEF Agreed
<1>4. \A th \in Threads :
        pc'[th] \in {"remember", "notify"} /\ got'[th] # None => StoredIn(persisted', got'[th])
  BY <1>1 DEF Agreed
<1>5. \A o \in answers' : StoredIn(persisted', o)
  BY <1>1 DEF Agreed
<1> QED
  BY <1>2, <1>3, <1>4, <1>5 DEF Agreed

\* Agreed holds after every step.
LEMMA AgreedStep ==
  ASSUME TypeOK, Busy, Flights, SingleFlight, EntriesTold, Stored, Agreed, Next
  PROVE  Agreed'
<1> USE KeyAssumption, NoneAssumption, CapacityAssumption
<1>1. ASSUME UNCHANGED <<pc, got, persisted, memory, entries, answers>>
      PROVE  Agreed'
  BY <1>1 DEF Agreed, StoredIn
<1>2. ASSUME NEW th \in Threads,
             \/ SleepAgain(th) \/ WakeSpuriously(th)
      PROVE  Agreed'
  BY <1>1, <1>2 DEF SleepAgain, maps, flight, history, bounds, WakeSpuriously
<1>3. ASSUME NEW th \in Threads, ReturnCached(th)
      PROVE  Agreed'
  BY <1>3 DEF ReturnCached, AtLoop, Answer, Leave, flight, bounds, StoredIn,
    Agreed, TypeOK, Busy, Flights, SingleFlight, EntriesTold, Stored
<1>4. ASSUME NEW th \in Threads, RethrowUncertain(th)
      PROVE  Agreed'
  BY <1>4 DEF RethrowUncertain, AtLoop, Leave, maps, flight, history, bounds,
    StoredIn, Agreed, TypeOK, Busy, Flights, SingleFlight, EntriesTold, Stored
<1>5. ASSUME NEW th \in Threads, WaitForLeader(th)
      PROVE  Agreed'
  BY <1>5 DEF WaitForLeader, Unknown, AtLoop, maps, flight, history, bounds,
    StoredIn, Agreed, TypeOK, Busy, Flights, SingleFlight, EntriesTold, Stored
<1>6. ASSUME NEW th \in Threads, WaitForSlot(th)
      PROVE  Agreed'
  BY <1>6 DEF WaitForSlot, Unknown, AtLoop, maps, flight, history, bounds,
    StoredIn, Agreed, TypeOK, Busy, Flights, SingleFlight, EntriesTold, Stored
<1>7. ASSUME NEW th \in Threads, Lead(th)
      PROVE  Agreed'
  BY <1>7 DEF Lead, Unknown, AtLoop, NewEntry, Put, maps, history, bounds,
    StoredIn, Agreed, TypeOK, Busy, Flights, SingleFlight, EntriesTold, Stored
<1>8. ASSUME NEW th \in Threads, TakeOutcome(th)
      PROVE  Agreed'
  BY <1>8 DEF TakeOutcome, Answer, Leave, maps, flight, bounds, StoredIn,
    Agreed, TypeOK, Busy, Flights, SingleFlight, EntriesTold, Stored
<1>9. ASSUME NEW th \in Threads, FindStored(th)
      PROVE  Agreed'
  <2> SUFFICES ASSUME Persistent
               PROVE  Agreed'
    BY DEF Agreed
  <2>1. \A u \in Threads : u # th => pc'[u] = pc[u] /\ got'[u] = got[u]
    BY <1>9 DEF FindStored, Goto, TypeOK
  <2>2. pc'[th] = "remember" => got'[th] = persisted[Key(th)] /\ StoredIn(persisted, persisted[Key(th)])
    BY <1>9 DEF FindStored, Goto, StoredIn, Key, TypeOK
  <2>3. pc'[th] \in {"remember", "fail"}
    BY <1>9 DEF FindStored, Goto, TypeOK
  <2>4. \A o : StoredIn(persisted, o) => StoredIn(persisted', o)
    BY StaysStored
  <2>5. UNCHANGED <<memory, entries, answers>>
    BY <1>9 DEF FindStored, maps, flight, history
  <2> QED
    BY <2>1, <2>2, <2>3, <2>4, <2>5, AgreedFrom
<1>10. ASSUME NEW th \in Threads, FindNothing(th)
      PROVE  Agreed'
  BY <1>10 DEF FindNothing, Goto, maps, flight, history, bounds, StoredIn,
    Agreed, TypeOK, Busy, Flights, SingleFlight, EntriesTold, Stored
<1>11. ASSUME NEW th \in Threads, AdapterReturns(th)
      PROVE  Agreed'
  BY <1>11 DEF AdapterReturns, Bump, Goto, maps, flight, bounds, StoredIn,
    Agreed, TypeOK, Busy, Flights, SingleFlight, EntriesTold, Stored
<1>12. ASSUME NEW th \in Threads, Store(th)
      PROVE  Agreed'
  <2> SUFFICES ASSUME Persistent
               PROVE  Agreed'
    BY DEF Agreed
  <2>1. got[th] # None /\ got[th].command = cmd[th]
    BY <1>12 DEF Store, EntriesTold, Stored
  <2>2. StoredIn(persisted', got[th])
    BY <1>12, <2>1 DEF Store, Put, StoredIn, Key
  <2>3. /\ UNCHANGED <<got, memory, entries, answers>>
        /\ \A u \in Threads : u # th => pc'[u] = pc[u]
    BY <1>12 DEF Store, Goto, maps, flight, history, TypeOK
  <2>4. StoredIn(persisted', got'[th])
    BY <2>2, <2>3
  <2> QED
    BY <2>3, <2>4, AgreedFrom
<1>13. ASSUME NEW th \in Threads, Remember(th)
      PROVE  Agreed'
  <2> SUFFICES ASSUME Persistent
               PROVE  Agreed'
    BY DEF Agreed
  <2>1. entry[th] \in 1..Len(entries) /\ got[th] \in Outcome \cup {None}
    BY <1>13, LeaderHasEntry DEF Remember, Leading, TypeOK
  <2>2. Len(entries') = Len(entries)
    BY <1>13, <2>1, EntryUpdated DEF Remember
  <2>3. got[th] # None /\ StoredIn(persisted, got[th]) /\ StoredIn(persisted', got[th])
    BY <1>13, StaysStored DEF Remember, EntriesTold, Agreed
  <2>4. /\ DOMAIN memory' \subseteq DOMAIN memory \cup {Key(th)}
        /\ \A x \in DOMAIN memory' :
             memory'[x] = IF x = Key(th) THEN got[th] ELSE memory[x]
    BY <1>13 DEF Remember, RememberInMemory
  <2>5. \A i \in 1..Len(entries) :
          entries'[i].outcome = IF i = entry[th] THEN got[th] ELSE entries[i].outcome
    <3>1. entries \in Seq(Entry) /\ entries[entry[th]] \in Entry
      BY <2>1, ElementOfSeq DEF TypeOK
    <3> QED
      BY <1>13, <2>1, <3>1 DEF Remember, Entry
  <2>6. /\ UNCHANGED <<got, answers>>
        /\ \A u \in Threads : u # th => pc'[u] = pc[u]
        /\ pc[th] = "remember"
    BY <1>13 DEF Remember, RememberInMemory, Goto, TypeOK
  <2>7. \A x \in DOMAIN memory' :
          StoredIn(persisted', memory'[x]) \/ (x \in DOMAIN memory /\ memory'[x] = memory[x])
    BY <2>3, <2>4
  <2>8. \A i \in 1..Len(entries') : entries'[i].outcome # None =>
          \/ StoredIn(persisted', entries'[i].outcome)
          \/ i \in 1..Len(entries) /\ entries'[i].outcome = entries[i].outcome
    BY <2>2, <2>3, <2>5
  <2> QED
    BY <2>6, <2>7, <2>8, AgreedFrom
<1>14. ASSUME NEW th \in Threads, FinishFailure(th)
      PROVE  Agreed'
  <2> SUFFICES ASSUME Persistent
               PROVE  Agreed'
    BY DEF Agreed
  <2>1. entry[th] \in 1..Len(entries) /\ got[th] \in Outcome \cup {None}
    BY <1>14, LeaderHasEntry DEF FinishFailure, Leading, TypeOK
  <2>2. Len(entries') = Len(entries)
    BY <1>14, <2>1, EntryUpdated DEF FinishFailure
  <2>3. \A i \in 1..Len(entries) : entries'[i].outcome = entries[i].outcome
    <3>1. entries \in Seq(Entry) /\ entries[entry[th]] \in Entry
      BY <2>1, ElementOfSeq DEF TypeOK
    <3> QED
      BY <1>14, <2>1, <3>1 DEF FinishFailure, Entry
  <2>4. /\ UNCHANGED <<memory, answers>>
        /\ \A u \in Threads : u # th => pc'[u] = pc[u] /\ got'[u] = got[u]
        /\ got'[th] = None
    BY <1>14 DEF FinishFailure, Goto, TypeOK
  <2> QED
    BY <2>2, <2>3, <2>4, AgreedFrom
<1>15. ASSUME NEW th \in Threads, Notify(th)
      PROVE  Agreed'
  BY <1>15 DEF Notify, Waiting, Leave, maps, flight, bounds, StoredIn, Agreed,
    TypeOK, Busy, Flights, SingleFlight, EntriesTold, Stored
<1>16. ASSUME NEW th \in Threads, FindThrows(th)
      PROVE  Agreed'
  BY <1>16 DEF FindThrows, Goto, maps, flight, history, bounds, StoredIn,
    Agreed, TypeOK, Busy, Flights, SingleFlight, EntriesTold, Stored
<1>17. ASSUME NEW th \in Threads, AdapterThrows(th)
      PROVE  Agreed'
  BY <1>17 DEF AdapterThrows, Bump, Goto, maps, flight, bounds, StoredIn,
    Agreed, TypeOK, Busy, Flights, SingleFlight, EntriesTold, Stored
<1>18. ASSUME NEW th \in Threads, StoreThrows(th)
      PROVE  Agreed'
  <2> SUFFICES ASSUME Persistent
               PROVE  Agreed'
    BY DEF Agreed
  <2>1. /\ UNCHANGED <<got, memory, entries, answers>>
        /\ \A u \in Threads : u # th => pc'[u] = pc[u]
        /\ pc'[th] = "fail"
    BY <1>18 DEF StoreThrows, Goto, maps, flight, history, TypeOK
  <2> QED
    BY <2>1, AgreedFrom
<1>19. ASSUME NEW th \in Threads, RememberThrows(th)
      PROVE  Agreed'
  <2> SUFFICES ASSUME Persistent
               PROVE  Agreed'
    BY DEF Agreed
  <2>1. entry[th] \in 1..Len(entries) /\ got[th] \in Outcome \cup {None}
    BY <1>19, LeaderHasEntry DEF RememberThrows, Leading, TypeOK
  <2>2. Len(entries') = Len(entries)
    BY <1>19, <2>1, EntryUpdated DEF RememberThrows
  <2>3. got[th] # None /\ StoredIn(persisted, got[th]) /\ StoredIn(persisted', got[th])
    BY <1>19, StaysStored DEF RememberThrows, EntriesTold, Agreed
  <2>4. \A i \in 1..Len(entries) :
          entries'[i].outcome = IF i = entry[th] THEN got[th] ELSE entries[i].outcome
    <3>1. entries \in Seq(Entry) /\ entries[entry[th]] \in Entry
      BY <2>1, ElementOfSeq DEF TypeOK
    <3> QED
      BY <1>19, <2>1, <3>1 DEF RememberThrows, Entry
  <2>5. /\ UNCHANGED <<memory, got, answers>>
        /\ \A u \in Threads : u # th => pc'[u] = pc[u]
        /\ pc'[th] = "fail"
    BY <1>19 DEF RememberThrows, Goto, maps, history, TypeOK
  <2>6. \A i \in 1..Len(entries') : entries'[i].outcome # None =>
          \/ StoredIn(persisted', entries'[i].outcome)
          \/ i \in 1..Len(entries) /\ entries'[i].outcome = entries[i].outcome
    BY <2>2, <2>3, <2>4
  <2> QED
    BY <2>5, <2>6, AgreedFrom
<1>20. ASSUME NEW th \in Threads, NEW c \in Commands, Call(th, c)
      PROVE  Agreed'
  BY <1>20 DEF Call, maps, flight, history, StoredIn, Agreed, TypeOK, Busy,
    Flights, SingleFlight, EntriesTold, Stored
<1>21. CASE ClearMemory
  BY <1>21 DEF ClearMemory, Nothing, Bump, flight, local, StoredIn, Agreed,
    TypeOK, Busy, Flights, SingleFlight, EntriesTold, Stored
<1>22. CASE Restart
  BY <1>22 DEF Restart, Nothing, Bump, StoredIn, Agreed, TypeOK, Busy, Flights,
    SingleFlight, EntriesTold, Stored
<1> QED
  BY <1>2, <1>3, <1>4, <1>5, <1>6, <1>7, <1>8, <1>9, <1>10, <1>11, <1>12,
    <1>13, <1>14, <1>15, <1>16, <1>17, <1>18, <1>19, <1>20, <1>21, <1>22 DEF
    Next, Step, Fault

-----------------------------------------------------------------------------
(* The theorems *)

\* The invariant holds initially.
LEMMA InitIInv == Init => IInv
<1> SUFFICES ASSUME Init
             PROVE  IInv
  OBVIOUS
<1> USE DEF Init
<1>1. /\ DOMAIN memory = {} /\ DOMAIN uncertain = {} /\ DOMAIN inFlight = {}
      /\ DOMAIN persisted = {}
  BY DEF Nothing
<1>2. MapsTyped /\ StoreTyped
  <2>1. memory = Nothing /\ uncertain = Nothing /\ persisted = Nothing /\ recency = <<>>
    OBVIOUS
  <2> QED
    BY <2>1, NothingTyped, EmptySeq DEF MapsTyped, StoreTyped
<1>3. FlightTyped
  <2>1. inFlight \in MapsTo(Keys, 1..Len(entries))
    <3>1. inFlight = Nothing
      OBVIOUS
    <3> QED
      BY <3>1, NothingTyped
  <2>2. entries \in Seq(Entry) /\ Len(entries) = 0
    BY EmptySeq
  <2>3. entry \in [Threads -> 0..Len(entries)]
    <3>1. entry = [th \in Threads |-> 0]
      OBVIOUS
    <3>2. 0 \in 0..Len(entries)
      BY <2>2
    <3> QED
      BY <3>1, <3>2
  <2> QED
    BY <2>1, <2>2, <2>3 DEF FlightTyped
<1>4. LocalTyped /\ HistoryTyped
  BY CapacityAssumption DEF LocalTyped, HistoryTyped
<1>5. Busy /\ EntriesTold /\ SingleFlight /\ NoLostWakeup
  BY <1>1 DEF Busy, EntriesTold, SingleFlight, NoLostWakeup, Leading, Waiting
<1>6. Flights /\ Caches
  BY <1>1, FS_EmptySet, CapacityAssumption DEF Flights, Caches, Leading
<1>7. Counted /\ Stored /\ Agreed
  BY <1>1 DEF Counted, ReexecutedOnlyIfForgotten, Stored, Agreed
<1> QED
  BY <1>2, <1>3, <1>4, <1>5, <1>6, <1>7, TypeParts DEF IInv, Structure

\* Every step of the dispatcher keeps the invariant.
LEMMA NextIInv ==
  ASSUME IInv, [Next]_vars
  PROVE  IInv'
<1>1. CASE Next
  <2> USE <1>1 DEF IInv, Structure
  <2>1. TypeOK'
    <3>1. MapsTyped'
      BY MapsStep
    <3>2. FlightTyped'
      BY FlightStep
    <3>3. StoreTyped'
      BY StoreStep
    <3>4. LocalTyped'
      BY LocalStep
    <3>5. HistoryTyped'
      BY HistoryStep
    <3> QED
      BY <3>1, <3>2, <3>3, <3>4, <3>5
      DEF TypeOK, MapsTyped, FlightTyped, StoreTyped, LocalTyped, HistoryTyped, MapsTo
  <2>2. Busy' /\ Flights' /\ EntriesTold'
    BY BusyStep, FlightsStep, EntriesStep
  <2>3. SingleFlight' /\ Caches' /\ NoLostWakeup'
    BY SingleFlightStep, CachesStep, WakeupStep
  <2>4. Counted' /\ Stored' /\ Agreed'
    BY CountedStep, StoredStep, AgreedStep
  <2> QED
    BY <2>1, <2>2, <2>3, <2>4
<1>2. CASE UNCHANGED vars
  <2> USE <1>2 DEF IInv, Structure, vars, maps, flight, local, history, bounds
  <2>1. TypeOK'
    BY DEF TypeOK
  <2>2. Busy' /\ Flights' /\ EntriesTold'
    BY DEF Busy, Flights, EntriesTold, Leading, Key
  <2>3. SingleFlight' /\ Caches' /\ NoLostWakeup'
    BY DEF SingleFlight, Caches, NoLostWakeup, Leading, Key, Waiting, Ready,
      EntryReady, SlotReady, SlotFree
  <2>4. Counted' /\ Stored' /\ Agreed'
    BY DEF Counted, ReexecutedOnlyIfForgotten, Stored, Agreed, StoredIn, Key
  <2> QED
    BY <2>1, <2>2, <2>3, <2>4
<1> QED
  BY <1>1, <1>2

\* The limits the dispatcher was built with follow from the shape of its maps:
\* leaders inject into the keys in flight, and recency enumerates memory.
LEMMA LimitsHold ==
  ASSUME TypeOK, Flights, SingleFlight, Caches
  PROVE  CachesBounded
<1> DEFINE leaders == {th \in Threads : Leading(th)}
           f == [th \in leaders |-> Key(th)]
<1>1. f \in Injection(leaders, DOMAIN inFlight)
  <2>1. f \in [leaders -> DOMAIN inFlight]
    BY DEF Flights
  <2>2. \A th, u \in leaders : f[th] = f[u] => th = u
    BY DEF SingleFlight
  <2> QED
    BY <2>1, <2>2 DEF Injection, IsInjective
<1>2. /\ Cardinality(leaders) \in Nat
      /\ Cardinality(DOMAIN inFlight) \in Nat
      /\ Cardinality(leaders) <= Cardinality(DOMAIN inFlight)
  <2> HIDE DEF leaders, f
  <2> QED
    BY <1>1, FS_Injection, FS_CardinalityType DEF Flights
<1>3. Cardinality(leaders) <= MaxConcurrentDispatches
  BY <1>2, CapacityAssumption DEF Flights
<1>4. recency \in Seq(Keys) /\ Len(recency) \in Nat /\ DOMAIN recency = 1..Len(recency)
  BY LenProperties DEF TypeOK
<1>5. recency \in Bijection(1..Len(recency), DOMAIN memory)
  <2>1. recency \in [1..Len(recency) -> DOMAIN memory]
    BY <1>4 DEF Caches
  <2>2. \A i, j \in 1..Len(recency) : recency[i] = recency[j] => i = j
    BY DEF Caches
  <2>3. \A k \in DOMAIN memory : \E i \in 1..Len(recency) : recency[i] = k
    BY DEF Caches
  <2> QED
    BY <2>1, <2>2, <2>3 DEF Bijection, Injection, Surjection, IsInjective
<1>6. Cardinality(DOMAIN memory) = Len(recency)
  <2>1. IsFiniteSet(1..Len(recency)) /\ Cardinality(1..Len(recency)) = Len(recency)
    BY <1>4, FS_Interval
  <2>2. ExistsBijection(1..Len(recency), DOMAIN memory)
    BY <1>5 DEF ExistsBijection
  <2> QED
    BY <2>1, <2>2, FS_Bijection
<1>7. DOMAIN memory = {recency[i] : i \in DOMAIN recency}
  <2>1. \A k \in DOMAIN memory : k \in {recency[i] : i \in DOMAIN recency}
    BY <1>4 DEF Caches
  <2>2. \A i \in DOMAIN recency : recency[i] \in DOMAIN memory
    BY <1>4 DEF Caches
  <2> QED
    BY <2>1, <2>2
<1> QED
  BY <1>3, <1>6, <1>7 DEF CachesBounded, Caches

\* The invariant holds in every reachable state.
THEOREM Invariant == Spec => []IInv
<1>1. Init => IInv
  BY InitIInv
<1>2. IInv /\ [Next]_vars => IInv'
  BY NextIInv
<1> QED
  BY <1>1, <1>2, PTL DEF Spec

\* After every critical section of dispatch a key is led by one thread and
\* known in one place, the configured limits hold, a duplicate that waits for
\* a completed entry finds an outcome or a failure there, and no thread sleeps
\* through what it waits for: for any number of threads, keys and slots.
THEOREM ConsistentAlways == Spec => []Consistent
<1>1. IInv => Consistent
  <2> SUFFICES ASSUME IInv
               PROVE  Consistent
    OBVIOUS
  <2>1. CachesBounded
    BY LimitsHold DEF IInv, Structure
  <2>2. WaitersFindTheOutcome
    <3>1. \A th \in Threads : pc[th] = "waitEntry" => entry[th] \in 1..Len(entries)
      BY DEF IInv, Structure, EntriesTold, TypeOK
    <3> QED
      BY <3>1 DEF WaitersFindTheOutcome, IInv, Structure, EntriesTold
  <2> QED
    BY <2>1, <2>2 DEF Consistent, IInv, Structure
<1> QED
  BY <1>1, Invariant, PTL

\* dispatch calls the adapter again for a key only as often as memory,
\* uncertain or the whole process lost what it knew of the key.
THEOREM Reexecution == Spec => []ReexecutedOnlyIfForgotten
<1>1. IInv => ReexecutedOnlyIfForgotten
  BY DEF IInv, Counted
<1> QED
  BY <1>1, Invariant, PTL

\* With a persistent cache every outcome that dispatch ever returned for a key
\* is the one the cache stores for it.
THEOREM Agreement == Spec => []AnswersAgree
<1>1. IInv => AnswersAgree
  BY DEF IInv, Agreed, StoredIn, AnswersAgree
<1> QED
  BY <1>1, Invariant, PTL

\* No step calls the adapter for a key whose outcome is stored: a leader finds
\* the outcome before it would call, and no second leader stores meanwhile.
THEOREM NoStoredReexecution == Spec => StoredIsNotReexecuted
<1>1. ASSUME IInv, [Next]_vars
      PROVE  [\A k \in DOMAIN persisted : executed'[k] = executed[k]]_vars
  <2>1. ASSUME UNCHANGED executed
        PROVE  \A k \in DOMAIN persisted : executed'[k] = executed[k]
    BY <2>1
  <2>2. ASSUME NEW th \in Threads, AdapterReturns(th) \/ AdapterThrows(th)
        PROVE  \A k \in DOMAIN persisted : executed'[k] = executed[k]
    <3>1. Key(th) \notin DOMAIN persisted
      BY <1>1, <2>2 DEF AdapterReturns, AdapterThrows, IInv, Stored
    <3>2. executed' = Bump(executed, {Key(th)})
      BY <2>2 DEF AdapterReturns, AdapterThrows
    <3>3. DOMAIN persisted \subseteq DOMAIN executed
      BY <1>1, TypeFacts DEF IInv, Structure, TypeOK
    <3> QED
      BY <3>1, <3>2, <3>3 DEF Bump
  <2>3. CASE Next
    <3>1. \/ UNCHANGED executed
          \/ \E th \in Threads : AdapterReturns(th) \/ AdapterThrows(th)
      BY <2>3 DEF ReturnCached, RethrowUncertain, WaitForLeader, WaitForSlot,
        Lead, SleepAgain, TakeOutcome, FindStored, FindNothing, Store,
        Remember, FinishFailure, Notify, FindThrows, StoreThrows,
        RememberThrows, WakeSpuriously, Call, ClearMemory, Restart, Next, Step,
        Fault, history
    <3> QED
      BY <2>1, <2>2, <3>1
  <2> QED
    BY <1>1, <2>3
<1>2. IInv /\ [Next]_vars => [\A k \in DOMAIN persisted : executed'[k] = executed[k]]_vars
  BY <1>1
<1> QED
  BY <1>2, Invariant, PTL DEF Spec, StoredIsNotReexecuted
=============================================================================
