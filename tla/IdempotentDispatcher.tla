------------------------ MODULE IdempotentDispatcher ------------------------
(***************************************************************************)
(* The idempotent dispatcher: threads that dispatch effect commands share  *)
(* one execution per idempotency key (session and command id). The first   *)
(* caller of a key leads; callers of the same key wait for its outcome,    *)
(* and callers of other keys wait while every slot is taken. Outcomes are  *)
(* kept in a bounded least-recently-used memory, failures in a bounded map *)
(* of uncertain keys and, when one is configured, outcomes in a persistent *)
(* cache as well.                                                          *)
(*                                                                         *)
(* One step is one critical section of the mutex, one call of the adapter, *)
(* or one call of the persistent cache under persistentMutex. A wait on    *)
(* the condition variable is the state of a sleeping thread: woken are the *)
(* sleepers that were notified (or woke spuriously) and have still to take *)
(* the mutex. notify_all is a step of its own, after the unlock.           *)
(***************************************************************************)
EXTENDS Integers, Sequences, FiniteSets

CONSTANTS
  Threads,                 \* callers of dispatch
  Commands,                \* effect commands
  Keys, KeyOf,             \* the (sessionId, commandId) of every command
  Results,                 \* the dispatch results an adapter returns
  None,                    \* std::nullopt
  Persistent,              \* TRUE iff a PersistentOutcomeCache is configured
  MaxMemoryOutcomes,
  MaxConcurrentDispatches,
  MaxCalls,                \* bound: calls of dispatch
  MaxResets                \* bound: clear_memory calls and restarts

ASSUME KeyAssumption == KeyOf \in [Commands -> Keys]
ASSUME NoneAssumption ==
  None \notin Commands /\ None \notin [command : Commands, result : Results]
ASSUME CapacityAssumption ==
  /\ Persistent \in BOOLEAN
  /\ MaxMemoryOutcomes \in Nat \ {0}
  /\ MaxConcurrentDispatches \in Nat \ {0}
  /\ MaxCalls \in Nat
  /\ MaxResets \in Nat

VARIABLES
  memory,      \* key -> outcome
  recency,     \* the keys of memory, most recently used first
  uncertain,   \* key -> the command that failed
  inFlight,    \* key -> its entry
  entries,     \* every InFlightEntry created
  persisted,   \* the persistent cache: key -> outcome
  pc,
  cmd,         \* the command a thread dispatches
  entry,       \* the entry a thread leads or waits for, 0 if none
  got,         \* the outcome a leading thread has obtained
  woken,
  executed,    \* how often the adapter was called for a key
  forgotten,   \* how often memory and uncertain lost what they knew of a key
  answers,     \* every outcome returned to a caller
  calls, resets

maps == <<memory, recency, uncertain>>
flight == <<inFlight, entries>>
local == <<pc, cmd, entry, got, woken>>
history == <<executed, forgotten, answers>>
bounds == <<calls, resets>>
vars == <<maps, flight, persisted, local, history, bounds>>

Outcome == [command : Commands, result : Results]
Entry == [completed : BOOLEAN, outcome : Outcome \cup {None}, failed : BOOLEAN]
NewEntry == [completed |-> FALSE, outcome |-> None, failed |-> FALSE]
Nothing == [k \in {} |-> None]

Put(f, k, v) == [x \in DOMAIN f \cup {k} |-> IF x = k THEN v ELSE f[x]]
Without(f, S) == [x \in DOMAIN f \ S |-> f[x]]
Bump(f, S) == [x \in DOMAIN f |-> IF x \in S THEN f[x] + 1 ELSE f[x]]

Key(th) == KeyOf[cmd[th]]
Leading(th) == pc[th] \in {"find", "call", "store", "remember", "fail"}
Waiting(th) == pc[th] \in {"waitEntry", "waitSlot"}

-----------------------------------------------------------------------------
(* dispatch, under the mutex *)

\* The predicates of the two waits.
SlotFree == Cardinality(DOMAIN inFlight) < MaxConcurrentDispatches
SlotReady(th) ==
  \/ SlotFree
  \/ Key(th) \in DOMAIN inFlight \cup DOMAIN memory \cup DOMAIN uncertain
EntryReady(th) == entries[entry[th]].completed
Ready(th) == IF pc[th] = "waitEntry" THEN EntryReady(th) ELSE SlotReady(th)

\* A thread holds the mutex at the head of the loop: it enters dispatch, or
\* it continues after a wait.
AtLoop(th) ==
  \/ pc[th] = "enter"
  \/ pc[th] = "waitSlot" /\ th \in woken /\ SlotReady(th)
  \/ /\ pc[th] = "waitEntry" /\ th \in woken /\ EntryReady(th)
     /\ ~entries[entry[th]].failed
     /\ entries[entry[th]].outcome = None

\* The call of th ends, by a return or an exception.
Leave(th) ==
  /\ pc' = [pc EXCEPT ![th] = "idle"]
  /\ cmd' = [cmd EXCEPT ![th] = None]
  /\ entry' = [entry EXCEPT ![th] = 0]
  /\ got' = [got EXCEPT ![th] = None]

\* require_same_command: the outcome of another command is not returned.
Answer(th, outcome) ==
  answers' = IF outcome.command = cmd[th] THEN answers \cup {outcome} ELSE answers

Call(th, c) ==
  /\ pc[th] = "idle"
  /\ calls < MaxCalls
  /\ calls' = calls + 1
  /\ pc' = [pc EXCEPT ![th] = "enter"]
  /\ cmd' = [cmd EXCEPT ![th] = c]
  /\ UNCHANGED <<maps, flight, persisted, entry, got, woken, history, resets>>

\* recency with the position of k spliced to the front, or k pushed there.
Fronted(k) ==
  IF k \in DOMAIN memory
  THEN LET i == CHOOSE i \in DOMAIN recency : recency[i] = k
       IN <<k>> \o SubSeq(recency, 1, i - 1) \o SubSeq(recency, i + 1, Len(recency))
  ELSE <<k>> \o recency

ReturnCached(th) ==
  /\ AtLoop(th)
  /\ Key(th) \in DOMAIN memory
  /\ recency' = Fronted(Key(th))
  /\ Answer(th, memory[Key(th)])
  /\ Leave(th)
  /\ woken' = woken \ {th}
  /\ UNCHANGED <<memory, uncertain, flight, persisted, executed, forgotten, bounds>>

\* The recorded failure is thrown again, or that of a reused key.
RethrowUncertain(th) ==
  /\ AtLoop(th)
  /\ Key(th) \notin DOMAIN memory
  /\ Key(th) \in DOMAIN uncertain
  /\ Leave(th)
  /\ woken' = woken \ {th}
  /\ UNCHANGED <<maps, flight, persisted, history, bounds>>

Unknown(th) ==
  /\ AtLoop(th)
  /\ Key(th) \notin DOMAIN memory
  /\ Key(th) \notin DOMAIN uncertain

WaitForLeader(th) ==
  /\ Unknown(th)
  /\ Key(th) \in DOMAIN inFlight
  /\ entry' = [entry EXCEPT ![th] = inFlight[Key(th)]]
  /\ pc' = [pc EXCEPT ![th] = "waitEntry"]
  /\ woken' = woken \ {th}
  /\ UNCHANGED <<maps, flight, persisted, cmd, got, history, bounds>>

WaitForSlot(th) ==
  /\ Unknown(th)
  /\ Key(th) \notin DOMAIN inFlight
  /\ ~SlotFree
  /\ pc' = [pc EXCEPT ![th] = "waitSlot"]
  /\ woken' = woken \ {th}
  /\ UNCHANGED <<maps, flight, persisted, cmd, entry, got, history, bounds>>

\* Mutant of Lead: the persistent cache is not consulted.
LeadUnchecked(th) ==
  /\ Unknown(th)
  /\ Key(th) \notin DOMAIN inFlight
  /\ SlotFree
  /\ entries' = Append(entries, NewEntry)
  /\ inFlight' = Put(inFlight, Key(th), Len(entries) + 1)
  /\ entry' = [entry EXCEPT ![th] = Len(entries) + 1]
  /\ pc' = [pc EXCEPT ![th] = "call"]
  /\ woken' = woken \ {th}
  /\ UNCHANGED <<maps, persisted, cmd, got, history, bounds>>

Lead(th) ==
  /\ Unknown(th)
  /\ Key(th) \notin DOMAIN inFlight
  /\ SlotFree
  /\ entries' = Append(entries, NewEntry)
  /\ inFlight' = Put(inFlight, Key(th), Len(entries) + 1)
  /\ entry' = [entry EXCEPT ![th] = Len(entries) + 1]
  /\ pc' = [pc EXCEPT ![th] = IF Persistent THEN "find" ELSE "call"]
  /\ woken' = woken \ {th}
  /\ UNCHANGED <<maps, persisted, cmd, got, history, bounds>>

-----------------------------------------------------------------------------
(* Waking up *)

\* A notified thread finds its predicate false and sleeps on.
SleepAgain(th) ==
  /\ Waiting(th)
  /\ th \in woken
  /\ ~Ready(th)
  /\ woken' = woken \ {th}
  /\ UNCHANGED <<maps, flight, persisted, pc, cmd, entry, got, history, bounds>>

WakeSpuriously(th) ==
  /\ Waiting(th)
  /\ th \notin woken
  /\ woken' = woken \cup {th}
  /\ UNCHANGED <<maps, flight, persisted, pc, cmd, entry, got, history, bounds>>

\* A duplicate takes the leader's outcome, or its exception, from the entry.
TakeOutcome(th) ==
  LET e == entries[entry[th]]
  IN
  /\ pc[th] = "waitEntry"
  /\ th \in woken
  /\ e.completed
  /\ e.failed \/ e.outcome # None
  /\ IF e.failed THEN UNCHANGED answers ELSE Answer(th, e.outcome)
  /\ Leave(th)
  /\ woken' = woken \ {th}
  /\ UNCHANGED <<maps, flight, persisted, executed, forgotten, bounds>>

-----------------------------------------------------------------------------
(* Leading *)

Goto(th, label) == pc' = [pc EXCEPT ![th] = label]

\* persistentCache->find: an outcome of this very command is remembered, one
\* of another command is an error.
FindStored(th) ==
  /\ pc[th] = "find"
  /\ Key(th) \in DOMAIN persisted
  /\ LET stored == persisted[Key(th)]
     IN IF stored.command = cmd[th]
        THEN Goto(th, "remember") /\ got' = [got EXCEPT ![th] = stored]
        ELSE Goto(th, "fail") /\ UNCHANGED got
  /\ UNCHANGED <<maps, flight, persisted, cmd, entry, woken, history, bounds>>

FindNothing(th) ==
  /\ pc[th] = "find"
  /\ Key(th) \notin DOMAIN persisted
  /\ Goto(th, "call")
  /\ UNCHANGED <<maps, flight, persisted, cmd, entry, got, woken, history, bounds>>

FindThrows(th) ==
  /\ pc[th] = "find"
  /\ Goto(th, "fail")
  /\ UNCHANGED <<maps, flight, persisted, cmd, entry, got, woken, history, bounds>>

AdapterReturns(th) ==
  /\ pc[th] = "call"
  /\ executed' = Bump(executed, {Key(th)})
  /\ \E result \in Results :
       got' = [got EXCEPT ![th] = [command |-> cmd[th], result |-> result]]
  /\ Goto(th, IF Persistent THEN "store" ELSE "remember")
  /\ UNCHANGED <<maps, flight, persisted, cmd, entry, woken, forgotten, answers,
                 bounds>>

\* It throws, or its result does not fit the command: it may have executed.
AdapterThrows(th) ==
  /\ pc[th] = "call"
  /\ executed' = Bump(executed, {Key(th)})
  /\ Goto(th, "fail")
  /\ UNCHANGED <<maps, flight, persisted, cmd, entry, got, woken, forgotten,
                 answers, bounds>>

\* Mutant of Store: the outcome is not stored.
StoreNothing(th) ==
  /\ pc[th] = "store"
  /\ Goto(th, "remember")
  /\ UNCHANGED <<maps, flight, persisted, cmd, entry, got, woken, history, bounds>>

Store(th) ==
  /\ pc[th] = "store"
  /\ persisted' = Put(persisted, Key(th), got[th])
  /\ Goto(th, "remember")
  /\ UNCHANGED <<maps, flight, cmd, entry, got, woken, history, bounds>>

\* A store that throws may have stored.
StoreThrows(th) ==
  /\ pc[th] = "store"
  /\ persisted' \in {persisted, Put(persisted, Key(th), got[th])}
  /\ Goto(th, "fail")
  /\ UNCHANGED <<maps, flight, cmd, entry, got, woken, history, bounds>>

\* The keys memory keeps once k is remembered.
Kept(k) ==
  LET all == Fronted(k)
  IN SubSeq(all, 1, IF Len(all) < MaxMemoryOutcomes THEN Len(all)
                    ELSE MaxMemoryOutcomes)

\* The bookkeeping of remember() in memory, without the shared entry.
RememberInMemory(th) ==
  LET k == Key(th)
      held == {x \in DOMAIN memory \cup {k} : \E i \in DOMAIN Kept(k) : Kept(k)[i] = x}
  IN
  /\ recency' = Kept(k)
  /\ memory' = [x \in held |-> IF x = k THEN got[th] ELSE memory[x]]
  /\ forgotten' = Bump(forgotten, (DOMAIN memory \cup {k}) \ held)
  /\ inFlight' = Without(inFlight, {k})
  /\ Goto(th, "notify")

Remember(th) ==
  /\ pc[th] = "remember"
  /\ RememberInMemory(th)
  /\ entries' = [entries EXCEPT ![entry[th]].completed = TRUE,
                                ![entry[th]].outcome = got[th]]
  /\ UNCHANGED <<uncertain, persisted, cmd, entry, got, woken, executed, answers,
                 bounds>>

\* memory.emplace throws after the entry has its outcome.
RememberThrows(th) ==
  /\ pc[th] = "remember"
  /\ entries' = [entries EXCEPT ![entry[th]].outcome = got[th]]
  /\ Goto(th, "fail")
  /\ UNCHANGED <<maps, inFlight, persisted, cmd, entry, got, woken, history, bounds>>

\* Mutant of FinishFailure: the uncertain key is not recorded.
FinishUnrecorded(th) ==
  /\ pc[th] = "fail"
  /\ entries' = [entries EXCEPT ![entry[th]].completed = TRUE,
                                ![entry[th]].failed = TRUE]
  /\ inFlight' = Without(inFlight, {Key(th)})
  /\ got' = [got EXCEPT ![th] = None]
  /\ Goto(th, "notify")
  /\ UNCHANGED <<maps, persisted, cmd, entry, woken, history, bounds>>

\* finish_failure: a full map of uncertain keys loses any one of them, and
\* the insertion may itself fail (lost), which is swallowed.
FinishFailure(th) ==
  LET k == Key(th)
      full == k \notin DOMAIN uncertain
              /\ Cardinality(DOMAIN uncertain) >= MaxMemoryOutcomes
  IN
  /\ pc[th] = "fail"
  /\ \E gone \in IF full THEN {{x} : x \in DOMAIN uncertain} ELSE {{}} :
     \E lost \in {{}, {k}} :
       /\ uncertain' = Without(Put(Without(uncertain, gone), k, cmd[th]), lost)
       /\ forgotten' = Bump(forgotten, gone \cup lost)
  /\ entries' = [entries EXCEPT ![entry[th]].completed = TRUE,
                                ![entry[th]].failed = TRUE]
  /\ inFlight' = Without(inFlight, {k})
  /\ got' = [got EXCEPT ![th] = None]
  /\ Goto(th, "notify")
  /\ UNCHANGED <<memory, recency, persisted, cmd, entry, woken, executed, answers,
                 bounds>>

\* Mutant of Notify: notify_one instead of notify_all.
NotifyOne(th) ==
  /\ pc[th] = "notify"
  /\ \E u \in {u \in Threads : Waiting(u)} \cup {th} :
       woken' = (woken \cup {u}) \ {th}
  /\ answers' = IF got[th] = None THEN answers ELSE answers \cup {got[th]}
  /\ Leave(th)
  /\ UNCHANGED <<maps, flight, persisted, executed, forgotten, bounds>>

\* notify_all, and the leader's own return or exception.
Notify(th) ==
  /\ pc[th] = "notify"
  /\ woken' = woken \cup {u \in Threads : Waiting(u)}
  /\ answers' = IF got[th] = None THEN answers ELSE answers \cup {got[th]}
  /\ Leave(th)
  /\ UNCHANGED <<maps, flight, persisted, executed, forgotten, bounds>>

-----------------------------------------------------------------------------
(* The host *)

\* Mutant of ClearMemory: dispatches in flight are dropped too.
ClearEverything ==
  /\ resets < MaxResets
  /\ resets' = resets + 1
  /\ memory' = Nothing
  /\ recency' = <<>>
  /\ uncertain' = Nothing
  /\ inFlight' = Nothing
  /\ forgotten' = Bump(forgotten, DOMAIN memory \cup DOMAIN uncertain)
  /\ UNCHANGED <<entries, persisted, local, executed, answers, calls>>

ClearMemory ==
  /\ resets < MaxResets
  /\ resets' = resets + 1
  /\ memory' = Nothing
  /\ recency' = <<>>
  /\ uncertain' = Nothing
  /\ forgotten' = Bump(forgotten, DOMAIN memory \cup DOMAIN uncertain)
  /\ UNCHANGED <<flight, persisted, local, executed, answers, calls>>

\* The process stops and a new dispatcher is built over the persistent cache.
Restart ==
  /\ resets < MaxResets
  /\ resets' = resets + 1
  /\ memory' = Nothing
  /\ recency' = <<>>
  /\ uncertain' = Nothing
  /\ inFlight' = Nothing
  /\ entries' = <<>>
  /\ pc' = [th \in Threads |-> "idle"]
  /\ cmd' = [th \in Threads |-> None]
  /\ entry' = [th \in Threads |-> 0]
  /\ got' = [th \in Threads |-> None]
  /\ woken' = {}
  /\ forgotten' = Bump(forgotten, Keys)
  /\ UNCHANGED <<persisted, executed, answers, calls>>

-----------------------------------------------------------------------------
(* Specification *)

Init ==
  /\ memory = Nothing
  /\ recency = <<>>
  /\ uncertain = Nothing
  /\ inFlight = Nothing
  /\ entries = <<>>
  /\ persisted = Nothing
  /\ pc = [th \in Threads |-> "idle"]
  /\ cmd = [th \in Threads |-> None]
  /\ entry = [th \in Threads |-> 0]
  /\ got = [th \in Threads |-> None]
  /\ woken = {}
  /\ executed = [k \in Keys |-> 0]
  /\ forgotten = [k \in Keys |-> 0]
  /\ answers = {}
  /\ calls = 0
  /\ resets = 0

\* The steps of a call, other than those that depend on a fault.
Step(th) ==
  \/ ReturnCached(th)
  \/ RethrowUncertain(th)
  \/ WaitForLeader(th)
  \/ WaitForSlot(th)
  \/ Lead(th)
  \/ SleepAgain(th)
  \/ TakeOutcome(th)
  \/ FindStored(th)
  \/ FindNothing(th)
  \/ AdapterReturns(th)
  \/ Store(th)
  \/ Remember(th)
  \/ FinishFailure(th)
  \/ Notify(th)

Fault(th) ==
  \/ FindThrows(th)
  \/ AdapterThrows(th)
  \/ StoreThrows(th)
  \/ RememberThrows(th)
  \/ WakeSpuriously(th)

Next ==
  \/ \E th \in Threads : \/ \E c \in Commands : Call(th, c)
                         \/ Step(th)
                         \/ Fault(th)
  \/ ClearMemory
  \/ Restart

Spec == Init /\ [][Next]_vars

\* A thread inside dispatch keeps running, and adapter and persistent cache
\* return. Nothing is assumed of callers.
FairSpec == Spec /\ \A th \in Threads : WF_vars(Step(th))

-----------------------------------------------------------------------------
(* Properties *)

\* Maps, entries and thread states keep their types.
TypeOK ==
  /\ memory \in UNION {[S -> Outcome] : S \in SUBSET Keys}
  /\ recency \in Seq(Keys)
  /\ uncertain \in UNION {[S -> Commands] : S \in SUBSET Keys}
  /\ inFlight \in UNION {[S -> 1..Len(entries)] : S \in SUBSET Keys}
  /\ entries \in Seq(Entry)
  /\ persisted \in UNION {[S -> Outcome] : S \in SUBSET Keys}
  /\ pc \in [Threads -> {"idle", "enter", "waitEntry", "waitSlot", "find", "call",
                         "store", "remember", "fail", "notify"}]
  /\ cmd \in [Threads -> Commands \cup {None}]
  /\ entry \in [Threads -> 0..Len(entries)]
  /\ got \in [Threads -> Outcome \cup {None}]
  /\ woken \subseteq Threads
  /\ executed \in [Keys -> Nat]
  /\ forgotten \in [Keys -> Nat]
  /\ answers \subseteq Outcome
  /\ calls \in 0..MaxCalls
  /\ resets \in 0..MaxResets

\* Two threads never lead the same key, and what is known of a key is in one
\* place: it is in flight, remembered, uncertain or unknown.
SingleFlight ==
  /\ \A th, u \in Threads :
       Leading(th) /\ Leading(u) /\ Key(th) = Key(u) => th = u
  /\ DOMAIN memory \cap DOMAIN uncertain = {}
  /\ DOMAIN inFlight \cap (DOMAIN memory \cup DOMAIN uncertain) = {}

\* The bounds the dispatcher was configured with hold, and the recency list
\* is exactly the keys of the memory.
CachesBounded ==
  /\ Cardinality({th \in Threads : Leading(th)}) <= MaxConcurrentDispatches
  /\ Cardinality(DOMAIN memory) <= MaxMemoryOutcomes
  /\ Cardinality(DOMAIN uncertain) <= MaxMemoryOutcomes
  /\ Len(recency) = Cardinality(DOMAIN memory)
  /\ DOMAIN memory = {recency[i] : i \in DOMAIN recency}

\* The adapter is called again for a key only if the dispatcher has lost what
\* it knew of it since: by eviction, clear_memory, a restart or a failure to
\* record. Overlapping and repeated duplicates, and failures, never cause it.
ReexecutedOnlyIfForgotten == \A k \in Keys : executed[k] <= forgotten[k] + 1

\* Once the persistent cache has the outcome of a key, no eviction, failure
\* or restart makes the adapter execute it again.
StoredIsNotReexecuted ==
  [][\A k \in DOMAIN persisted : executed'[k] = executed[k]]_vars

\* With a persistent cache, every caller that gets an outcome of a key gets
\* the one that is stored, before and after evictions and restarts.
AnswersAgree ==
  Persistent =>
    \A o \in answers : /\ KeyOf[o.command] \in DOMAIN persisted
                       /\ persisted[KeyOf[o.command]] = o

\* A duplicate that waits for the leader finds an outcome or an exception in
\* the entry, whatever was evicted meanwhile: it never executes the command.
WaitersFindTheOutcome ==
  \A th \in Threads :
    pc[th] = "waitEntry" /\ entries[entry[th]].completed =>
      entries[entry[th]].failed \/ entries[entry[th]].outcome # None

\* No thread sleeps on when what it waits for has happened, unless some thread
\* has still to notify.
NoLostWakeup ==
  (\E th \in Threads : Waiting(th) /\ th \notin woken /\ Ready(th))
    => \E u \in Threads : pc[u] = "notify"

\* The dispatcher's maps, entries and threads are consistent after every
\* critical section: a key is led once and known in one place, the limits hold,
\* a waiting duplicate will find an outcome and no sleeper was forgotten.
Consistent ==
  TypeOK /\ SingleFlight /\ CachesBounded /\ WaitersFindTheOutcome /\ NoLostWakeup

\* A duplicate that waits for a leader returns.
DuplicatesReturn ==
  \A th \in Threads : pc[th] = "waitEntry" ~> pc[th] = "idle"
=============================================================================
