------------------------ MODULE RuntimeEffectsProofs ------------------------
(***************************************************************************)
(* Proofs about RuntimeEffects, for every value of its constants: types,   *)
(* and recovery. The live outbox always agrees with what restore() would   *)
(* rebuild from the log, so nothing an adapter received is forgotten and   *)
(* no attempt is made twice.                                               *)
(***************************************************************************)
EXTENDS RuntimeEffects, FiniteSetTheorems, SequenceTheorems,
        WellFoundedInduction, TLAPS

-----------------------------------------------------------------------------
(* Least and greatest elements *)

\* A nonempty set of naturals has a least element.
LEMMA LeastNatural ==
  ASSUME NEW S \in SUBSET Nat, S # {}
  PROVE  \E m \in S : \A k \in S : m <= k
<1>1. IsWellFoundedOn(OpToRel(<, Nat), Nat)
  BY NatLessThanWellFounded
<1>2. PICK m \in S : \A k \in S : ~(<<k, m>> \in OpToRel(<, Nat))
  BY <1>1, WFMin
<1>3. \A k \in S : ~(k < m)
  BY <1>2 DEF OpToRel
<1> QED
  BY <1>3

\* A nonempty set of command ids has a greatest element.
LEMMA GreatestId ==
  ASSUME NEW S \in SUBSET CommandIds, S # {}
  PROVE  \E m \in S : \A k \in S : k <= m
<1> DEFINE T == {n \in Nat : MaxCommands - n \in S}
<1>1. PICK id \in S : TRUE
  OBVIOUS
<1>2. MaxCommands - id \in T
  BY BoundAssumption DEF CommandIds
<1>3. PICK n \in T : \A k \in T : n <= k
  BY <1>2, LeastNatural
<1>4. \A k \in S : MaxCommands - k \in T
  BY BoundAssumption DEF CommandIds
<1>5. \A k \in S : k <= MaxCommands - n
  BY <1>3, <1>4, BoundAssumption DEF CommandIds
<1> QED
  BY <1>3, <1>5

\* Newest is 0 or a member of its argument, and no member is larger.
LEMMA NewestProperties ==
  ASSUME NEW S \in SUBSET CommandIds
  PROVE  /\ Newest(S) \in 0..MaxCommands
         /\ S # {} => Newest(S) \in S
         /\ \A id \in S : id <= Newest(S)
<1>1. CASE S = {}
  BY <1>1, BoundAssumption DEF Newest
<1>2. CASE S # {}
  <2>1. \E m \in S : \A k \in S : k <= m
    BY <1>2, GreatestId
  <2>2. Newest(S) \in S /\ \A k \in S : k <= Newest(S)
    BY <1>2, <2>1 DEF Newest
  <2>3. Newest(S) \in CommandIds
    BY <2>2
  <2>4. Newest(S) \in 0..MaxCommands
    BY <2>3, BoundAssumption DEF CommandIds
  <2> QED
    BY <2>2, <2>4
<1> QED
  BY <1>1, <1>2

\* prune_terminal_history pops a prefix of terminalOrder: all of it, or until
\* the rest fits.
LEMMA PoppedType ==
  ASSUME NEW cmds, NEW order \in Seq(CommandIds), NEW limit
  PROVE  /\ Popped(cmds, order, limit) \in 0..Len(order)
         /\ \/ Popped(cmds, order, limit) = Len(order)
            \/ Fits(cmds, order, Popped(cmds, order, limit), limit)
<1> DEFINE Stops(k) == k = Len(order) \/ Fits(cmds, order, k, limit)
           S == {k \in 0..Len(order) : Stops(k)}
<1>1. Len(order) \in S
  BY LenProperties
<1>2. PICK m \in S : \A k \in S : m <= k
  <2>1. S \in SUBSET Nat
    BY LenProperties
  <2> HIDE DEF S
  <2> QED
    BY <1>1, <2>1, LeastNatural
<1>3. /\ m \in 0..Len(order)
      /\ m = Len(order) \/ Fits(cmds, order, m, limit)
      /\ \A j \in 0..(m - 1) : ~Fits(cmds, order, j, limit)
  <2>1. Len(order) \in Nat
    BY LenProperties
  <2>2. \A j \in 0..(m - 1) : j \in 0..Len(order) /\ ~(m <= j)
    BY <1>2, <2>1
  <2> QED
    BY <1>2, <2>2
<1> QED
  BY <1>3 DEF Popped

-----------------------------------------------------------------------------
(* Command maps *)

LEMMA MapElim ==
  ASSUME NEW f \in CommandMaps
  PROVE  /\ DOMAIN f \in SUBSET CommandIds
         /\ f \in [DOMAIN f -> Command]
BY DEF CommandMaps

LEMMA MapIntro ==
  ASSUME NEW S \in SUBSET CommandIds, NEW f \in [S -> Command]
  PROVE  f \in CommandMaps
BY DEF CommandMaps

\* SetStatus changes the status of a command and nothing else.
LEMMA SetStatusProperties ==
  ASSUME NEW f \in CommandMaps, NEW id, NEW status \in Statuses
  PROVE  /\ SetStatus(f, id, status) \in CommandMaps
         /\ DOMAIN SetStatus(f, id, status) = DOMAIN f
         /\ \A x \in DOMAIN f :
              SetStatus(f, id, status)[x] =
                IF x = id THEN [f[x] EXCEPT !.status = status] ELSE f[x]
<1> DEFINE g == SetStatus(f, id, status)
<1>1. DOMAIN f \in SUBSET CommandIds /\ f \in [DOMAIN f -> Command]
  BY MapElim
<1>2. \A x \in DOMAIN f : [f[x] EXCEPT !.status = status] \in Command
  BY <1>1 DEF Command
<1>3. /\ DOMAIN g = DOMAIN f
      /\ g = [x \in DOMAIN f |->
                IF x = id THEN [f[x] EXCEPT !.status = status] ELSE f[x]]
  BY <1>1 DEF SetStatus
<1>4. g \in [DOMAIN f -> Command]
  BY <1>1, <1>2, <1>3
<1> QED
  BY <1>1, <1>3, <1>4, MapIntro

LEMMA WithoutProperties ==
  ASSUME NEW f \in CommandMaps, NEW S
  PROVE  /\ Without(f, S) \in CommandMaps
         /\ DOMAIN Without(f, S) = DOMAIN f \ S
         /\ \A x \in DOMAIN f \ S : Without(f, S)[x] = f[x]
<1>1. DOMAIN f \in SUBSET CommandIds /\ f \in [DOMAIN f -> Command]
  BY MapElim
<1>2. Without(f, S) \in [DOMAIN f \ S -> Command]
  BY <1>1 DEF Without
<1>3. Without(f, S) \in CommandMaps
  BY <1>1, <1>2, MapIntro
<1> QED
  BY <1>3 DEF Without

LEMMA PutProperties ==
  ASSUME NEW f \in CommandMaps, NEW id \in CommandIds, NEW c \in Command
  PROVE  /\ Put(f, id, c) \in CommandMaps
         /\ DOMAIN Put(f, id, c) = DOMAIN f \cup {id}
         /\ Put(f, id, c)[id] = c
         /\ \A x \in DOMAIN f : x # id => Put(f, id, c)[x] = f[x]
<1>1. DOMAIN f \in SUBSET CommandIds /\ f \in [DOMAIN f -> Command]
  BY MapElim
<1>2. Put(f, id, c) \in [DOMAIN f \cup {id} -> Command]
  BY <1>1 DEF Put
<1>3. DOMAIN f \cup {id} \in SUBSET CommandIds
  BY <1>1
<1>4. Put(f, id, c) \in CommandMaps
  BY <1>2, <1>3, MapIntro
<1> QED
  BY <1>4 DEF Put

-----------------------------------------------------------------------------
(* The log *)

Logs == {j \in Seq(Projection) : j # <<>>}

LEMMA LogProperties ==
  ASSUME NEW j \in Logs
  PROVE  /\ Len(j) \in Nat \ {0}
         /\ DOMAIN j = 1..Len(j)
         /\ \A k \in 1..Len(j) : j[k] \in Projection
         /\ Rebuilt(j) \in Projection
<1>1. j \in Seq(Projection) /\ j # <<>>
  BY DEF Logs
<1>2. Len(j) \in Nat \ {0} /\ DOMAIN j = 1..Len(j)
  BY <1>1, LenProperties, EmptySeq
<1>3. \A k \in 1..Len(j) : j[k] \in Projection
  BY <1>1, ElementOfSeq
<1> QED
  BY <1>2, <1>3 DEF Rebuilt

\* A flushed log holds exactly the last result.
LEMMA FlushedProperties ==
  ASSUME NEW j \in Logs
  PROVE  /\ Flushed(j) \in Logs
         /\ Len(Flushed(j)) = 1
         /\ Rebuilt(Flushed(j)) = Rebuilt(j)
         /\ Flushed(j)[1] = Rebuilt(j)
<1>1. Rebuilt(j) \in Projection
  BY LogProperties
<1>2. Flushed(j) \in Seq(Projection) /\ Flushed(j) # <<>> /\ Len(Flushed(j)) = 1
      /\ Flushed(j)[1] = Rebuilt(j)
  BY <1>1 DEF Flushed
<1>3. Rebuilt(Flushed(j)) = Flushed(j)[1]
  BY <1>2 DEF Rebuilt
<1> QED
  BY <1>2, <1>3 DEF Logs

\* An appended record leaves the earlier results alone.
LEMMA AppendedProperties ==
  ASSUME NEW j \in Logs, NEW p \in Projection
  PROVE  /\ Append(j, p) \in Logs
         /\ Len(Append(j, p)) = Len(j) + 1
         /\ Rebuilt(Append(j, p)) = p
         /\ Append(j, p)[1] = j[1]
         /\ \A k \in 1..Len(j) : Append(j, p)[k] = j[k]
<1>1. j \in Seq(Projection) /\ Len(j) \in Nat \ {0}
  BY LogProperties DEF Logs
<1>2. /\ Append(j, p) \in Seq(Projection)
      /\ Append(j, p) # <<>>
      /\ Len(Append(j, p)) = Len(j) + 1
      /\ \A k \in 1..Len(j) : Append(j, p)[k] = j[k]
      /\ Append(j, p)[Len(j) + 1] = p
  BY <1>1, AppendProperties
<1>3. 1 \in 1..Len(j)
  BY <1>1
<1> QED
  BY <1>2, <1>3 DEF Logs, Rebuilt

\* A crash leaves a log.
LEMMA PrefixProperties ==
  ASSUME NEW j \in Logs, NEW n \in 1..Len(j)
  PROVE  /\ SubSeq(j, 1, n) \in Logs
         /\ Len(SubSeq(j, 1, n)) = n
         /\ Rebuilt(SubSeq(j, 1, n)) = j[n]
         /\ SubSeq(j, 1, n)[1] = j[1]
         /\ \A k \in 1..n : SubSeq(j, 1, n)[k] = j[k]
<1>1. /\ j \in Seq(Projection)
      /\ Len(j) \in Nat
      /\ n \in Int
      /\ n >= 1
  BY LogProperties DEF Logs
<1>2. \A k \in 1..n : j[k] \in Projection
  BY <1>1, LogProperties
<1>3. /\ SubSeq(j, 1, n) \in Seq(Projection)
      /\ Len(SubSeq(j, 1, n)) = n
      /\ \A k \in 1..n : SubSeq(j, 1, n)[k] = j[k]
  BY <1>1, <1>2, SubSeqProperties
<1>4. SubSeq(j, 1, n) # <<>>
  BY <1>1, <1>3
<1> QED
  BY <1>1, <1>3, <1>4 DEF Logs, Rebuilt

\* What a command record adds to the log.
LEMMA LogCommandProperties ==
  ASSUME NEW j \in Logs, NEW id \in CommandIds, NEW c \in Command
  PROVE  \E p \in Projection :
           /\ LogCommand(j, id, c) = Append(j, p)
           /\ p.commands = Put(Rebuilt(j).commands, id, c)
           /\ p.observed = Rebuilt(j).observed
           /\ p.revisions = Rebuilt(j).revisions
<1> DEFINE p == [Rebuilt(j) EXCEPT !.commands = Put(@, id, c)]
<1>1. Rebuilt(j) \in Projection
  BY LogProperties
<1>2. Put(Rebuilt(j).commands, id, c) \in CommandMaps
  BY <1>1, PutProperties DEF Projection
<1>3. p \in Projection
  BY <1>1, <1>2 DEF Projection
<1>4. /\ p.commands = Put(Rebuilt(j).commands, id, c)
      /\ p.observed = Rebuilt(j).observed
      /\ p.revisions = Rebuilt(j).revisions
  BY <1>1 DEF Projection
<1> HIDE DEF p
<1>5. LogCommand(j, id, c) = Append(j, p)
  BY DEF LogCommand, p
<1> QED
  BY <1>3, <1>4, <1>5

\* What a status record adds to the log.
LEMMA LogStatusProperties ==
  ASSUME NEW j \in Logs, NEW id, NEW status \in Statuses
  PROVE  \E p \in Projection :
           /\ LogStatus(j, id, status) = Append(j, p)
           /\ p.commands = SetStatus(Rebuilt(j).commands, id, status)
           /\ p.observed = Rebuilt(j).observed
           /\ p.revisions = Rebuilt(j).revisions
<1> DEFINE p == [Rebuilt(j) EXCEPT !.commands[id].status = status]
<1>1. Rebuilt(j) \in Projection
  BY LogProperties
<1>2. SetStatus(Rebuilt(j).commands, id, status) \in CommandMaps
  BY <1>1, SetStatusProperties DEF Projection
<1>3. p = [Rebuilt(j) EXCEPT !.commands =
             SetStatus(Rebuilt(j).commands, id, status)]
  BY <1>1 DEF SetStatus, Projection
<1>4. p \in Projection
  BY <1>1, <1>2, <1>3 DEF Projection
<1>5. /\ p.commands = SetStatus(Rebuilt(j).commands, id, status)
      /\ p.observed = Rebuilt(j).observed
      /\ p.revisions = Rebuilt(j).revisions
  BY <1>1, <1>3 DEF Projection
<1> HIDE DEF p
<1>6. LogStatus(j, id, status) = Append(j, p)
  BY DEF LogStatus, p
<1> QED
  BY <1>4, <1>5, <1>6

\* What an attempt record adds to the log: a retry index never goes back.
LEMMA LogAttemptProperties ==
  ASSUME NEW j \in Logs, NEW id, NEW attempt \in 1..(Len(RetryDelays) + 1)
  PROVE  \E p \in Projection :
           /\ LogAttempt(j, id, attempt) = Append(j, p)
           /\ DOMAIN p.commands = DOMAIN Rebuilt(j).commands
           /\ \A x \in DOMAIN p.commands :
                p.commands[x] =
                  IF x = id /\ Rebuilt(j).commands[x].retryIndex < attempt - 1
                  THEN [Rebuilt(j).commands[x] EXCEPT !.retryIndex = attempt - 1]
                  ELSE Rebuilt(j).commands[x]
           /\ p.observed = Rebuilt(j).observed
           /\ p.revisions = Rebuilt(j).revisions
<1> DEFINE p == [Rebuilt(j) EXCEPT !.commands[id].retryIndex =
                   IF @ < attempt - 1 THEN attempt - 1 ELSE @]
           f == Rebuilt(j).commands
           g == [x \in DOMAIN f |->
                   IF x = id /\ f[x].retryIndex < attempt - 1
                   THEN [f[x] EXCEPT !.retryIndex = attempt - 1]
                   ELSE f[x]]
<1>1. Rebuilt(j) \in Projection
  BY LogProperties
<1>2. f \in CommandMaps
  BY <1>1 DEF Projection
<1>3. DOMAIN f \in SUBSET CommandIds /\ f \in [DOMAIN f -> Command]
  BY <1>2, MapElim
<1>4. Len(RetryDelays) \in Nat
  BY PolicyAssumption
<1>5. attempt - 1 \in 0..Len(RetryDelays)
  BY <1>4
<1>6. \A x \in DOMAIN f :
        [f[x] EXCEPT !.retryIndex = attempt - 1] \in Command
  BY <1>3, <1>5 DEF Command
<1>7. g \in [DOMAIN f -> Command]
  BY <1>3, <1>6
<1>8. g \in CommandMaps
  BY <1>3, <1>7, MapIntro
<1>9. [f EXCEPT ![id].retryIndex = IF @ < attempt - 1 THEN attempt - 1 ELSE @] = g
  BY <1>3 DEF Command
<1>10. p = [Rebuilt(j) EXCEPT !.commands = g]
  BY <1>1, <1>9 DEF Projection
<1>11. p \in Projection
  BY <1>1, <1>8, <1>10 DEF Projection
<1>12. /\ p.commands = g
       /\ p.observed = Rebuilt(j).observed
       /\ p.revisions = Rebuilt(j).revisions
  BY <1>1, <1>10 DEF Projection
<1> HIDE DEF p
<1>13. LogAttempt(j, id, attempt) = Append(j, p)
  BY DEF LogAttempt, p
<1> QED
  BY <1>11, <1>12, <1>13

\* What an observation record adds to the log.
LEMMA LogObservedProperties ==
  ASSUME NEW j \in Logs, NEW t \in Targets, NEW value \in Values \cup {NoValue},
         NEW revision \in Nat
  PROVE  \E p \in Projection :
           /\ LogObserved(j, t, value, revision) = Append(j, p)
           /\ p.commands = Rebuilt(j).commands
           /\ p.observed = [Rebuilt(j).observed EXCEPT ![t] = value]
           /\ p.revisions = [Rebuilt(j).revisions EXCEPT ![t] = revision]
<1> DEFINE p == [Rebuilt(j) EXCEPT !.observed[t] = value,
                                   !.revisions[t] = revision]
<1>1. Rebuilt(j) \in Projection
  BY LogProperties
<1>2. p \in Projection
  BY <1>1 DEF Projection
<1>3. /\ p.commands = Rebuilt(j).commands
      /\ p.observed = [Rebuilt(j).observed EXCEPT ![t] = value]
      /\ p.revisions = [Rebuilt(j).revisions EXCEPT ![t] = revision]
  BY <1>1 DEF Projection
<1> HIDE DEF p
<1>4. LogObserved(j, t, value, revision) = Append(j, p)
  BY DEF LogObserved, p
<1> QED
  BY <1>2, <1>3, <1>4

-----------------------------------------------------------------------------
(* Type correctness: what the shared parts of the actions preserve *)

\* dispatch() works on a retained command, and retry_due runs only once every
\* effect of the frame has been issued.
CurrentIsRetained ==
  pc \in {"attempt", "call", "await"} => current \in DOMAIN commands
CursorAfterIssuing ==
  cursor # 0 => desires = NoDesires /\ pc \notin {"reports", "observations"}

TypeInv == TypeOK /\ CurrentIsRetained /\ CursorAfterIssuing

LEMMA CommandIdsProperties ==
  /\ CommandIds \subseteq Nat
  /\ \A id \in 0..MaxCommands : id # 0 => id \in CommandIds
  /\ CommandIds \subseteq 0..MaxCommands
BY BoundAssumption DEF CommandIds

\* The journal's type, as the log lemmas state it.
LEMMA JournalType ==
  /\ TypeOK => journal \in Logs
  /\ journal' \in Logs => journal' \in Seq(Projection) /\ journal' # <<>>
BY DEF TypeOK, Logs

LEMMA SettledOrderType ==
  ASSUME NEW cmds, NEW order \in Seq(CommandIds), NEW id \in CommandIds, NEW status
  PROVE  SettledOrder(cmds, order, id, status) \in Seq(CommandIds)
BY AppendProperties DEF SettledOrder

LEMMA TransitionType ==
  ASSUME TypeOK, NEW id \in CommandIds, NEW status \in Statuses,
         Transition(id, status)
  PROVE  /\ commands' \in CommandMaps
         /\ DOMAIN commands' = DOMAIN commands
         /\ terminalOrder' \in Seq(CommandIds)
         /\ journal' \in Logs
         /\ UNCHANGED <<latestByTarget, terminalReports>>
<1>1. journal \in Logs /\ commands \in CommandMaps
      /\ terminalOrder \in Seq(CommandIds)
  BY JournalType DEF TypeOK
<1>2. commands' \in CommandMaps /\ DOMAIN commands' = DOMAIN commands
  BY <1>1, SetStatusProperties DEF Transition
<1>3. terminalOrder' \in Seq(CommandIds)
  BY <1>1, SettledOrderType DEF Transition
<1>4. journal' \in Logs
  <2>1. PICK p \in Projection : LogStatus(journal, id, status) = Append(journal, p)
    BY <1>1, LogStatusProperties
  <2> QED
    BY <1>1, <2>1, AppendedProperties DEF Transition
<1> QED
  BY <1>2, <1>3, <1>4 DEF Transition

LEMMA CommitAuthoritativeType ==
  ASSUME TypeOK, NEW j \in Logs, NEW t \in Targets,
         NEW value \in Values \cup {NoValue}, NEW revision \in Nat,
         CommitAuthoritative(j, t, value, revision)
  PROVE  /\ observed' \in [Targets -> Values \cup {NoValue}]
         /\ observedRevisions' \in [Targets -> Nat]
         /\ journal' \in Logs
<1>1. journal' \in Logs
  <2>1. PICK p \in Projection :
          /\ LogObserved(j, t, value, revision) = Append(j, p)
          /\ p.commands = Rebuilt(j).commands
          /\ p.observed = [Rebuilt(j).observed EXCEPT ![t] = value]
          /\ p.revisions = [Rebuilt(j).revisions EXCEPT ![t] = revision]
    BY LogObservedProperties
  <2> QED
    BY <2>1, AppendedProperties DEF CommitAuthoritative
<1>2. /\ observed' = [observed EXCEPT ![t] = value]
      /\ observedRevisions' = [observedRevisions EXCEPT ![t] = revision]
  BY DEF CommitAuthoritative
<1>3. /\ observed \in [Targets -> Values \cup {NoValue}]
      /\ observedRevisions \in [Targets -> Nat]
  BY DEF TypeOK
<1> QED
  BY <1>1, <1>2, <1>3

LEMMA ApplyReportType ==
  ASSUME TypeOK, NEW r \in Report, ApplyReport(r)
  PROVE  /\ commands' \in CommandMaps
         /\ DOMAIN commands' = DOMAIN commands
         /\ terminalOrder' \in Seq(CommandIds)
         /\ terminalReports' \subseteq Report
         /\ observed' \in [Targets -> Values \cup {NoValue}]
         /\ observedRevisions' \in [Targets -> Nat]
         /\ journal' \in Logs
         /\ UNCHANGED latestByTarget
<1> DEFINE id == r.command
           t == commands[id].target
           fresh == commands[id].status # "Superseded"
           logged == IF fresh THEN LogStatus(journal, id, r.status) ELSE journal
<1>1. journal \in Logs /\ commands \in CommandMaps
      /\ terminalOrder \in Seq(CommandIds)
  BY JournalType DEF TypeOK
<1>2. /\ r.command \in CommandIds /\ r.status \in Statuses
      /\ r.value \in Values \cup {NoValue} /\ r.revision \in Nat
  BY DEF Report
<1>3. CASE ~Acceptable(r)
  BY <1>1, <1>3 DEF ApplyReport, outbox, mirror, TypeOK
<1>4. CASE Acceptable(r)
  <2>1. /\ commands' = IF fresh THEN SetStatus(commands, id, r.status)
                       ELSE commands
        /\ terminalOrder' =
             IF fresh THEN SettledOrder(commands, terminalOrder, id, r.status)
             ELSE terminalOrder
        /\ terminalReports' = terminalReports \cup {r}
        /\ UNCHANGED latestByTarget
        /\ IF r.status = "Applied" /\ observedRevisions[t] < r.revision
           THEN CommitAuthoritative(logged, t, r.value, r.revision)
           ELSE journal' = logged /\ UNCHANGED mirror
    BY <1>4 DEF ApplyReport
  <2>2. commands' \in CommandMaps /\ DOMAIN commands' = DOMAIN commands
    BY <1>1, <1>2, <2>1, SetStatusProperties
  <2>3. terminalOrder' \in Seq(CommandIds)
    BY <1>1, <1>2, <2>1, SettledOrderType
  <2>4. terminalReports' \subseteq Report
    BY <2>1 DEF TypeOK
  <2>5. logged \in Logs
    <3>1. PICK p \in Projection :
            LogStatus(journal, id, r.status) = Append(journal, p)
      BY <1>1, <1>2, LogStatusProperties
    <3> QED
      BY <1>1, <3>1, AppendedProperties
  <2>6. t \in Targets
    <3>1. commands[id] \in Command
      BY <1>1, <1>4, MapElim DEF Acceptable
    <3> QED
      BY <3>1 DEF Command
  <2>7. /\ observed' \in [Targets -> Values \cup {NoValue}]
        /\ observedRevisions' \in [Targets -> Nat]
        /\ journal' \in Logs
    <3> HIDE DEF id, t, logged
    <3>1. CASE CommitAuthoritative(logged, t, r.value, r.revision)
      BY <1>2, <2>5, <2>6, <3>1, CommitAuthoritativeType
    <3>2. CASE journal' = logged /\ UNCHANGED mirror
      BY <2>5, <3>2 DEF TypeOK, mirror
    <3> QED
      BY <2>1, <3>1, <3>2
  <2> QED
    BY <2>1, <2>2, <2>3, <2>4, <2>7
<1> QED
  BY <1>3, <1>4

LEMMA SupersededType ==
  ASSUME TypeOK, NEW t \in Targets
  PROVE  /\ SupersededCommands(t) \in CommandMaps
         /\ DOMAIN SupersededCommands(t) = DOMAIN commands
         /\ SupersededOrder(t) \in Seq(CommandIds)
         /\ SupersededJournal(t) \in Logs
<1>1. journal \in Logs /\ commands \in CommandMaps
      /\ terminalOrder \in Seq(CommandIds) /\ latestByTarget[t] \in 0..MaxCommands
  BY JournalType DEF TypeOK
<1>2. CASE ~PendingLatest(t)
  BY <1>1, <1>2 DEF SupersededCommands, SupersededOrder, SupersededJournal
<1>3. CASE PendingLatest(t)
  <2>1. latestByTarget[t] \in CommandIds
    BY <1>1, <1>3, CommandIdsProperties DEF PendingLatest
  <2>2. "Superseded" \in Statuses
    BY DEF Statuses
  <2>3. SupersededJournal(t) \in Logs
    <3>1. PICK p \in Projection :
            LogStatus(journal, latestByTarget[t], "Superseded") = Append(journal, p)
      BY <1>1, <2>2, LogStatusProperties
    <3> QED
      BY <1>1, <1>3, <3>1, AppendedProperties DEF SupersededJournal
  <2>4. SupersededOrder(t) \in Seq(CommandIds)
    BY <1>1, <1>3, <2>1, AppendProperties DEF SupersededOrder
  <2>5. /\ SupersededCommands(t) \in CommandMaps
        /\ DOMAIN SupersededCommands(t) = DOMAIN commands
    BY <1>1, <1>3, <2>2, SetStatusProperties DEF SupersededCommands
  <2> QED
    BY <2>3, <2>4, <2>5
<1> QED
  BY <1>2, <1>3

\* What is left of terminalOrder after pruning.
LEMMA RestOfOrderType ==
  ASSUME NEW cmds, NEW order \in Seq(CommandIds), NEW limit
  PROVE  SubSeq(order, Popped(cmds, order, limit) + 1, Len(order))
           \in Seq(CommandIds)
<1> DEFINE k == Popped(cmds, order, limit)
<1>1. k \in 0..Len(order) /\ Len(order) \in Nat
  BY PoppedType, LenProperties
<1>2. \A i \in (k + 1)..Len(order) : order[i] \in CommandIds
  BY <1>1, ElementOfSeq
<1> QED
  BY <1>1, <1>2, SubSeqProperties

LEMMA PruneType ==
  ASSUME TypeOK, NEW cmds \in CommandMaps, NEW order \in Seq(CommandIds),
         NEW limit, Prune(cmds, order, latestByTarget, limit)
  PROVE  /\ commands' \in CommandMaps
         /\ terminalOrder' \in Seq(CommandIds)
         /\ latestByTarget' \in [Targets -> 0..MaxCommands]
         /\ terminalReports' \subseteq Report
<1>1. commands' \in CommandMaps
  BY WithoutProperties DEF Prune
<1>2. terminalOrder' \in Seq(CommandIds)
  BY RestOfOrderType DEF Prune
<1>3. latestByTarget' \in [Targets -> 0..MaxCommands]
  BY BoundAssumption DEF Prune, TypeOK
<1>4. terminalReports' \subseteq Report
  BY DEF Prune, TypeOK
<1> QED
  BY <1>1, <1>2, <1>3, <1>4

-----------------------------------------------------------------------------
(* Type correctness: one lemma per group of actions *)

LEMMA InitType == Init => TypeInv
<1> SUFFICES ASSUME Init PROVE TypeInv
  OBVIOUS
<1>1. NoCommands \in CommandMaps
  <2>1. NoCommands \in [{} -> Command]
    BY DEF NoCommands
  <2> QED
    BY <2>1, MapIntro
<1>2. journal \in Seq(Projection) /\ journal # <<>>
  BY <1>1 DEF Init, Projection
<1>3. ASSUME NEW t \in Targets
      PROVE  device[t] \in Seq(Values) /\ device[t] # <<>>
  <2>1. PICK v \in Values : device[t] = <<v>>
    BY DEF Init
  <2> QED
    BY <2>1
<1>4. device \in [Targets -> Seq(Values)]
  BY <1>3 DEF Init
<1>5. /\ commands \in CommandMaps
      /\ terminalOrder \in Seq(CommandIds)
      /\ terminalReports \subseteq Report
      /\ deferred \in Seq(Report)
      /\ adapters \subseteq Routes
      /\ evidence \subseteq Report
      /\ sent \subseteq Delivery
  <2>1. <<>> \in Seq(CommandIds) /\ <<>> \in Seq(Report)
    OBVIOUS
  <2> QED
    BY <1>1, <2>1 DEF Init
<1>6. /\ latestByTarget \in [Targets -> 0..MaxCommands]
      /\ observed \in [Targets -> Values \cup {NoValue}]
      /\ observedRevisions \in [Targets -> Nat]
      /\ desires \in [Targets -> Values \cup {NoValue, Cleared}]
  BY BoundAssumption DEF Init, NoDesires
<1>7. /\ nextCommand \in 1..(MaxCommands + 1)
      /\ now \in 0..MaxTime
      /\ cursor \in 0..MaxCommands
      /\ restarts \in 0..MaxRestarts
  BY BoundAssumption DEF Init
<1>8. faulted \in BOOLEAN
  BY DEF Init
<1> QED
  BY <1>2, <1>3, <1>4, <1>5, <1>6, <1>7, <1>8
     DEF Init, TypeInv, TypeOK, CurrentIsRetained, CursorAfterIssuing

\* Reports adapters can send, and a synchronous report, have the right type.
LEMMA ReportsOfType ==
  ASSUME TypeOK, NEW ids \in SUBSET CommandIds, NEW r \in ReportsOf(ids)
  PROVE  r \in Report
<1>1. CASE r \in evidence
  BY <1>1 DEF TypeOK
<1>2. CASE r \in {[command |-> id, status |-> status, value |-> NoValue,
                   revision |-> id] : id \in ids, status \in FailureStatuses}
  <2>1. PICK id \in ids, status \in FailureStatuses :
          r = [command |-> id, status |-> status, value |-> NoValue,
               revision |-> id]
    BY <1>2
  <2>2. status \in Statuses \ {"Pending"} /\ id \in CommandIds /\ id \in Nat
    BY PolicyAssumption, CommandIdsProperties
  <2> QED
    BY <2>1, <2>2 DEF Report
<1> QED
  BY <1>1, <1>2 DEF ReportsOf

LEMMA FeedbackType ==
  ASSUME TypeInv,
         BeginFrame \/ ReceiveDeferred \/ ReceiveReport \/ ReportsDrained
         \/ ReceiveObservation \/ RunPhases
  PROVE  TypeInv'
<1> USE DEF TypeInv, CurrentIsRetained, CursorAfterIssuing, current, outbox,
            mirror, staging, frame, outside
<1>1. CASE BeginFrame
  BY <1>1, BoundAssumption DEF BeginFrame, TypeOK
<1>2. CASE ReceiveDeferred
  <2>1. /\ deferred \in Seq(Report)
        /\ deferred # <<>>
        /\ pc = "reports"
    BY <1>2 DEF ReceiveDeferred, TypeOK
  <2>2. Head(deferred) \in Report /\ Tail(deferred) \in Seq(Report)
    BY <2>1, HeadTailProperties
  <2> QED
    BY <1>2, <2>2, ApplyReportType, JournalType DEF ReceiveDeferred, TypeOK
<1>3. CASE ReceiveReport
  <2>1. {s.command : s \in sent} \subseteq CommandIds
    BY DEF TypeOK, Delivery
  <2>2. PICK r \in Report : ApplyReport(r)
    BY <1>3, <2>1, ReportsOfType DEF ReceiveReport
  <2> QED
    BY <1>3, <2>2, ApplyReportType, JournalType DEF ReceiveReport, TypeOK
<1>4. CASE ReportsDrained
  BY <1>4 DEF ReportsDrained, TypeOK
<1>5. CASE ReceiveObservation
  <2>a. PICK t \in Targets :
          \E revision \in 1..Len(device[t]) :
            ApplyObservation(t, device[t][revision], revision)
    BY <1>5 DEF ReceiveObservation
  <2>1. PICK revision \in 1..Len(device[t]) :
          ApplyObservation(t, device[t][revision], revision)
    BY <2>a
  <2>2. device[t][revision] \in Values \cup {NoValue} /\ revision \in Nat
    <3>1. device[t] \in Seq(Values)
      BY DEF TypeOK
    <3> QED
      BY <3>1, ElementOfSeq, LenProperties
  <2>3. /\ observed' \in [Targets -> Values \cup {NoValue}]
        /\ observedRevisions' \in [Targets -> Nat]
        /\ journal' \in Logs
    <3>1. CASE CommitAuthoritative(journal, t, device[t][revision], revision)
      BY <2>2, <3>1, CommitAuthoritativeType, JournalType
    <3>2. CASE UNCHANGED <<mirror, journal>>
      BY <3>2, JournalType DEF TypeOK
    <3> QED
      BY <2>1, <3>1, <3>2 DEF ApplyObservation
  <2> QED
    BY <1>5, <2>1, <2>3, JournalType
       DEF ReceiveObservation, ApplyObservation, TypeOK
<1>6. CASE RunPhases
  BY <1>6 DEF RunPhases, TypeOK
<1> QED
  BY <1>1, <1>2, <1>3, <1>4, <1>5, <1>6

\* The catch block of run_frame.
LEMMA FailFrameType ==
  ASSUME TypeInv, NEW j \in Logs, FailFrame(j)
  PROVE  /\ faulted' \in BOOLEAN
         /\ pc' = "idle"
         /\ now' \in 0..MaxTime
         /\ desires' \in [Targets -> Values \cup {NoValue, Cleared}]
         /\ desires' = NoDesires
         /\ cursor' \in 0..MaxCommands
         /\ journal' \in Logs
BY FlushedProperties DEF FailFrame, NoDesires, TypeInv, TypeOK

LEMMA IssueType ==
  ASSUME TypeInv, NEW t \in Targets,
         ClearDesire(t) \/ IssueUnneeded(t) \/ IssueAlreadyObserved(t)
         \/ Issue(t) \/ IssueThrows(t)
  PROVE  TypeInv'
<1> USE DEF TypeInv, CurrentIsRetained, CursorAfterIssuing, current, outbox,
            mirror, staging, frame, outside
<1>1. [desires EXCEPT ![t] = NoValue] \in [Targets -> Values \cup {NoValue, Cleared}]
  BY DEF TypeOK
<1>2. desires = NoDesires => [desires EXCEPT ![t] = NoValue] = NoDesires
  BY DEF NoDesires
<1>3. CASE ClearDesire(t)
  <2>1. latestByTarget[t] \in CommandIds /\ "Superseded" \in Statuses
    BY <1>3, CommandIdsProperties DEF ClearDesire, PendingLatest, TypeOK, Statuses
  <2>2. /\ commands' \in CommandMaps
        /\ DOMAIN commands' = DOMAIN commands
        /\ terminalOrder' \in Seq(CommandIds)
        /\ journal' \in Logs
        /\ UNCHANGED <<latestByTarget, terminalReports>>
    BY <1>3, <2>1, TransitionType DEF ClearDesire
  <2> QED
    BY <1>1, <1>2, <1>3, <2>2, JournalType DEF ClearDesire, TypeOK
<1>4. CASE IssueUnneeded(t)
  BY <1>1, <1>2, <1>4 DEF IssueUnneeded, TypeOK
<1>5. CASE IssueAlreadyObserved(t)
  BY <1>1, <1>2, <1>5, SupersededType, JournalType
     DEF IssueAlreadyObserved, Issuing, TypeOK
<1>6. CASE Issue(t)
  <2> DEFINE cmds == SupersededCommands(t)
             order == SupersededOrder(t)
             gone == Pruned(cmds, order, MaxRetainedCommands - 1)
             command == [target |-> t, desired |-> desires[t], issuedAt |-> now,
                         status |-> "Pending", retryIndex |-> 0]
  <2>1. /\ nextCommand \in CommandIds
        /\ pc = "work"
        /\ desires[t] \in Values
        /\ desires # NoDesires
        /\ cursor = 0
    <3>1. /\ nextCommand \in CommandIds
          /\ pc = "work"
          /\ desires[t] # NoValue /\ desires[t] # Cleared
      BY <1>6 DEF Issue, Issuing, CanIssue
    <3> QED
      BY <3>1 DEF TypeOK, NoDesires
  <2>2. command \in Command
    BY <2>1, PolicyAssumption DEF Command, Statuses, TypeOK
  <2>3. cmds \in CommandMaps /\ order \in Seq(CommandIds)
        /\ SupersededJournal(t) \in Logs
    BY SupersededType
  <2>4. /\ Put(Without(cmds, gone), nextCommand, command) \in CommandMaps
        /\ nextCommand \in DOMAIN Put(Without(cmds, gone), nextCommand, command)
    <3> HIDE DEF cmds, gone, command
    <3> DEFINE rest == Without(cmds, gone)
    <3>1. rest \in CommandMaps
      BY <2>3, WithoutProperties
    <3>2. nextCommand \in CommandIds
      BY <2>1
    <3> HIDE DEF rest
    <3>3. /\ Put(rest, nextCommand, command) \in CommandMaps
          /\ DOMAIN Put(rest, nextCommand, command) = DOMAIN rest \cup {nextCommand}
      BY <2>2, <3>1, <3>2, PutProperties
    <3> QED
      BY <3>3 DEF rest
  <2>5. commands' = Put(Without(cmds, gone), nextCommand, command)
    BY <1>6 DEF Issue
  <2>6. latestByTarget' \in [Targets -> 0..MaxCommands]
    BY <1>6, <2>1, BoundAssumption DEF Issue, TypeOK, CommandIds
  <2>7. terminalOrder' \in Seq(CommandIds)
    BY <1>6, <2>3, RestOfOrderType DEF Issue
  <2>8. terminalReports' \subseteq Report
    BY <1>6 DEF Issue, TypeOK
  <2>9. journal' \in Logs
    <3>1. PICK p \in Projection :
            LogCommand(SupersededJournal(t), nextCommand, command)
              = Append(SupersededJournal(t), p)
      BY <2>1, <2>2, <2>3, LogCommandProperties
    <3> QED
      BY <1>6, <2>3, <3>1, AppendedProperties DEF Issue
  <2>10. /\ nextCommand' = nextCommand + 1
         /\ nextCommand' \in 1..(MaxCommands + 1)
         /\ nextCommand' - 1 = nextCommand
    BY <1>6, <2>1, BoundAssumption DEF Issue, CommandIds
  <2>11. /\ pc' = "attempt"
         /\ desires' = [desires EXCEPT ![t] = NoValue]
         /\ cursor' = 0
         /\ UNCHANGED <<mirror, staging, faulted, now, outside>>
    BY <1>6, <2>1 DEF Issue
  <2> HIDE DEF cmds, order, gone, command
  <2>12. TypeOK'
    BY <1>1, <2>1, <2>4, <2>5, <2>6, <2>7, <2>8, <2>9, <2>10, <2>11, JournalType
       DEF TypeOK
  <2> QED
    BY <2>4, <2>5, <2>10, <2>11, <2>12
<1>7. CASE IssueThrows(t)
  <2>1. SupersededCommands(t) \in CommandMaps
        /\ SupersededOrder(t) \in Seq(CommandIds) /\ SupersededJournal(t) \in Logs
    BY SupersededType
  <2>2. /\ commands' \in CommandMaps
        /\ terminalOrder' \in Seq(CommandIds)
        /\ latestByTarget' \in [Targets -> 0..MaxCommands]
        /\ terminalReports' \subseteq Report
    BY <1>7, <2>1, PruneType DEF IssueThrows
  <2>3. FailFrame(SupersededJournal(t))
    BY <1>7 DEF IssueThrows
  <2> QED
    BY <1>7, <2>1, <2>2, <2>3, FailFrameType, JournalType DEF IssueThrows, TypeOK
<1> QED
  BY <1>3, <1>4, <1>5, <1>6, <1>7

LEMMA DispatchType ==
  ASSUME TypeInv,
         RecordAttempt \/ AdapterReceives \/ DispatchRefused \/ DispatchThrows
         \/ DispatchAccepted \/ DispatchReported \/ FrameThrows
  PROVE  TypeInv'
<1> USE DEF TypeInv, CurrentIsRetained, CursorAfterIssuing, outbox, mirror,
            staging, frame, outside
<1>1. pc \in {"attempt", "call", "await"} =>
        /\ current \in CommandIds
        /\ commands[current] \in Command
        /\ Attempt \in 1..(Len(RetryDelays) + 1)
  <2> SUFFICES ASSUME pc \in {"attempt", "call", "await"}
               PROVE  /\ current \in CommandIds
                      /\ commands[current] \in Command
                      /\ Attempt \in 1..(Len(RetryDelays) + 1)
    OBVIOUS
  <2>1. current \in CommandIds /\ commands[current] \in Command
    BY MapElim DEF TypeOK
  <2>2. commands[current].retryIndex \in 0..Len(RetryDelays)
    BY <2>1 DEF Command
  <2>3. Len(RetryDelays) \in Nat
    BY PolicyAssumption
  <2> QED
    BY <2>1, <2>2, <2>3 DEF Attempt
<1>2. CASE RecordAttempt
  <2>1. journal' \in Logs
    <3>1. PICK p \in Projection : LogAttempt(journal, current, Attempt) = Append(journal, p)
      BY <1>1, <1>2, JournalType, LogAttemptProperties DEF RecordAttempt
    <3>2. Append(journal, p) \in Logs
      BY JournalType, AppendedProperties
    <3> QED
      BY <1>2, <3>1, <3>2, FlushedProperties DEF RecordAttempt
  <2> QED
    BY <1>2, <2>1, JournalType DEF RecordAttempt, TypeOK, current
<1>3. CASE AdapterReceives
  <2> DEFINE s == [command |-> current, attempt |-> Attempt, epoch |-> restarts,
                   target |-> commands[current].target,
                   value |-> commands[current].desired]
  <2>1. pc = "call" /\ sent' = sent \cup {s}
    BY <1>3 DEF AdapterReceives
  <2>2. s \in Delivery
    BY <1>1, <2>1 DEF Delivery, Command, TypeOK
  <2>3. sent' \subseteq Delivery
    BY <2>1, <2>2 DEF TypeOK
  <2> HIDE DEF s
  <2> QED
    BY <1>3, <2>3 DEF AdapterReceives, TypeOK, current
<1>4. ASSUME NEW status \in Statuses, DispatchReturns, Transition(current, status),
             UNCHANGED <<mirror, deferred>>
      PROVE  TypeInv'
  <2>1. pc = "await" /\ current \in CommandIds
    BY <1>1, <1>4 DEF DispatchReturns
  <2> QED
    BY <1>4, <2>1, TransitionType, JournalType DEF DispatchReturns, TypeOK
<1>5. CASE DispatchRefused
  BY <1>4, <1>5 DEF DispatchRefused, Statuses
<1>6. ASSUME DispatchReturns, UNCHANGED <<outbox, mirror, deferred, journal>>
      PROVE  TypeInv'
  BY <1>6 DEF DispatchReturns, TypeOK
<1>7. CASE DispatchThrows
  <2>1. "Indeterminate" \in Statuses
    BY DEF Statuses
  <2> QED
    BY <1>4, <1>6, <1>7, <2>1 DEF DispatchThrows
<1>8. CASE DispatchAccepted
  BY <1>6, <1>8 DEF DispatchAccepted
<1>9. CASE DispatchReported
  <2>1. DispatchReturns /\ current \in CommandIds
    BY <1>1, <1>9 DEF DispatchReported, DispatchReturns
  <2>2. {current} \in SUBSET CommandIds
    BY <2>1
  <2>3. PICK r \in ReportsOf({current}) :
          \/ ApplyReport(r) /\ UNCHANGED deferred
          \/ deferred' = Append(deferred, r) /\ UNCHANGED <<outbox, mirror, journal>>
          \/ Transition(current, "Indeterminate") /\ UNCHANGED <<mirror, deferred>>
    BY <1>9 DEF DispatchReported
  <2>4. r \in Report
    BY <2>2, ReportsOfType
  <2>5. CASE ApplyReport(r) /\ UNCHANGED deferred
    BY <2>1, <2>4, <2>5, ApplyReportType, JournalType DEF DispatchReturns, TypeOK
  <2>6. CASE deferred' = Append(deferred, r) /\ UNCHANGED <<outbox, mirror, journal>>
    <3>1. deferred' \in Seq(Report)
      BY <2>4, <2>6, AppendProperties DEF TypeOK
    <3> QED
      BY <2>1, <2>6, <3>1 DEF DispatchReturns, TypeOK
  <2>7. CASE Transition(current, "Indeterminate") /\ UNCHANGED <<mirror, deferred>>
    <3>1. "Indeterminate" \in Statuses
      BY DEF Statuses
    <3> QED
      BY <1>4, <2>1, <2>7, <3>1
  <2> QED
    BY <2>3, <2>5, <2>6, <2>7
<1>10. CASE FrameThrows
  <2>1. FailFrame(journal) /\ journal \in Logs
    BY <1>10, JournalType DEF FrameThrows
  <2> QED
    BY <1>10, <2>1, FailFrameType, JournalType DEF FrameThrows, TypeOK
<1> QED
  BY <1>2, <1>3, <1>5, <1>7, <1>8, <1>9, <1>10

\* A retry index stays within the policy.
LEMMA RetryType ==
  ASSUME TypeInv, NEW id \in DOMAIN commands, Retry(id)
  PROVE  /\ commands' \in CommandMaps
         /\ DOMAIN commands' = DOMAIN commands
         /\ commands' = [x \in DOMAIN commands |->
              IF x = id
              THEN [commands[x] EXCEPT !.retryIndex = commands[x].retryIndex + 1]
              ELSE commands[x]]
<1>1. DOMAIN commands \in SUBSET CommandIds /\ commands \in [DOMAIN commands -> Command]
  BY MapElim DEF TypeInv, TypeOK
<1>2. commands' = [x \in DOMAIN commands |->
        IF x = id
        THEN [commands[x] EXCEPT !.retryIndex = commands[x].retryIndex + 1]
        ELSE commands[x]]
  BY <1>1 DEF Retry
<1>3. commands[id].retryIndex < Len(RetryDelays)
  BY DEF Retry, Visits, Ready, RetryReady
<1>4. [commands[id] EXCEPT !.retryIndex = commands[id].retryIndex + 1] \in Command
  <2>1. commands[id] \in Command /\ Len(RetryDelays) \in Nat
    BY <1>1, PolicyAssumption
  <2>2. commands[id].retryIndex + 1 \in 0..Len(RetryDelays)
    BY <1>3, <2>1 DEF Command
  <2> QED
    BY <2>1, <2>2 DEF Command
<1>5. commands' \in [DOMAIN commands -> Command]
  BY <1>1, <1>2, <1>4
<1> QED
  BY <1>1, <1>2, <1>5, MapIntro

LEMMA CompletionType ==
  ASSUME TypeInv,
         (\E id \in DOMAIN commands : TimeOut(id) \/ Retry(id)) \/ CompleteFrame
  PROVE  TypeInv'
<1> USE DEF TypeInv, CurrentIsRetained, CursorAfterIssuing, current, outbox,
            mirror, staging, frame, outside
<1>1. ASSUME NEW id \in DOMAIN commands, TimeOut(id) PROVE TypeInv'
  <2>1. id \in CommandIds /\ id \in 0..MaxCommands /\ "TimedOut" \in Statuses
    BY MapElim, CommandIdsProperties DEF TypeOK, Statuses
  <2>2. Transition(id, "TimedOut") /\ pc = "work" /\ desires = NoDesires
    BY <1>1 DEF TimeOut, Visits, AllIssued
  <2> QED
    BY <1>1, <2>1, <2>2, TransitionType, JournalType DEF TimeOut, TypeOK
<1>2. ASSUME NEW id \in DOMAIN commands, Retry(id) PROVE TypeInv'
  <2>1. id \in CommandIds /\ id \in 0..MaxCommands /\ id # 0
    BY MapElim, BoundAssumption DEF TypeOK, CommandIds
  <2>2. desires = NoDesires /\ cursor' = id /\ pc' = "attempt"
    BY <1>2 DEF Retry, Visits, AllIssued
  <2> QED
    BY <1>2, <2>1, <2>2, RetryType DEF Retry, TypeOK
<1>3. CASE CompleteFrame
  <2>1. commands \in CommandMaps /\ terminalOrder \in Seq(CommandIds)
        /\ journal \in Logs
    BY JournalType DEF TypeOK
  <2>2. /\ commands' \in CommandMaps
        /\ terminalOrder' \in Seq(CommandIds)
        /\ latestByTarget' \in [Targets -> 0..MaxCommands]
        /\ terminalReports' \subseteq Report
    BY <1>3, <2>1, PruneType DEF CompleteFrame
  <2>3. journal' \in Logs
    BY <1>3, <2>1, FlushedProperties DEF CompleteFrame
  <2> QED
    BY <1>3, <2>2, <2>3, JournalType DEF CompleteFrame, TypeOK
<1> QED
  BY <1>1, <1>2, <1>3

\* The commands register_adapter makes indeterminate.
Uncertain(route) ==
  {id \in DOMAIN commands :
     /\ route \notin NativeIdempotency
     /\ RouteOf[commands[id].target] = route
     /\ commands[id].status = "Pending"}
Marked(cmds, ids) ==
  [id \in DOMAIN cmds |->
     IF id \in ids THEN [cmds[id] EXCEPT !.status = "Indeterminate"] ELSE cmds[id]]

LEMMA MarkedProperties ==
  ASSUME NEW f \in CommandMaps, NEW ids
  PROVE  /\ Marked(f, ids) \in CommandMaps
         /\ DOMAIN Marked(f, ids) = DOMAIN f
<1>1. DOMAIN f \in SUBSET CommandIds /\ f \in [DOMAIN f -> Command]
  BY MapElim
<1>2. \A x \in DOMAIN f : [f[x] EXCEPT !.status = "Indeterminate"] \in Command
  BY <1>1 DEF Command, Statuses
<1>3. Marked(f, ids) \in [DOMAIN f -> Command]
  BY <1>1, <1>2 DEF Marked
<1> QED
  BY <1>1, <1>3, MapIntro

LEMMA RegisterAdapterLog ==
  ASSUME TypeOK, NEW route, RegisterAdapter(route)
  PROVE  /\ commands' = Marked(commands, Uncertain(route))
         /\ \/ journal' = journal /\ Uncertain(route) = {}
            \/ \E p \in Projection :
                 /\ journal' = <<p>>
                 /\ p.commands = Marked(Rebuilt(journal).commands, Uncertain(route))
                 /\ p.observed = Rebuilt(journal).observed
                 /\ p.revisions = Rebuilt(journal).revisions
<1> DEFINE marked == Marked(Rebuilt(journal).commands, Uncertain(route))
           p == [Rebuilt(journal) EXCEPT !.commands = marked]
<1>1. Rebuilt(journal) \in Projection
  BY JournalType, LogProperties
<1>2. Rebuilt(journal).commands \in CommandMaps
  BY <1>1 DEF Projection
<1>3. marked \in CommandMaps
  BY <1>2, MarkedProperties
<1>4. /\ commands' = Marked(commands, Uncertain(route))
      /\ journal' = IF Uncertain(route) = {} THEN journal ELSE <<p>>
  BY DEF RegisterAdapter, Marked, Uncertain
<1> HIDE DEF marked
<1>5. /\ p \in Projection
      /\ p.commands = marked
      /\ p.observed = Rebuilt(journal).observed
      /\ p.revisions = Rebuilt(journal).revisions
  BY <1>1, <1>3 DEF Projection
<1> HIDE DEF p
<1> QED
  BY <1>4, <1>5 DEF marked

LEMMA HostType ==
  ASSUME TypeInv,
         (\E route \in Routes : RegisterAdapter(route))
         \/ (\E t \in Targets : Reconcile(t)) \/ ReconcileFlush \/ Checkpoint
  PROVE  TypeInv'
<1> USE DEF TypeInv, CurrentIsRetained, CursorAfterIssuing, current, outbox,
            mirror, staging, frame, outside
<1>1. ASSUME NEW route \in Routes, RegisterAdapter(route) PROVE TypeInv'
  <2>1. commands' \in CommandMaps /\ DOMAIN commands' = DOMAIN commands
    BY <1>1, RegisterAdapterLog, MarkedProperties DEF TypeOK
  <2>2. journal' \in Logs
    <3>1. CASE journal' = journal
      BY <3>1, JournalType
    <3>2. ASSUME NEW p \in Projection, journal' = <<p>> PROVE journal' \in Logs
      BY <3>2 DEF Logs
    <3> QED
      BY <1>1, <3>1, <3>2, RegisterAdapterLog
  <2> QED
    BY <1>1, <2>1, <2>2, JournalType DEF RegisterAdapter, TypeOK
<1>2. ASSUME NEW t \in Targets, Reconcile(t) PROVE TypeInv'
  <2> DEFINE id == latestByTarget[t]
             value == device[t][Len(device[t])]
             applied == commands[id].desired = value
             status == IF applied THEN "Applied" ELSE "Failed"
             revision == IF observedRevisions[t] = 0 THEN id
                         ELSE observedRevisions[t] + 1
             report == [command |-> id, status |-> status, revision |-> revision,
                        value |-> IF applied THEN value ELSE NoValue]
  <2>1. /\ id # 0
        /\ commands' = SetStatus(commands, id, status)
        /\ terminalOrder' = Append(terminalOrder, id)
        /\ CommitAuthoritative(LogStatus(journal, id, status), t, value, revision)
        /\ terminalReports' = {r \in terminalReports : r.command # id} \cup {report}
        /\ pc' = "flush"
        /\ UNCHANGED <<latestByTarget, staging, nextCommand, faulted, now, desires,
                       cursor, outside>>
    BY <1>2 DEF Reconcile
  <2>2. id \in CommandIds /\ id \in Nat
    BY <2>1, CommandIdsProperties DEF TypeOK
  <2>3. value \in Values
    <3>1. device[t] \in Seq(Values) /\ device[t] # <<>>
      BY DEF TypeOK
    <3> QED
      BY <3>1, LenProperties, EmptySeq, ElementOfSeq
  <2>4. revision \in Nat
    BY <2>2 DEF TypeOK
  <2>5. status \in Statuses /\ status # "Pending"
    BY DEF Statuses
  <2> HIDE DEF value, revision, status, applied
  <2>6. report \in Report
    BY <2>2, <2>3, <2>4, <2>5 DEF Report
  <2> HIDE DEF id, report
  <2>7. terminalReports' \subseteq Report
    BY <2>1, <2>6 DEF TypeOK
  <2>8. commands \in CommandMaps /\ journal \in Logs
        /\ terminalOrder \in Seq(CommandIds)
    BY JournalType DEF TypeOK
  <2>9. commands' \in CommandMaps
    BY <2>1, <2>5, <2>8, SetStatusProperties
  <2>10. terminalOrder' \in Seq(CommandIds)
    BY <2>1, <2>2, <2>8, AppendProperties
  <2>11. LogStatus(journal, id, status) \in Logs
    <3>1. PICK p \in Projection : LogStatus(journal, id, status) = Append(journal, p)
      BY <2>5, <2>8, LogStatusProperties
    <3> QED
      BY <2>8, <3>1, AppendedProperties
  <2>12. /\ observed' \in [Targets -> Values \cup {NoValue}]
         /\ observedRevisions' \in [Targets -> Nat]
         /\ journal' \in Logs
    BY <2>1, <2>3, <2>4, <2>11, CommitAuthoritativeType
  <2>13. cursor' # 0 => desires' = NoDesires
    BY <2>1
  <2> QED
    BY <2>1, <2>7, <2>9, <2>10, <2>12, <2>13, JournalType DEF TypeOK
<1>3. CASE ReconcileFlush
  BY <1>3, FlushedProperties, JournalType DEF ReconcileFlush, TypeOK
<1>4. CASE Checkpoint
  BY <1>4, FlushedProperties, JournalType DEF Checkpoint, TypeOK
<1> QED
  BY <1>1, <1>2, <1>3, <1>4

LEMMA RestartType ==
  ASSUME TypeInv, NEW k \in 1..Len(journal), Restart(k)
  PROVE  TypeInv'
<1> DEFINE p == journal[k]
           settled == Settled(p.commands)
<1>1. journal \in Logs
  BY JournalType DEF TypeInv
<1>2. p \in Projection
  BY <1>1, LogProperties
<1>3. p.commands \in CommandMaps
  BY <1>2 DEF Projection
<1>4. settled \in SUBSET CommandIds
  BY <1>3, MapElim DEF Settled
<1>5. Cardinality(settled) \in Nat
  <2>1. IsFiniteSet(CommandIds)
    BY BoundAssumption, FS_Interval DEF CommandIds
  <2> QED
    BY <1>4, <2>1, FS_Subset, FS_CardinalityType
<1>6. PICK order \in [1..Cardinality(settled) -> settled] :
        LET gone == Pruned(p.commands, order, MaxRetainedCommands)
        IN /\ commands' = Without(p.commands, gone)
           /\ latestByTarget' =
                [t \in Targets |-> IF NewestOf(p.commands, t) \in gone THEN 0
                                   ELSE NewestOf(p.commands, t)]
           /\ terminalOrder' =
                SubSeq(order, Popped(p.commands, order, MaxRetainedCommands) + 1,
                       Len(order))
  BY DEF Restart
<1>7. order \in Seq(CommandIds)
  BY <1>4, <1>5, SeqDef
<1>8. commands' \in CommandMaps
  BY <1>3, <1>6, WithoutProperties
<1>9. \A t \in Targets : NewestOf(p.commands, t) \in 0..MaxCommands
  <2>1. DOMAIN p.commands \in SUBSET CommandIds
    BY <1>3, MapElim
  <2> QED
    BY <2>1, NewestProperties DEF NewestOf
<1>10. latestByTarget' \in [Targets -> 0..MaxCommands]
  BY <1>6, <1>9, BoundAssumption
<1>11. terminalOrder' \in Seq(CommandIds)
  BY <1>6, <1>7, RestOfOrderType
<1>12. journal' \in Logs
  BY <1>1, PrefixProperties DEF Restart
<1>13. nextCommand' \in 1..(MaxCommands + 1)
  <2>1. DOMAIN p.commands \in SUBSET CommandIds
    BY <1>3, MapElim
  <2>2. Newest(DOMAIN p.commands) \in 0..MaxCommands
    BY <2>1, NewestProperties
  <2>3. nextCommand' = Newest(DOMAIN p.commands) + 1
    BY DEF Restart
  <2> QED
    BY <2>2, <2>3, BoundAssumption
<1>14. /\ observed' \in [Targets -> Values \cup {NoValue}]
       /\ observedRevisions' \in [Targets -> Nat]
  BY <1>2 DEF Restart, Projection
<1>15. /\ terminalReports' = {} /\ deferred' = <<>> /\ adapters' = {}
       /\ pc' = "idle" /\ faulted' = FALSE /\ now' \in 0..MaxTime
       /\ desires' = NoDesires /\ cursor' = 0
       /\ restarts < MaxRestarts /\ restarts' = restarts + 1
       /\ UNCHANGED <<device, evidence, sent>>
  BY DEF Restart
<1>16. restarts' \in 0..MaxRestarts
  BY <1>15, BoundAssumption DEF TypeInv, TypeOK
<1>17. desires' \in [Targets -> Values \cup {NoValue, Cleared}]
  BY <1>15 DEF NoDesires
<1>18. cursor' \in 0..MaxCommands
  BY <1>15, BoundAssumption
<1> HIDE DEF p, settled
<1>19. TypeOK'
  <2>1. deferred' \in Seq(Report)
    BY <1>15
  <2>2. faulted' \in BOOLEAN
    BY <1>15
  <2>3. terminalReports' \subseteq Report /\ adapters' \subseteq Routes
    BY <1>15
  <2> QED
    BY <1>8, <1>10, <1>11, <1>12, <1>13, <1>14, <1>15, <1>16, <1>17, <1>18,
       <2>1, <2>2, <2>3, JournalType DEF TypeInv, TypeOK
<1> QED
  BY <1>15, <1>19 DEF TypeInv, CurrentIsRetained, CursorAfterIssuing

LEMMA EnvironmentType ==
  ASSUME TypeInv, Environment
  PROVE  TypeInv'
<1> USE DEF TypeInv, CurrentIsRetained, CursorAfterIssuing, current, outbox,
            mirror, staging, frame, outside
<1>1. ASSUME NEW t \in Targets, NEW v \in Values,
             device' = [device EXCEPT ![t] = Append(@, v)]
      PROVE  /\ device' \in [Targets -> Seq(Values)]
             /\ \A u \in Targets : device'[u] # <<>>
  <2>1. /\ device \in [Targets -> Seq(Values)]
        /\ \A u \in Targets : device[u] # <<>>
    BY DEF TypeOK
  <2>2. Append(device[t], v) \in Seq(Values) /\ Append(device[t], v) # <<>>
    BY <2>1, AppendProperties
  <2> QED
    BY <1>1, <2>1, <2>2
<1>2. ASSUME NEW s \in sent, DeviceExecutes(s) PROVE TypeInv'
  <2> DEFINE e == [command |-> s.command, status |-> "Applied", value |-> s.value,
                   revision |-> Len(device[s.target]) + 1]
  <2>1. s.command \in CommandIds /\ s.target \in Targets /\ s.value \in Values
    BY DEF TypeOK, Delivery
  <2>2. Len(device[s.target]) \in Nat
    BY <2>1, LenProperties DEF TypeOK
  <2>3. e \in Report
    BY <2>1, <2>2 DEF Report, Statuses
  <2>4. device' = [device EXCEPT ![s.target] = Append(@, s.value)]
        /\ evidence' = evidence \cup {e}
    BY <1>2 DEF DeviceExecutes
  <2> HIDE DEF e
  <2>5. evidence' \subseteq Report
    BY <2>3, <2>4 DEF TypeOK
  <2> QED
    BY <1>1, <1>2, <2>1, <2>4, <2>5 DEF DeviceExecutes, TypeOK
<1>3. ASSUME NEW t \in Targets, NEW v \in Values, DeviceChanges(t, v) PROVE TypeInv'
  <2>1. device' = [device EXCEPT ![t] = Append(@, v)]
    BY <1>3 DEF DeviceChanges
  <2> QED
    BY <1>1, <1>3, <2>1 DEF DeviceChanges, TypeOK
<1>4. ASSUME NEW s \in sent, AdapterLosesTrack(s) PROVE TypeInv'
  <2> DEFINE e == [command |-> s.command, status |-> "Indeterminate",
                   value |-> NoValue, revision |-> s.command]
  <2>1. s.command \in CommandIds /\ s.command \in Nat
    BY CommandIdsProperties DEF TypeOK, Delivery
  <2>2. e \in Report
    BY <2>1 DEF Report, Statuses
  <2>3. evidence' = evidence \cup {e}
    BY <1>4 DEF AdapterLosesTrack
  <2> HIDE DEF e
  <2>4. evidence' \subseteq Report
    BY <2>2, <2>3 DEF TypeOK
  <2> QED
    BY <1>4, <2>4 DEF AdapterLosesTrack, TypeOK
<1> QED
  BY <1>2, <1>3, <1>4 DEF Environment

LEMMA TypeStep ==
  ASSUME TypeInv, [Next]_vars
  PROVE  TypeInv'
<1>1. CASE UNCHANGED vars
  BY <1>1 DEF vars, TypeInv, TypeOK, CurrentIsRetained, CursorAfterIssuing, current,
              outbox, mirror, staging, frame, outside
<1>2. CASE Frame
  BY <1>2, FeedbackType, IssueType, DispatchType, CompletionType DEF Frame
<1>3. CASE Host
  BY <1>3, HostType, RestartType DEF Host
<1>4. CASE Environment
  BY <1>4, EnvironmentType
<1> QED
  BY <1>1, <1>2, <1>3, <1>4 DEF Next

\* Every variable of the outbox, the frame, the log and the environment keeps
\* its type, in every execution: retry indices stay within the retry policy,
\* command ids within their range, and dispatch() finds its command retained.
THEOREM TypeCorrect == Spec => []TypeOK
<1>1. Init => TypeInv
  BY InitType
<1>2. TypeInv /\ [Next]_vars => TypeInv'
  BY TypeStep
<1>3. TypeInv => TypeOK
  BY DEF TypeInv
<1> QED
  BY <1>1, <1>2, <1>3, PTL DEF Spec

-----------------------------------------------------------------------------
(* Agreement of the retained commands with the recorded ones *)

\* Every retained command is recorded as it is; a pruned one had settled.
Agree(cmds, rec) ==
  /\ \A id \in DOMAIN cmds : id \in DOMAIN rec /\ cmds[id] = rec[id]
  /\ \A id \in DOMAIN rec : id \in DOMAIN cmds \/ ~Active(rec[id].status)

LEMMA AgreeSetStatus ==
  ASSUME NEW cmds \in CommandMaps, NEW rec \in CommandMaps, Agree(cmds, rec),
         NEW id \in DOMAIN cmds, NEW status \in Statuses
  PROVE  Agree(SetStatus(cmds, id, status), SetStatus(rec, id, status))
<1> DEFINE c == SetStatus(cmds, id, status)
           r == SetStatus(rec, id, status)
<1>1. /\ DOMAIN c = DOMAIN cmds
      /\ \A x \in DOMAIN cmds :
           c[x] = IF x = id THEN [cmds[x] EXCEPT !.status = status] ELSE cmds[x]
  BY SetStatusProperties
<1>2. /\ DOMAIN r = DOMAIN rec
      /\ \A x \in DOMAIN rec :
           r[x] = IF x = id THEN [rec[x] EXCEPT !.status = status] ELSE rec[x]
  BY SetStatusProperties
<1> HIDE DEF c, r
<1>3. \A x \in DOMAIN c : x \in DOMAIN r /\ c[x] = r[x]
  BY <1>1, <1>2 DEF Agree
<1>4. \A x \in DOMAIN r : x \in DOMAIN c \/ ~Active(r[x].status)
  BY <1>1, <1>2 DEF Agree
<1> QED
  BY <1>3, <1>4 DEF Agree, c, r

LEMMA AgreeWithout ==
  ASSUME NEW cmds \in CommandMaps, NEW rec, Agree(cmds, rec), NEW gone,
         \A id \in gone : id \in DOMAIN cmds /\ ~Active(cmds[id].status)
  PROVE  Agree(Without(cmds, gone), rec)
<1> DEFINE c == Without(cmds, gone)
<1>1. DOMAIN c = DOMAIN cmds \ gone /\ \A x \in DOMAIN cmds \ gone : c[x] = cmds[x]
  BY WithoutProperties
<1> HIDE DEF c
<1>2. Agree(c, rec)
  BY <1>1 DEF Agree
<1> QED
  BY <1>2 DEF c

LEMMA AgreePut ==
  ASSUME NEW cmds \in CommandMaps, NEW rec \in CommandMaps, Agree(cmds, rec),
         NEW id \in CommandIds, NEW command \in Command
  PROVE  Agree(Put(cmds, id, command), Put(rec, id, command))
<1> DEFINE c == Put(cmds, id, command)
           r == Put(rec, id, command)
<1>1. /\ DOMAIN c = DOMAIN cmds \cup {id}
      /\ c[id] = command
      /\ \A x \in DOMAIN cmds : x # id => c[x] = cmds[x]
  BY PutProperties
<1>2. /\ DOMAIN r = DOMAIN rec \cup {id}
      /\ r[id] = command
      /\ \A x \in DOMAIN rec : x # id => r[x] = rec[x]
  BY PutProperties
<1> HIDE DEF c, r
<1>3. Agree(c, r)
  BY <1>1, <1>2 DEF Agree
<1> QED
  BY <1>3 DEF c, r

LEMMA AgreeMarked ==
  ASSUME NEW cmds \in CommandMaps, NEW rec \in CommandMaps, Agree(cmds, rec),
         NEW ids \in SUBSET DOMAIN cmds
  PROVE  Agree(Marked(cmds, ids), Marked(rec, ids))
BY DEF Agree, Marked

\* What prune_terminal_history erases was retained and had settled.
LEMMA PrunedSettled ==
  ASSUME NEW cmds, NEW order, NEW limit
  PROVE  \A id \in Pruned(cmds, order, limit) :
           id \in DOMAIN cmds /\ ~Active(cmds[id].status)
BY DEF Pruned, SettledAmong

-----------------------------------------------------------------------------
(* The newest command of a target *)

\* It depends on the targets of the commands alone.
LEMMA NewestOfSame ==
  ASSUME NEW f, NEW g, NEW t, DOMAIN g = DOMAIN f,
         \A id \in DOMAIN f : g[id].target = f[id].target
  PROVE  NewestOf(g, t) = NewestOf(f, t)
<1>1. {id \in DOMAIN g : g[id].target = t} = {id \in DOMAIN f : f[id].target = t}
  OBVIOUS
<1> QED
  BY <1>1 DEF NewestOf

\* A command with the largest id becomes the newest of its target.
LEMMA NewestOfPut ==
  ASSUME NEW f \in CommandMaps, NEW id \in CommandIds, NEW c \in Command,
         \A x \in DOMAIN f : x < id, NEW t
  PROVE  NewestOf(Put(f, id, c), t) = IF c.target = t THEN id ELSE NewestOf(f, t)
<1> DEFINE g == Put(f, id, c)
           S == {x \in DOMAIN g : g[x].target = t}
<1>1. /\ g \in CommandMaps
      /\ DOMAIN g = DOMAIN f \cup {id}
      /\ g[id] = c
      /\ \A x \in DOMAIN f : x # id => g[x] = f[x]
  BY PutProperties
<1>2. DOMAIN g \in SUBSET CommandIds /\ id \in Nat /\ DOMAIN f \in SUBSET Nat
  BY <1>1, MapElim, CommandIdsProperties
<1> HIDE DEF g
<1>3. CASE c.target = t
  <2>1. id \in S /\ \A x \in S : x <= id
    BY <1>1, <1>2, <1>3
  <2>2. S \in SUBSET CommandIds /\ S # {}
    BY <1>2, <2>1
  <2> HIDE DEF S
  <2>3. Newest(S) \in S /\ id <= Newest(S) /\ Newest(S) \in 0..MaxCommands
    BY <2>1, <2>2, NewestProperties
  <2>4. Newest(S) = id
    <3>1. Newest(S) <= id /\ Newest(S) \in Nat
      BY <2>1, <2>3, BoundAssumption
    <3> QED
      BY <1>2, <2>3, <3>1
  <2> QED
    BY <1>3, <2>4 DEF NewestOf, S, g
<1>4. CASE c.target # t
  <2>1. S = {x \in DOMAIN f : f[x].target = t}
    BY <1>1, <1>2, <1>4
  <2> QED
    BY <1>4, <2>1 DEF NewestOf, g
<1> QED
  BY <1>3, <1>4

-----------------------------------------------------------------------------
(* What the records add to the rebuilt state *)

LEMMA RebuiltStatus ==
  ASSUME NEW j \in Logs, NEW id, NEW status \in Statuses
  PROVE  /\ LogStatus(j, id, status) \in Logs
         /\ Rebuilt(LogStatus(j, id, status)).commands =
              SetStatus(Rebuilt(j).commands, id, status)
         /\ Rebuilt(LogStatus(j, id, status)).observed = Rebuilt(j).observed
         /\ Rebuilt(LogStatus(j, id, status)).revisions = Rebuilt(j).revisions
<1>1. PICK p \in Projection :
        /\ LogStatus(j, id, status) = Append(j, p)
        /\ p.commands = SetStatus(Rebuilt(j).commands, id, status)
        /\ p.observed = Rebuilt(j).observed
        /\ p.revisions = Rebuilt(j).revisions
  BY LogStatusProperties
<1> QED
  BY <1>1, AppendedProperties

LEMMA RebuiltObserved ==
  ASSUME NEW j \in Logs, NEW t \in Targets, NEW value \in Values \cup {NoValue},
         NEW revision \in Nat
  PROVE  LET l == LogObserved(j, t, value, revision)
         IN /\ l \in Logs
            /\ Rebuilt(l).commands = Rebuilt(j).commands
            /\ Rebuilt(l).observed = [Rebuilt(j).observed EXCEPT ![t] = value]
            /\ Rebuilt(l).revisions = [Rebuilt(j).revisions EXCEPT ![t] = revision]
<1>1. PICK p \in Projection :
        /\ LogObserved(j, t, value, revision) = Append(j, p)
        /\ p.commands = Rebuilt(j).commands
        /\ p.observed = [Rebuilt(j).observed EXCEPT ![t] = value]
        /\ p.revisions = [Rebuilt(j).revisions EXCEPT ![t] = revision]
  BY LogObservedProperties
<1>2. Append(j, p) \in Logs /\ Rebuilt(Append(j, p)) = p
  BY AppendedProperties
<1> QED
  BY <1>1, <1>2

LEMMA RebuiltCommand ==
  ASSUME NEW j \in Logs, NEW id \in CommandIds, NEW c \in Command
  PROVE  /\ LogCommand(j, id, c) \in Logs
         /\ Rebuilt(LogCommand(j, id, c)).commands = Put(Rebuilt(j).commands, id, c)
         /\ Rebuilt(LogCommand(j, id, c)).observed = Rebuilt(j).observed
         /\ Rebuilt(LogCommand(j, id, c)).revisions = Rebuilt(j).revisions
<1>1. PICK p \in Projection :
        /\ LogCommand(j, id, c) = Append(j, p)
        /\ p.commands = Put(Rebuilt(j).commands, id, c)
        /\ p.observed = Rebuilt(j).observed
        /\ p.revisions = Rebuilt(j).revisions
  BY LogCommandProperties
<1>2. Append(j, p) \in Logs /\ Rebuilt(Append(j, p)) = p
  BY AppendedProperties
<1> QED
  BY <1>1, <1>2

-----------------------------------------------------------------------------
(* The inductive invariant *)

\* While a retry has advanced its index but not recorded the attempt, the
\* command at the cursor may be one ahead of its record.
AgreeButFor(cmds, rec, x) ==
  /\ \A id \in DOMAIN cmds :
       /\ id \in DOMAIN rec
       /\ \/ cmds[id] = rec[id]
          \/ id = x /\ cmds[id] = [rec[id] EXCEPT !.retryIndex = @ + 1]
  /\ \A id \in DOMAIN rec : id \in DOMAIN cmds \/ ~Active(rec[id].status)

Recorded == Rebuilt(journal).commands

CommandsRecorded ==
  IF pc = "attempt" THEN AgreeButFor(commands, Recorded, cursor)
  ELSE Agree(commands, Recorded)
IdsRecorded == \A id \in DOMAIN Recorded : id < nextCommand
MirrorRecorded ==
  observed = Rebuilt(journal).observed /\ observedRevisions = Rebuilt(journal).revisions
LatestRecorded ==
  \A t \in Targets : latestByTarget[t] \in {NewestOf(Recorded, t), 0}
LatestRetained ==
  \A t \in Targets : latestByTarget[t] # 0 => latestByTarget[t] \in DOMAIN commands

RecoveryInv ==
  CommandsRecorded /\ IdsRecorded /\ MirrorRecorded /\ LatestRecorded /\ LatestRetained

LEMMA RecoveryInvImplies == RecoveryInv => RestoreIsFaithful
<1> SUFFICES ASSUME RecoveryInv PROVE RestoreIsFaithful
  OBVIOUS
<1>1. /\ \A id \in DOMAIN commands :
           /\ id \in DOMAIN Recorded
           /\ \/ commands[id] = Recorded[id]
              \/ /\ pc = "attempt" /\ id = cursor
                 /\ commands[id] = [Recorded[id] EXCEPT !.retryIndex = @ + 1]
      /\ \A id \in DOMAIN Recorded :
           id \in DOMAIN commands \/ ~Active(Recorded[id].status)
  BY DEF RecoveryInv, CommandsRecorded, Agree, AgreeButFor
<1> QED
  BY <1>1 DEF RecoveryInv, IdsRecorded, MirrorRecorded, LatestRecorded,
              RestoreIsFaithful, Recorded

LEMMA RecordedType ==
  ASSUME TypeOK
  PROVE  journal \in Logs /\ commands \in CommandMaps /\ Recorded \in CommandMaps
<1>1. journal \in Logs /\ commands \in CommandMaps
  BY JournalType DEF TypeOK
<1>2. Rebuilt(journal) \in Projection
  BY <1>1, LogProperties
<1> QED
  BY <1>1, <1>2 DEF Recorded, Projection

\* Steps that leave the commands and their records alone.
LEMMA SameRecovers ==
  ASSUME RecoveryInv, pc # "attempt", pc' # "attempt",
         UNCHANGED <<commands, Recorded, nextCommand, latestByTarget>>,
         MirrorRecorded'
  PROVE  RecoveryInv'
<1>1. CommandsRecorded'
  BY DEF RecoveryInv, CommandsRecorded
<1>2. IdsRecorded' /\ LatestRetained'
  BY DEF RecoveryInv, IdsRecorded, LatestRetained
<1>3. LatestRecorded'
  BY DEF RecoveryInv, LatestRecorded
<1> QED
  BY <1>1, <1>2, <1>3 DEF RecoveryInv

\* Steps that change the status of one retained command and record it.
LEMMA StatusRecovers ==
  ASSUME TypeOK, RecoveryInv, pc # "attempt", pc' # "attempt",
         NEW id \in DOMAIN commands, NEW status \in Statuses,
         commands' = SetStatus(commands, id, status),
         Recorded' = SetStatus(Recorded, id, status),
         UNCHANGED <<nextCommand, latestByTarget>>,
         MirrorRecorded'
  PROVE  RecoveryInv'
<1>1. commands \in CommandMaps /\ Recorded \in CommandMaps
  BY RecordedType
<1>2. CommandsRecorded'
  BY <1>1, AgreeSetStatus DEF RecoveryInv, CommandsRecorded
<1>3. /\ DOMAIN commands' = DOMAIN commands
      /\ DOMAIN Recorded' = DOMAIN Recorded
      /\ \A x \in DOMAIN Recorded :
           Recorded'[x] = IF x = id THEN [Recorded[x] EXCEPT !.status = status]
                          ELSE Recorded[x]
  BY <1>1, SetStatusProperties
<1>4. IdsRecorded' /\ LatestRetained'
  BY <1>3 DEF RecoveryInv, IdsRecorded, LatestRetained
<1>5. \A x \in DOMAIN Recorded : Recorded'[x].target = Recorded[x].target
  BY <1>1, <1>3, MapElim DEF Command
<1>6. \A t \in Targets : NewestOf(Recorded', t) = NewestOf(Recorded, t)
  BY <1>3, <1>5, NewestOfSame
<1>7. LatestRecorded'
  BY <1>6 DEF RecoveryInv, LatestRecorded
<1> QED
  BY <1>2, <1>4, <1>7 DEF RecoveryInv

LEMMA TransitionRecovers ==
  ASSUME TypeOK, RecoveryInv, pc # "attempt", pc' # "attempt",
         NEW id \in DOMAIN commands, NEW status \in Statuses,
         Transition(id, status), UNCHANGED <<nextCommand, mirror>>
  PROVE  RecoveryInv'
<1>1. journal \in Logs
  BY RecordedType
<1>2. /\ commands' = SetStatus(commands, id, status)
      /\ journal' = LogStatus(journal, id, status)
      /\ UNCHANGED latestByTarget
  BY DEF Transition
<1>3. Recorded' = SetStatus(Recorded, id, status)
  BY <1>1, <1>2, RebuiltStatus DEF Recorded
<1>4. MirrorRecorded'
  BY <1>1, <1>2, RebuiltStatus DEF RecoveryInv, MirrorRecorded, mirror
<1> QED
  BY <1>2, <1>3, <1>4, StatusRecovers

\* commit_authoritative changes the mirror and its record alike.
LEMMA CommitRecovers ==
  ASSUME TypeOK, NEW j \in Logs, NEW t \in Targets,
         NEW value \in Values \cup {NoValue}, NEW revision \in Nat,
         observed = Rebuilt(j).observed, observedRevisions = Rebuilt(j).revisions,
         CommitAuthoritative(j, t, value, revision)
  PROVE  MirrorRecorded' /\ Recorded' = Rebuilt(j).commands
<1>1. /\ observed' = [observed EXCEPT ![t] = value]
      /\ observedRevisions' = [observedRevisions EXCEPT ![t] = revision]
      /\ journal' = LogObserved(j, t, value, revision)
  BY DEF CommitAuthoritative
<1> DEFINE l == LogObserved(j, t, value, revision)
<1>2. /\ Rebuilt(l).commands = Rebuilt(j).commands
      /\ Rebuilt(l).observed = [Rebuilt(j).observed EXCEPT ![t] = value]
      /\ Rebuilt(l).revisions = [Rebuilt(j).revisions EXCEPT ![t] = revision]
  BY RebuiltObserved
<1> HIDE DEF l
<1>3. journal' = l
  BY <1>1 DEF l
<1> QED
  BY <1>1, <1>2, <1>3 DEF MirrorRecorded, Recorded

LEMMA ApplyReportRecovers ==
  ASSUME TypeOK, RecoveryInv, pc # "attempt", pc' # "attempt", NEW r \in Report,
         ApplyReport(r), UNCHANGED nextCommand
  PROVE  RecoveryInv'
<1> DEFINE id == r.command
           t == commands[id].target
           fresh == commands[id].status # "Superseded"
           logged == IF fresh THEN LogStatus(journal, id, r.status) ELSE journal
<1>1. journal \in Logs /\ commands \in CommandMaps
  BY RecordedType
<1>2. /\ r.status \in Statuses
      /\ r.value \in Values \cup {NoValue} /\ r.revision \in Nat
  BY DEF Report
<1>3. CASE ~Acceptable(r)
  <2>1. UNCHANGED <<outbox, mirror, journal>>
    BY <1>3 DEF ApplyReport
  <2> QED
    BY <2>1, SameRecovers DEF outbox, mirror, Recorded, RecoveryInv, MirrorRecorded
<1>4. CASE Acceptable(r)
  <2>1. /\ commands' = IF fresh THEN SetStatus(commands, id, r.status)
                       ELSE commands
        /\ UNCHANGED latestByTarget
        /\ \/ CommitAuthoritative(logged, t, r.value, r.revision)
           \/ journal' = logged /\ UNCHANGED mirror
    BY <1>4 DEF ApplyReport
  <2>2. id \in DOMAIN commands
    BY <1>4 DEF Acceptable
  <2>3. t \in Targets
    BY <1>1, <2>2, MapElim DEF Command
  <2>4. /\ logged \in Logs
        /\ Rebuilt(logged).commands =
             IF fresh THEN SetStatus(Recorded, id, r.status) ELSE Recorded
        /\ Rebuilt(logged).observed = Rebuilt(journal).observed
        /\ Rebuilt(logged).revisions = Rebuilt(journal).revisions
    BY <1>1, <1>2, RebuiltStatus DEF Recorded
  <2>5. MirrorRecorded' /\ Recorded' = Rebuilt(logged).commands
    <3> HIDE DEF logged, id, t
    <3>1. /\ observed = Rebuilt(logged).observed
          /\ observedRevisions = Rebuilt(logged).revisions
      BY <2>4 DEF RecoveryInv, MirrorRecorded
    <3>2. CASE CommitAuthoritative(logged, t, r.value, r.revision)
      BY <1>2, <2>3, <2>4, <3>1, <3>2, CommitRecovers
    <3>3. CASE journal' = logged /\ UNCHANGED mirror
      BY <3>1, <3>3 DEF mirror, MirrorRecorded, Recorded
    <3> QED
      BY <2>1, <3>2, <3>3
  <2> HIDE DEF logged, id, t
  <2>6. CASE fresh
    BY <1>2, <2>1, <2>2, <2>4, <2>5, <2>6, StatusRecovers DEF id
  <2>7. CASE ~fresh
    BY <2>1, <2>4, <2>5, <2>7, SameRecovers
  <2> QED
    BY <2>6, <2>7
<1> QED
  BY <1>3, <1>4

LEMMA FeedbackRecovers ==
  ASSUME TypeInv, RecoveryInv,
         BeginFrame \/ ReceiveDeferred \/ ReceiveReport \/ ReportsDrained
         \/ ReceiveObservation \/ RunPhases
  PROVE  RecoveryInv'
<1> USE DEF outbox, mirror, staging, frame, outside
<1>1. ASSUME pc # "attempt", pc' # "attempt",
             UNCHANGED <<outbox, mirror, nextCommand, journal>>
      PROVE  RecoveryInv'
  BY <1>1, SameRecovers DEF Recorded, RecoveryInv, MirrorRecorded
<1>2. CASE BeginFrame
  BY <1>1, <1>2 DEF BeginFrame
<1>3. CASE ReceiveDeferred
  <2>1. Head(deferred) \in Report
    BY <1>3, HeadTailProperties DEF ReceiveDeferred, TypeInv, TypeOK
  <2> QED
    BY <1>3, <2>1, ApplyReportRecovers DEF ReceiveDeferred, TypeInv
<1>4. CASE ReceiveReport
  <2>1. {s.command : s \in sent} \subseteq CommandIds
    BY DEF TypeInv, TypeOK, Delivery
  <2>2. PICK r \in Report : ApplyReport(r)
    BY <1>4, <2>1, ReportsOfType DEF ReceiveReport, TypeInv
  <2> QED
    BY <1>4, <2>2, ApplyReportRecovers DEF ReceiveReport, TypeInv
<1>5. CASE ReportsDrained
  BY <1>1, <1>5 DEF ReportsDrained
<1>6. CASE ReceiveObservation
  <2>1. PICK t \in Targets :
          \E revision \in 1..Len(device[t]) :
            ApplyObservation(t, device[t][revision], revision)
    BY <1>6 DEF ReceiveObservation
  <2>2. PICK revision \in 1..Len(device[t]) :
          ApplyObservation(t, device[t][revision], revision)
    BY <2>1
  <2>3. device[t][revision] \in Values \cup {NoValue} /\ revision \in Nat
    <3>1. device[t] \in Seq(Values)
      BY DEF TypeInv, TypeOK
    <3> QED
      BY <3>1, ElementOfSeq, LenProperties
  <2>4. /\ pc # "attempt" /\ pc' # "attempt"
        /\ UNCHANGED <<outbox, nextCommand>>
    BY <1>6, <2>2 DEF ReceiveObservation, ApplyObservation
  <2>5. CASE CommitAuthoritative(journal, t, device[t][revision], revision)
    <3>1. MirrorRecorded' /\ Recorded' = Recorded
      BY <2>3, <2>5, RecordedType, CommitRecovers
         DEF RecoveryInv, MirrorRecorded, Recorded, TypeInv
    <3> QED
      BY <2>4, <3>1, SameRecovers
  <2>6. CASE UNCHANGED <<mirror, journal>>
    BY <1>1, <2>4, <2>6
  <2> QED
    BY <2>2, <2>5, <2>6 DEF ApplyObservation
<1>7. CASE RunPhases
  BY <1>1, <1>7 DEF RunPhases
<1> QED
  BY <1>2, <1>3, <1>4, <1>5, <1>6, <1>7

\* The maps and the log after a pending prior command has been superseded.
LEMMA SupersededRecovers ==
  ASSUME TypeInv, RecoveryInv, pc = "work", NEW t \in Targets
  PROVE  LET rec == Rebuilt(SupersededJournal(t)).commands
         IN /\ rec \in CommandMaps
            /\ Agree(SupersededCommands(t), rec)
            /\ DOMAIN rec = DOMAIN Recorded
            /\ \A id \in DOMAIN rec : rec[id].target = Recorded[id].target
            /\ Rebuilt(SupersededJournal(t)).observed = observed
            /\ Rebuilt(SupersededJournal(t)).revisions = observedRevisions
<1>1. journal \in Logs /\ commands \in CommandMaps /\ Recorded \in CommandMaps
  BY RecordedType DEF TypeInv
<1>2. Agree(commands, Recorded)
  BY DEF RecoveryInv, CommandsRecorded
<1>3. CASE ~PendingLatest(t)
  BY <1>1, <1>2, <1>3 DEF SupersededCommands, SupersededJournal, Recorded,
                          RecoveryInv, MirrorRecorded
<1>4. CASE PendingLatest(t)
  <2> DEFINE id == latestByTarget[t]
             j == LogStatus(journal, id, "Superseded")
  <2>1. id \in DOMAIN commands /\ "Superseded" \in Statuses
    BY <1>4 DEF PendingLatest, RecoveryInv, LatestRetained, Statuses
  <2>2. SupersededJournal(t) = j /\ SupersededCommands(t) = SetStatus(commands, id, "Superseded")
    BY <1>4 DEF SupersededJournal, SupersededCommands
  <2>3. /\ Rebuilt(j).commands = SetStatus(Recorded, id, "Superseded")
        /\ Rebuilt(j).observed = observed
        /\ Rebuilt(j).revisions = observedRevisions
    BY <1>1, <2>1, RebuiltStatus DEF Recorded, RecoveryInv, MirrorRecorded
  <2>4. Agree(SetStatus(commands, id, "Superseded"), SetStatus(Recorded, id, "Superseded"))
    BY <1>1, <1>2, <2>1, AgreeSetStatus
  <2> DEFINE rec == SetStatus(Recorded, id, "Superseded")
  <2>5. /\ rec \in CommandMaps
        /\ DOMAIN rec = DOMAIN Recorded
        /\ \A x \in DOMAIN Recorded :
             rec[x] = IF x = id THEN [Recorded[x] EXCEPT !.status = "Superseded"]
                      ELSE Recorded[x]
    BY <1>1, <2>1, SetStatusProperties
  <2>6. \A x \in DOMAIN Recorded : rec[x].target = Recorded[x].target
    <3> HIDE DEF rec
    <3>1. \A x \in DOMAIN Recorded : Recorded[x] \in Command
      BY <1>1, MapElim
    <3> QED
      BY <2>5, <3>1 DEF Command
  <2> HIDE DEF id, j
  <2> QED
    BY <2>2, <2>3, <2>4, <2>5, <2>6
<1> QED
  BY <1>3, <1>4

\* prune_terminal_history drops settled commands and what pointed at them.
LEMMA PruneRecovers ==
  ASSUME TypeInv, NEW cmds \in CommandMaps, NEW rec, NEW order, NEW limit,
         Agree(cmds, rec), DOMAIN cmds = DOMAIN commands,
         LatestRetained, Prune(cmds, order, latestByTarget, limit)
  PROVE  /\ Agree(commands', rec)
         /\ LatestRetained'
         /\ \A t \in Targets : latestByTarget'[t] \in {latestByTarget[t], 0}
<1> DEFINE gone == Pruned(cmds, order, limit)
<1>1. /\ commands' = Without(cmds, gone)
      /\ latestByTarget' =
           [t \in Targets |-> IF latestByTarget[t] \in gone THEN 0
                              ELSE latestByTarget[t]]
  BY DEF Prune
<1>2. \A id \in gone : id \in DOMAIN cmds /\ ~Active(cmds[id].status)
  BY PrunedSettled
<1> HIDE DEF gone
<1>3. Agree(commands', rec)
  BY <1>1, <1>2, AgreeWithout
<1>4. DOMAIN commands' = DOMAIN commands \ gone
  BY <1>1, WithoutProperties
<1>5. LatestRetained'
  BY <1>1, <1>4 DEF LatestRetained
<1> QED
  BY <1>1, <1>3, <1>5

\* Recorded ids and newest commands, once only statuses have been recorded.
LEMMA SupersededIds ==
  ASSUME TypeInv, RecoveryInv, pc = "work", NEW t \in Targets
  PROVE  LET rec == Rebuilt(SupersededJournal(t)).commands
         IN /\ \A id \in DOMAIN rec : id < nextCommand
            /\ \A u \in Targets : NewestOf(rec, u) = NewestOf(Recorded, u)
<1> DEFINE rec == Rebuilt(SupersededJournal(t)).commands
<1>1. /\ DOMAIN rec = DOMAIN Recorded
      /\ \A id \in DOMAIN rec : rec[id].target = Recorded[id].target
  BY SupersededRecovers
<1> HIDE DEF rec
<1>2. \A id \in DOMAIN rec : id < nextCommand
  BY <1>1 DEF RecoveryInv, IdsRecorded
<1>3. \A u \in Targets : NewestOf(rec, u) = NewestOf(Recorded, u)
  BY <1>1, NewestOfSame
<1> QED
  BY <1>2, <1>3 DEF rec

LEMMA IssueRecovers ==
  ASSUME TypeInv, RecoveryInv, NEW t \in Targets,
         ClearDesire(t) \/ IssueUnneeded(t) \/ IssueAlreadyObserved(t)
         \/ Issue(t) \/ IssueThrows(t)
  PROVE  RecoveryInv'
<1> DEFINE cmds == SupersededCommands(t)
           order == SupersededOrder(t)
           rec == Rebuilt(SupersededJournal(t)).commands
<1>1. ASSUME pc = "work"
      PROVE  /\ cmds \in CommandMaps
             /\ rec \in CommandMaps
             /\ Agree(cmds, rec)
             /\ DOMAIN cmds = DOMAIN commands
             /\ SupersededJournal(t) \in Logs
             /\ Rebuilt(SupersededJournal(t)).observed = observed
             /\ Rebuilt(SupersededJournal(t)).revisions = observedRevisions
             /\ \A id \in DOMAIN rec : id < nextCommand
             /\ \A u \in Targets : NewestOf(rec, u) = NewestOf(Recorded, u)
  BY <1>1, SupersededType, SupersededRecovers, SupersededIds DEF TypeInv
<1>2. \A u \in Targets : latestByTarget[u] \in {NewestOf(Recorded, u), 0}
  BY DEF RecoveryInv, LatestRecorded
<1>3. LatestRetained
  BY DEF RecoveryInv
<1>4. CASE ClearDesire(t)
  <2>1. /\ pc # "attempt" /\ pc' # "attempt"
        /\ Transition(latestByTarget[t], "Superseded")
        /\ UNCHANGED <<nextCommand, mirror>>
    BY <1>4 DEF ClearDesire
  <2>2. latestByTarget[t] \in DOMAIN commands /\ "Superseded" \in Statuses
    BY <1>3, <1>4 DEF ClearDesire, PendingLatest, LatestRetained, Statuses
  <2> QED
    BY <2>1, <2>2, TransitionRecovers DEF TypeInv
<1>5. CASE IssueUnneeded(t)
  BY <1>5, SameRecovers DEF IssueUnneeded, Issuing, outbox, mirror, Recorded,
                            RecoveryInv, MirrorRecorded
<1>6. CASE IssueAlreadyObserved(t)
  <2>1. /\ pc = "work" /\ pc' = "work"
        /\ commands' = cmds
        /\ journal' = SupersededJournal(t)
        /\ UNCHANGED <<latestByTarget, nextCommand, mirror>>
    BY <1>6 DEF IssueAlreadyObserved, Issuing
  <2>2. CommandsRecorded' /\ IdsRecorded' /\ LatestRecorded'
    BY <1>1, <1>2, <2>1 DEF CommandsRecorded, IdsRecorded, LatestRecorded, Recorded
  <2>3. MirrorRecorded' /\ LatestRetained'
    BY <1>1, <1>3, <2>1 DEF MirrorRecorded, LatestRetained, mirror
  <2> QED
    BY <2>2, <2>3 DEF RecoveryInv
<1>7. CASE Issue(t)
  <2> DEFINE gone == Pruned(cmds, order, MaxRetainedCommands - 1)
             command == [target |-> t, desired |-> desires[t], issuedAt |-> now,
                         status |-> "Pending", retryIndex |-> 0]
  <2>1. /\ pc = "work" /\ pc' = "attempt"
        /\ nextCommand \in CommandIds
        /\ desires[t] # NoValue /\ desires[t] # Cleared
        /\ commands' = Put(Without(cmds, gone), nextCommand, command)
        /\ latestByTarget' =
             [u \in Targets |-> IF u = t THEN nextCommand
                                ELSE IF latestByTarget[u] \in gone THEN 0
                                ELSE latestByTarget[u]]
        /\ journal' = LogCommand(SupersededJournal(t), nextCommand, command)
        /\ nextCommand' = nextCommand + 1
        /\ UNCHANGED mirror
    BY <1>7 DEF Issue, Issuing, CanIssue
  <2>2. command \in Command /\ command.target = t
    BY <2>1, PolicyAssumption DEF Command, Statuses, TypeInv, TypeOK
  <2>3. \A id \in gone : id \in DOMAIN cmds /\ ~Active(cmds[id].status)
    BY PrunedSettled
  <2> HIDE DEF gone, command, cmds, rec
  <2>4. /\ Agree(Without(cmds, gone), rec)
        /\ Without(cmds, gone) \in CommandMaps
        /\ DOMAIN Without(cmds, gone) = DOMAIN commands \ gone
    <3>1. cmds \in CommandMaps /\ Agree(cmds, rec) /\ DOMAIN cmds = DOMAIN commands
      BY <1>1, <2>1
    <3>2. Agree(Without(cmds, gone), rec)
      BY <2>3, <3>1, AgreeWithout
    <3> QED
      BY <3>1, <3>2, WithoutProperties
  <2>5. Agree(commands', Put(rec, nextCommand, command))
    BY <1>1, <2>1, <2>2, <2>4, AgreePut
  <2>6. /\ Recorded' = Put(rec, nextCommand, command)
        /\ Rebuilt(journal').observed = observed
        /\ Rebuilt(journal').revisions = observedRevisions
    BY <1>1, <2>1, <2>2, RebuiltCommand DEF Recorded, rec
  <2>7. DOMAIN Recorded' = DOMAIN rec \cup {nextCommand}
    BY <1>1, <2>1, <2>2, <2>6, PutProperties
  <2>8. CommandsRecorded'
    BY <2>1, <2>5, <2>6 DEF CommandsRecorded, Agree, AgreeButFor
  <2>9. IdsRecorded'
    <3>1. DOMAIN rec \in SUBSET Nat /\ nextCommand \in Nat
      BY <1>1, <2>1, MapElim, CommandIdsProperties
    <3> QED
      BY <1>1, <2>1, <2>7, <3>1 DEF IdsRecorded
  <2>10. MirrorRecorded'
    BY <2>1, <2>6 DEF MirrorRecorded, mirror
  <2>11. \A u \in Targets : NewestOf(Recorded', u) =
           IF t = u THEN nextCommand ELSE NewestOf(Recorded, u)
    BY <1>1, <2>1, <2>2, <2>6, NewestOfPut
  <2>12. LatestRecorded'
    <3>1. \A u \in Targets :
            latestByTarget'[u] \in {IF t = u THEN nextCommand ELSE latestByTarget[u], 0}
      BY <2>1
    <3> QED
      BY <1>2, <2>11, <3>1 DEF LatestRecorded
  <2>13. DOMAIN commands' = (DOMAIN commands \ gone) \cup {nextCommand}
    <3> DEFINE rest == Without(cmds, gone)
    <3>1. rest \in CommandMaps /\ DOMAIN rest = DOMAIN commands \ gone
      BY <2>4
    <3>2. commands' = Put(rest, nextCommand, command)
      BY <2>1
    <3> HIDE DEF rest
    <3>3. DOMAIN Put(rest, nextCommand, command) = DOMAIN rest \cup {nextCommand}
      <4>1. nextCommand \in CommandIds /\ command \in Command
        BY <2>1, <2>2
      <4> QED
        BY <3>1, <4>1, PutProperties
    <3> QED
      BY <3>1, <3>2, <3>3
  <2>14. LatestRetained'
    BY <1>3, <2>1, <2>13 DEF LatestRetained
  <2> QED
    BY <2>8, <2>9, <2>10, <2>12, <2>14 DEF RecoveryInv
<1>8. CASE IssueThrows(t)
  <2>1. /\ pc = "work" /\ pc' = "idle"
        /\ Prune(cmds, order, latestByTarget, MaxRetainedCommands - 1)
        /\ journal' \in {SupersededJournal(t), Flushed(SupersededJournal(t))}
        /\ UNCHANGED <<nextCommand, mirror>>
    BY <1>8 DEF IssueThrows, Issuing, FailFrame
  <2>2. Rebuilt(journal') = Rebuilt(SupersededJournal(t))
    BY <1>1, <2>1, FlushedProperties
  <2> HIDE DEF cmds, order
  <2>3. /\ Agree(commands', rec)
        /\ LatestRetained'
        /\ \A u \in Targets : latestByTarget'[u] \in {latestByTarget[u], 0}
    BY <1>1, <1>3, <2>1, PruneRecovers
  <2>4. CommandsRecorded' /\ IdsRecorded'
    BY <1>1, <2>1, <2>2, <2>3 DEF CommandsRecorded, IdsRecorded, Recorded
  <2>5. LatestRecorded'
    BY <1>1, <1>2, <2>1, <2>2, <2>3 DEF LatestRecorded, Recorded
  <2>6. MirrorRecorded'
    BY <1>1, <2>1, <2>2 DEF MirrorRecorded, mirror
  <2> QED
    BY <2>3, <2>4, <2>5, <2>6 DEF RecoveryInv
<1> QED
  BY <1>4, <1>5, <1>6, <1>7, <1>8

LEMMA DispatchRecovers ==
  ASSUME TypeInv, RecoveryInv,
         RecordAttempt \/ AdapterReceives \/ DispatchRefused \/ DispatchThrows
         \/ DispatchAccepted \/ DispatchReported \/ FrameThrows
  PROVE  RecoveryInv'
<1>1. pc \in {"attempt", "call", "await"} =>
        current \in DOMAIN commands /\ current \in CommandIds
        /\ commands[current] \in Command
  BY MapElim DEF TypeInv, TypeOK, CurrentIsRetained
<1>2. CASE RecordAttempt
  <2>1. /\ pc = "attempt" /\ pc' = "call"
        /\ journal' = Flushed(LogAttempt(journal, current, Attempt))
        /\ UNCHANGED <<outbox, mirror, nextCommand>>
    BY <1>2 DEF RecordAttempt
  <2>2. journal \in Logs /\ Recorded \in CommandMaps
    BY RecordedType DEF TypeInv
  <2>3. commands[current].retryIndex \in 0..Len(RetryDelays)
        /\ Len(RetryDelays) \in Nat
    BY <1>1, <2>1, PolicyAssumption DEF Command
  <2>4. Attempt \in 1..(Len(RetryDelays) + 1)
        /\ Attempt - 1 = commands[current].retryIndex
    BY <2>3 DEF Attempt
  <2>5. PICK p \in Projection :
          /\ LogAttempt(journal, current, Attempt) = Append(journal, p)
          /\ DOMAIN p.commands = DOMAIN Recorded
          /\ \A x \in DOMAIN p.commands :
               p.commands[x] =
                 IF x = current /\ Recorded[x].retryIndex < Attempt - 1
                 THEN [Recorded[x] EXCEPT !.retryIndex = Attempt - 1]
                 ELSE Recorded[x]
          /\ p.observed = Rebuilt(journal).observed
          /\ p.revisions = Rebuilt(journal).revisions
    <3> DEFINE a == Attempt
    <3>1. a \in 1..(Len(RetryDelays) + 1)
      BY <2>4
    <3> HIDE DEF a
    <3>2. \E p \in Projection :
            /\ LogAttempt(journal, current, a) = Append(journal, p)
            /\ DOMAIN p.commands = DOMAIN Rebuilt(journal).commands
            /\ \A x \in DOMAIN p.commands :
                 p.commands[x] =
                   IF x = current /\ Rebuilt(journal).commands[x].retryIndex < a - 1
                   THEN [Rebuilt(journal).commands[x] EXCEPT !.retryIndex = a - 1]
                   ELSE Rebuilt(journal).commands[x]
            /\ p.observed = Rebuilt(journal).observed
            /\ p.revisions = Rebuilt(journal).revisions
      BY <2>2, <3>1, LogAttemptProperties
    <3> QED
      BY <3>2, Zenon DEF Recorded, a
  <2>6. Rebuilt(journal') = p
    BY <2>1, <2>2, <2>5, AppendedProperties, FlushedProperties
  <2>7. AgreeButFor(commands, Recorded, cursor)
    BY <2>1 DEF RecoveryInv, CommandsRecorded
  <2>8. \A x \in DOMAIN Recorded : Recorded[x] \in Command
    BY <2>2, MapElim
  <2>9. ASSUME NEW x \in DOMAIN commands
        PROVE  x \in DOMAIN p.commands /\ commands[x] = p.commands[x]
    <3>1. x \in DOMAIN Recorded /\ Recorded[x] \in Command
      BY <2>7, <2>8 DEF AgreeButFor
    <3>2. CASE commands[x] = Recorded[x]
      <4>1. x = current => ~(Recorded[x].retryIndex < Attempt - 1)
        BY <2>3, <2>4, <3>2
      <4> QED
        BY <2>5, <3>1, <3>2, <4>1
    <3>3. CASE x = cursor /\ commands[x] = [Recorded[x] EXCEPT !.retryIndex = @ + 1]
      <4>1. x = current
        <5>1. x # 0
          BY MapElim, BoundAssumption DEF TypeInv, TypeOK, CommandIds
        <5> QED
          BY <3>3, <5>1 DEF current
      <4>2. commands[x].retryIndex = Recorded[x].retryIndex + 1
        BY <3>1, <3>3 DEF Command
      <4>3. Recorded[x].retryIndex \in Int
        BY <3>1, <2>3 DEF Command
      <4>4. p.commands[x] = [Recorded[x] EXCEPT !.retryIndex = Attempt - 1]
        BY <2>4, <2>5, <3>1, <4>1, <4>2, <4>3
      <4> QED
        BY <2>4, <2>5, <3>1, <3>3, <4>1, <4>2, <4>4
    <3> QED
      BY <2>7, <3>2, <3>3 DEF AgreeButFor
  <2>10. ASSUME NEW x \in DOMAIN p.commands
         PROVE  x \in DOMAIN commands \/ ~Active(p.commands[x].status)
    <3>1. x \in DOMAIN commands \/ ~Active(Recorded[x].status)
      BY <2>5, <2>7 DEF AgreeButFor
    <3>2. p.commands[x].status = Recorded[x].status
      BY <2>5, <2>8 DEF Command
    <3> QED
      BY <3>1, <3>2
  <2>11. CommandsRecorded'
    BY <2>1, <2>6, <2>9, <2>10 DEF CommandsRecorded, Recorded, Agree, outbox
  <2>12. IdsRecorded' /\ MirrorRecorded' /\ LatestRetained'
    BY <2>1, <2>5, <2>6 DEF RecoveryInv, IdsRecorded, MirrorRecorded, LatestRetained,
                            Recorded, outbox, mirror
  <2>13. \A x \in DOMAIN Recorded : p.commands[x].target = Recorded[x].target
    BY <2>5, <2>8 DEF Command
  <2>14. LatestRecorded'
    <3>1. \A t \in Targets : NewestOf(p.commands, t) = NewestOf(Recorded, t)
      BY <2>5, <2>13, NewestOfSame
    <3> QED
      BY <2>1, <2>6, <3>1 DEF RecoveryInv, LatestRecorded, Recorded, outbox
  <2> QED
    BY <2>11, <2>12, <2>14 DEF RecoveryInv
<1>3. ASSUME pc # "attempt", pc' # "attempt",
             UNCHANGED <<outbox, mirror, nextCommand, journal>>
      PROVE  RecoveryInv'
  BY <1>3, SameRecovers DEF Recorded, RecoveryInv, MirrorRecorded, outbox, mirror
<1>4. CASE AdapterReceives
  BY <1>3, <1>4 DEF AdapterReceives
<1>5. ASSUME NEW status \in Statuses, DispatchReturns, Transition(current, status),
             UNCHANGED mirror
      PROVE  RecoveryInv'
  BY <1>1, <1>5, TransitionRecovers DEF DispatchReturns, TypeInv
<1>6. "Rejected" \in Statuses /\ "Failed" \in Statuses /\ "Indeterminate" \in Statuses
  BY DEF Statuses
<1>7. CASE DispatchRefused
  BY <1>5, <1>6, <1>7 DEF DispatchRefused, mirror
<1>8. CASE DispatchThrows
  BY <1>3, <1>5, <1>6, <1>8 DEF DispatchThrows, DispatchReturns
<1>9. CASE DispatchAccepted
  BY <1>3, <1>9 DEF DispatchAccepted, DispatchReturns
<1>10. CASE DispatchReported
  <2>1. DispatchReturns /\ pc = "await" /\ pc' = "work" /\ UNCHANGED nextCommand
    BY <1>10 DEF DispatchReported, DispatchReturns
  <2>2. {current} \in SUBSET CommandIds
    BY <1>1, <2>1
  <2>3. PICK r \in ReportsOf({current}) :
          \/ ApplyReport(r)
          \/ UNCHANGED <<outbox, mirror, journal>>
          \/ Transition(current, "Indeterminate") /\ UNCHANGED mirror
    BY <1>10 DEF DispatchReported
  <2>4. r \in Report
    BY <2>2, ReportsOfType DEF TypeInv
  <2>5. CASE ApplyReport(r)
    BY <2>1, <2>4, <2>5, ApplyReportRecovers DEF TypeInv
  <2>6. CASE UNCHANGED <<outbox, mirror, journal>>
    BY <1>3, <2>1, <2>6
  <2>7. CASE Transition(current, "Indeterminate") /\ UNCHANGED mirror
    BY <1>5, <1>6, <2>1, <2>7
  <2> QED
    BY <2>3, <2>5, <2>6, <2>7
<1>11. CASE FrameThrows
  <2>1. /\ pc # "attempt" /\ pc' # "attempt"
        /\ journal' \in {journal, Flushed(journal)}
        /\ UNCHANGED <<outbox, mirror, nextCommand>>
    BY <1>11 DEF FrameThrows, FailFrame
  <2>2. Rebuilt(journal') = Rebuilt(journal)
    BY <2>1, RecordedType, FlushedProperties DEF TypeInv
  <2> QED
    BY <2>1, <2>2, SameRecovers DEF Recorded, RecoveryInv, MirrorRecorded, outbox, mirror
<1> QED
  BY <1>2, <1>4, <1>7, <1>8, <1>9, <1>10, <1>11

LEMMA CompletionRecovers ==
  ASSUME TypeInv, RecoveryInv,
         (\E id \in DOMAIN commands : TimeOut(id) \/ Retry(id)) \/ CompleteFrame
  PROVE  RecoveryInv'
<1>1. ASSUME NEW id \in DOMAIN commands, TimeOut(id) PROVE RecoveryInv'
  <2>1. /\ pc # "attempt" /\ pc' # "attempt"
        /\ Transition(id, "TimedOut")
        /\ UNCHANGED <<nextCommand, mirror>>
    BY <1>1 DEF TimeOut, Visits, AllIssued
  <2>2. "TimedOut" \in Statuses
    BY DEF Statuses
  <2> QED
    BY <2>1, <2>2, TransitionRecovers DEF TypeInv
<1>2. ASSUME NEW id \in DOMAIN commands, Retry(id) PROVE RecoveryInv'
  <2>1. /\ pc = "work" /\ pc' = "attempt" /\ cursor' = id
        /\ UNCHANGED <<latestByTarget, mirror, nextCommand, journal>>
    BY <1>2 DEF Retry, Visits, AllIssued
  <2>2. /\ DOMAIN commands' = DOMAIN commands
        /\ \A x \in DOMAIN commands :
             commands'[x] =
               IF x = id
               THEN [commands[x] EXCEPT !.retryIndex = commands[x].retryIndex + 1]
               ELSE commands[x]
    BY <1>2, RetryType
  <2>3. Agree(commands, Recorded)
    BY <2>1 DEF RecoveryInv, CommandsRecorded
  <2>4. AgreeButFor(commands', Recorded, id)
    BY <2>2, <2>3 DEF Agree, AgreeButFor
  <2>5. CommandsRecorded'
    BY <2>1, <2>4 DEF CommandsRecorded, Recorded
  <2>6. IdsRecorded' /\ MirrorRecorded' /\ LatestRecorded' /\ LatestRetained'
    BY <2>1, <2>2 DEF RecoveryInv, IdsRecorded, MirrorRecorded, LatestRecorded,
                      LatestRetained, Recorded, mirror
  <2> QED
    BY <2>5, <2>6 DEF RecoveryInv
<1>3. CASE CompleteFrame
  <2>1. /\ pc = "work" /\ pc' = "idle"
        /\ Prune(commands, terminalOrder, latestByTarget, MaxRetainedCommands)
        /\ journal' = Flushed(journal)
        /\ UNCHANGED <<mirror, nextCommand>>
    BY <1>3 DEF CompleteFrame, AllIssued
  <2>2. journal \in Logs /\ commands \in CommandMaps
    BY RecordedType DEF TypeInv
  <2>3. Rebuilt(journal') = Rebuilt(journal)
    BY <2>1, <2>2, FlushedProperties
  <2>4. Agree(commands, Recorded) /\ LatestRetained
    BY <2>1 DEF RecoveryInv, CommandsRecorded
  <2>5. /\ Agree(commands', Recorded)
        /\ LatestRetained'
        /\ \A t \in Targets : latestByTarget'[t] \in {latestByTarget[t], 0}
    BY <2>1, <2>2, <2>4, PruneRecovers
  <2>6. CommandsRecorded' /\ IdsRecorded' /\ MirrorRecorded' /\ LatestRecorded'
    BY <2>1, <2>3, <2>5 DEF RecoveryInv, CommandsRecorded, IdsRecorded,
                            MirrorRecorded, LatestRecorded, Recorded, mirror
  <2> QED
    BY <2>5, <2>6 DEF RecoveryInv
<1> QED
  BY <1>1, <1>2, <1>3

LEMMA HostRecovers ==
  ASSUME TypeInv, RecoveryInv,
         (\E route \in Routes : RegisterAdapter(route))
         \/ (\E t \in Targets : Reconcile(t)) \/ ReconcileFlush \/ Checkpoint
  PROVE  RecoveryInv'
<1>1. journal \in Logs /\ commands \in CommandMaps /\ Recorded \in CommandMaps
  BY RecordedType DEF TypeInv
<1>2. ASSUME NEW route \in Routes, RegisterAdapter(route) PROVE RecoveryInv'
  <2> DEFINE ids == Uncertain(route)
  <2>1. /\ pc = "idle" /\ pc' = "idle"
        /\ UNCHANGED <<latestByTarget, mirror, nextCommand>>
    BY <1>2 DEF RegisterAdapter, frame
  <2>2. /\ commands' = Marked(commands, ids)
        /\ \/ journal' = journal /\ ids = {}
           \/ \E p \in Projection :
                /\ journal' = <<p>>
                /\ p.commands = Marked(Recorded, ids)
                /\ p.observed = Rebuilt(journal).observed
                /\ p.revisions = Rebuilt(journal).revisions
    BY <1>2, RegisterAdapterLog DEF TypeInv, Recorded
  <2>3. ids \in SUBSET DOMAIN commands
    BY DEF Uncertain
  <2> HIDE DEF ids
  <2>4. \A f \in CommandMaps : ids = {} => Marked(f, ids) = f
    <3>1. \A f \in CommandMaps : f = [x \in DOMAIN f |-> f[x]]
      BY MapElim
    <3> QED
      BY <3>1 DEF Marked
  <2>5. /\ Recorded' = Marked(Recorded, ids)
        /\ Rebuilt(journal').observed = Rebuilt(journal).observed
        /\ Rebuilt(journal').revisions = Rebuilt(journal).revisions
    <3>1. CASE journal' = journal /\ ids = {}
      BY <1>1, <2>4, <3>1 DEF Recorded
    <3>2. ASSUME NEW p \in Projection, journal' = <<p>>,
                 p.commands = Marked(Recorded, ids),
                 p.observed = Rebuilt(journal).observed,
                 p.revisions = Rebuilt(journal).revisions
          PROVE  /\ Recorded' = Marked(Recorded, ids)
                 /\ Rebuilt(journal').observed = Rebuilt(journal).observed
                 /\ Rebuilt(journal').revisions = Rebuilt(journal).revisions
      <4>1. Rebuilt(journal') = p
        BY <3>2 DEF Rebuilt
      <4> QED
        BY <3>2, <4>1 DEF Recorded
    <3> QED
      BY <2>2, <3>1, <3>2
  <2>6. CommandsRecorded'
    BY <1>1, <2>1, <2>2, <2>3, <2>5, AgreeMarked DEF RecoveryInv, CommandsRecorded
  <2>7. DOMAIN commands' = DOMAIN commands /\ DOMAIN Recorded' = DOMAIN Recorded
    BY <2>2, <2>5 DEF Marked
  <2>8. IdsRecorded' /\ MirrorRecorded' /\ LatestRetained'
    BY <2>1, <2>5, <2>7 DEF RecoveryInv, IdsRecorded, MirrorRecorded,
                            LatestRetained, mirror
  <2>9. \A x \in DOMAIN Recorded : Recorded'[x].target = Recorded[x].target
    <3>1. \A x \in DOMAIN Recorded : Recorded[x] \in Command
      BY <1>1, MapElim
    <3> QED
      BY <2>5, <3>1 DEF Marked, Command
  <2>10. \A t \in Targets : NewestOf(Recorded', t) = NewestOf(Recorded, t)
    BY <2>7, <2>9, NewestOfSame
  <2>11. LatestRecorded'
    BY <2>1, <2>10 DEF RecoveryInv, LatestRecorded
  <2> QED
    BY <2>6, <2>8, <2>11 DEF RecoveryInv
<1>3. ASSUME NEW t \in Targets, Reconcile(t) PROVE RecoveryInv'
  <2> DEFINE id == latestByTarget[t]
             value == device[t][Len(device[t])]
             applied == commands[id].desired = value
             status == IF applied THEN "Applied" ELSE "Failed"
             revision == IF observedRevisions[t] = 0 THEN id
                         ELSE observedRevisions[t] + 1
  <2>1. /\ pc = "idle" /\ pc' = "flush"
        /\ id # 0
        /\ commands' = SetStatus(commands, id, status)
        /\ CommitAuthoritative(LogStatus(journal, id, status), t, value, revision)
        /\ UNCHANGED <<latestByTarget, nextCommand>>
    BY <1>3 DEF Reconcile
  <2>2. id \in DOMAIN commands /\ id \in Nat
    BY <2>1, CommandIdsProperties DEF RecoveryInv, LatestRetained, TypeInv, TypeOK
  <2>3. value \in Values
    <3>1. device[t] \in Seq(Values) /\ device[t] # <<>>
      BY DEF TypeInv, TypeOK
    <3> QED
      BY <3>1, LenProperties, EmptySeq, ElementOfSeq
  <2>4. revision \in Nat
    BY <2>2 DEF TypeInv, TypeOK
  <2>5. status \in Statuses
    BY DEF Statuses
  <2> HIDE DEF value, revision, status, applied, id
  <2>6. /\ LogStatus(journal, id, status) \in Logs
        /\ Rebuilt(LogStatus(journal, id, status)).commands =
             SetStatus(Recorded, id, status)
        /\ Rebuilt(LogStatus(journal, id, status)).observed = observed
        /\ Rebuilt(LogStatus(journal, id, status)).revisions = observedRevisions
    BY <1>1, <2>5, RebuiltStatus DEF Recorded, RecoveryInv, MirrorRecorded
  <2>7. MirrorRecorded' /\ Recorded' = SetStatus(Recorded, id, status)
    BY <2>1, <2>3, <2>4, <2>6, CommitRecovers DEF TypeInv
  <2> QED
    BY <2>1, <2>2, <2>5, <2>7, StatusRecovers DEF TypeInv
<1>4. ASSUME pc # "attempt", pc' # "attempt", journal' = Flushed(journal),
             UNCHANGED <<outbox, mirror, nextCommand>>
      PROVE  RecoveryInv'
  <2>1. Rebuilt(journal') = Rebuilt(journal)
    BY <1>1, <1>4, FlushedProperties
  <2> QED
    BY <1>4, <2>1, SameRecovers DEF Recorded, RecoveryInv, MirrorRecorded,
                                    outbox, mirror
<1>5. CASE ReconcileFlush
  BY <1>4, <1>5 DEF ReconcileFlush
<1>6. CASE Checkpoint
  BY <1>4, <1>6 DEF Checkpoint, frame
<1> QED
  BY <1>2, <1>3, <1>5, <1>6

LEMMA RestartRecovers ==
  ASSUME TypeInv, RecoveryInv, NEW k \in 1..Len(journal), Restart(k)
  PROVE  RecoveryInv'
<1> DEFINE p == journal[k]
           rec == p.commands
<1>1. journal \in Logs
  BY RecordedType DEF TypeInv
<1>2. p \in Projection /\ rec \in CommandMaps
  BY <1>1, LogProperties DEF Projection
<1>3. DOMAIN rec \in SUBSET CommandIds
  BY <1>2, MapElim
<1>4. PICK order \in [1..Cardinality(Settled(rec)) -> Settled(rec)] :
        LET gone == Pruned(rec, order, MaxRetainedCommands)
        IN /\ commands' = Without(rec, gone)
           /\ latestByTarget' =
                [t \in Targets |-> IF NewestOf(rec, t) \in gone THEN 0
                                   ELSE NewestOf(rec, t)]
  BY DEF Restart
<1> DEFINE gone == Pruned(rec, order, MaxRetainedCommands)
<1>5. \A id \in gone : id \in DOMAIN rec /\ ~Active(rec[id].status)
  BY PrunedSettled
<1>6. /\ journal' = SubSeq(journal, 1, k)
      /\ observed' = p.observed
      /\ observedRevisions' = p.revisions
      /\ nextCommand' = Newest(DOMAIN rec) + 1
      /\ pc' = "idle"
  BY DEF Restart
<1>7. Rebuilt(journal') = p
  BY <1>1, <1>6, PrefixProperties
<1>8. commands' = Without(rec, gone)
      /\ latestByTarget' = [t \in Targets |-> IF NewestOf(rec, t) \in gone THEN 0
                                              ELSE NewestOf(rec, t)]
  BY <1>4
<1> HIDE DEF gone, rec
<1>9. Agree(commands', rec)
  <2>1. Agree(rec, rec)
    BY DEF Agree
  <2> QED
    BY <1>2, <1>5, <1>8, <2>1, AgreeWithout
<1>10. Recorded' = rec
  BY <1>7 DEF Recorded, rec
<1>11. CommandsRecorded'
  BY <1>6, <1>9, <1>10 DEF CommandsRecorded
<1>12. IdsRecorded'
  <2>1. \A id \in DOMAIN rec : id <= Newest(DOMAIN rec) /\ id \in Nat
    BY <1>3, NewestProperties, CommandIdsProperties
  <2>2. Newest(DOMAIN rec) \in Nat
    BY <1>3, NewestProperties, BoundAssumption
  <2> QED
    BY <1>6, <1>10, <2>1, <2>2 DEF IdsRecorded
<1>13. MirrorRecorded'
  BY <1>6, <1>7 DEF MirrorRecorded
<1>14. LatestRecorded'
  BY <1>8, <1>10 DEF LatestRecorded
<1>15. LatestRetained'
  <2>1. ASSUME NEW t \in Targets, NewestOf(rec, t) # 0
        PROVE  NewestOf(rec, t) \in DOMAIN rec
    <3> DEFINE S == {id \in DOMAIN rec : rec[id].target = t}
    <3>1. S \in SUBSET CommandIds /\ NewestOf(rec, t) = Newest(S)
      BY <1>3 DEF NewestOf
    <3>2. S # {}
      BY <2>1, <3>1 DEF Newest
    <3> QED
      BY <3>1, <3>2, NewestProperties
  <2>2. DOMAIN commands' = DOMAIN rec \ gone
    BY <1>2, <1>8, WithoutProperties
  <2> QED
    BY <1>8, <2>1, <2>2 DEF LatestRetained
<1> QED
  BY <1>11, <1>12, <1>13, <1>14, <1>15 DEF RecoveryInv

LEMMA RecoveryStep ==
  ASSUME TypeInv, RecoveryInv, [Next]_vars
  PROVE  RecoveryInv'
<1>1. ASSUME UNCHANGED <<outbox, mirror, nextCommand, frame, journal>>
      PROVE  RecoveryInv'
  BY <1>1 DEF RecoveryInv, CommandsRecorded, IdsRecorded, MirrorRecorded,
              LatestRecorded, LatestRetained, Recorded, outbox, mirror, frame
<1>2. CASE UNCHANGED vars
  BY <1>1, <1>2 DEF vars
<1>3. CASE Frame
  BY <1>3, FeedbackRecovers, IssueRecovers, DispatchRecovers, CompletionRecovers
     DEF Frame
<1>4. CASE Host
  BY <1>4, HostRecovers, RestartRecovers DEF Host
<1>5. CASE Environment
  BY <1>1, <1>5 DEF Environment, DeviceExecutes, AdapterLosesTrack, DeviceChanges
<1> QED
  BY <1>2, <1>3, <1>4, <1>5 DEF Next

LEMMA RecoveryInit == Init => RecoveryInv
<1> SUFFICES ASSUME Init PROVE RecoveryInv
  OBVIOUS
<1>1. /\ commands = NoCommands /\ DOMAIN NoCommands = {}
      /\ Rebuilt(journal) = [commands |-> NoCommands, observed |-> observed,
                             revisions |-> observedRevisions]
      /\ pc = "idle"
      /\ latestByTarget = [t \in Targets |-> 0]
  BY DEF Init, NoCommands, Rebuilt
<1>2. Recorded = NoCommands
  BY <1>1 DEF Recorded
<1>3. CommandsRecorded /\ IdsRecorded
  BY <1>1, <1>2 DEF CommandsRecorded, Agree, IdsRecorded
<1>4. MirrorRecorded /\ LatestRecorded /\ LatestRetained
  BY <1>1 DEF MirrorRecorded, LatestRecorded, LatestRetained
<1> QED
  BY <1>3, <1>4 DEF RecoveryInv

\* At every moment the live outbox and mirror are what restore() would rebuild
\* from the log as written, whatever crashes came before.
THEOREM RestoreFaithful == Spec => []RestoreIsFaithful
<1>1. Init => TypeInv /\ RecoveryInv
  BY InitType, RecoveryInit
<1>2. TypeInv /\ RecoveryInv /\ [Next]_vars => TypeInv' /\ RecoveryInv'
  BY TypeStep, RecoveryStep
<1>3. RecoveryInv => RestoreIsFaithful
  BY RecoveryInvImplies
<1> QED
  BY <1>1, <1>2, <1>3, PTL DEF Spec

-----------------------------------------------------------------------------
(* Write-ahead: deliveries are on every surviving part of the log *)

\* The recorded commands account for a delivery.
Holds(cmds, s) ==
  /\ s.command \in DOMAIN cmds
  /\ cmds[s.command].target = s.target
  /\ cmds[s.command].desired = s.value
  /\ s.attempt <= cmds[s.command].retryIndex + 1

DurableIn(j) == \A k \in 1..Len(j) : \A s \in sent : Holds(j[k].commands, s)
FlushedAtCall == pc = "call" => Len(journal) = 1
WriteAheadInv == DurableIn(journal) /\ FlushedAtCall

LEMMA DurableAppend ==
  ASSUME NEW j \in Logs, DurableIn(j), NEW p \in Projection,
         \A s \in sent : Holds(Rebuilt(j).commands, s) => Holds(p.commands, s)
  PROVE  DurableIn(Append(j, p))
<1>1. Len(j) \in Nat \ {0} /\ Rebuilt(j) = j[Len(j)]
  BY LogProperties DEF Rebuilt
<1>2. /\ Len(Append(j, p)) = Len(j) + 1
      /\ \A k \in 1..Len(j) : Append(j, p)[k] = j[k]
      /\ Append(j, p)[Len(j) + 1] = p
  BY AppendedProperties, AppendProperties DEF Logs
<1>3. \A s \in sent : Holds(p.commands, s)
  BY <1>1 DEF DurableIn
<1>4. ASSUME NEW k \in 1..Len(Append(j, p)), NEW s \in sent
      PROVE  Holds(Append(j, p)[k].commands, s)
  <2>1. CASE k = Len(j) + 1
    BY <1>2, <1>3, <2>1
  <2>2. CASE k \in 1..Len(j)
    BY <1>2, <2>2 DEF DurableIn
  <2> QED
    BY <1>1, <1>2, <2>1, <2>2
<1> QED
  BY <1>4 DEF DurableIn

LEMMA DurableStatus ==
  ASSUME NEW j \in Logs, DurableIn(j), NEW id, NEW status \in Statuses
  PROVE  DurableIn(LogStatus(j, id, status))
<1>1. PICK p \in Projection :
        /\ LogStatus(j, id, status) = Append(j, p)
        /\ p.commands = SetStatus(Rebuilt(j).commands, id, status)
  BY LogStatusProperties
<1>2. Rebuilt(j).commands \in CommandMaps
  BY LogProperties DEF Projection
<1> DEFINE f == Rebuilt(j).commands
<1>3. /\ DOMAIN p.commands = DOMAIN f
      /\ \A x \in DOMAIN f :
           p.commands[x] = IF x = id THEN [f[x] EXCEPT !.status = status] ELSE f[x]
  BY <1>1, <1>2, SetStatusProperties
<1>4. \A x \in DOMAIN f : f[x] \in Command
  BY <1>2, MapElim
<1> HIDE DEF f
<1>5. \A x \in DOMAIN f : /\ p.commands[x].target = f[x].target
                          /\ p.commands[x].desired = f[x].desired
                          /\ p.commands[x].retryIndex = f[x].retryIndex
  BY <1>3, <1>4 DEF Command
<1>6. \A s \in sent : Holds(f, s) => Holds(p.commands, s)
  BY <1>3, <1>5 DEF Holds
<1> QED
  BY <1>1, <1>6, DurableAppend DEF f

LEMMA DurableObserved ==
  ASSUME NEW j \in Logs, DurableIn(j), NEW t \in Targets,
         NEW value \in Values \cup {NoValue}, NEW revision \in Nat
  PROVE  DurableIn(LogObserved(j, t, value, revision))
<1>1. PICK p \in Projection :
        /\ LogObserved(j, t, value, revision) = Append(j, p)
        /\ p.commands = Rebuilt(j).commands
        /\ p.observed = [Rebuilt(j).observed EXCEPT ![t] = value]
        /\ p.revisions = [Rebuilt(j).revisions EXCEPT ![t] = revision]
  BY LogObservedProperties
<1> QED
  BY <1>1, DurableAppend

\* A new command record displaces none that was delivered.
LEMMA DurableCommand ==
  ASSUME NEW j \in Logs, DurableIn(j), NEW id \in CommandIds, NEW c \in Command,
         id \notin DOMAIN Rebuilt(j).commands
  PROVE  DurableIn(LogCommand(j, id, c))
<1>1. PICK p \in Projection :
        /\ LogCommand(j, id, c) = Append(j, p)
        /\ p.commands = Put(Rebuilt(j).commands, id, c)
  BY LogCommandProperties
<1> DEFINE f == Rebuilt(j).commands
<1>2. f \in CommandMaps
  BY LogProperties DEF Projection
<1> HIDE DEF f
<1>3. /\ DOMAIN p.commands = DOMAIN f \cup {id}
      /\ \A x \in DOMAIN f : x # id => p.commands[x] = f[x]
  <2>1. p.commands = Put(f, id, c)
    BY <1>1 DEF f
  <2>2. /\ DOMAIN Put(f, id, c) = DOMAIN f \cup {id}
        /\ \A x \in DOMAIN f : x # id => Put(f, id, c)[x] = f[x]
    BY <1>2, PutProperties
  <2> QED
    BY <2>1, <2>2
<1>4. \A s \in sent : Holds(f, s) => Holds(p.commands, s)
  BY <1>3 DEF Holds, f
<1> QED
  BY <1>1, <1>4, DurableAppend DEF f

LEMMA DurableFlushed ==
  ASSUME NEW j \in Logs, DurableIn(j)
  PROVE  DurableIn(Flushed(j))
<1>1. Len(j) \in Nat \ {0} /\ Rebuilt(j) = j[Len(j)]
  BY LogProperties DEF Rebuilt
<1>2. Len(Flushed(j)) = 1 /\ Flushed(j)[1] = Rebuilt(j)
  BY FlushedProperties
<1>3. \A k \in 1..Len(Flushed(j)) : Flushed(j)[k] = j[Len(j)]
  BY <1>1, <1>2
<1> QED
  BY <1>1, <1>3 DEF DurableIn

LEMMA DurableCommit ==
  ASSUME NEW j \in Logs, DurableIn(j), NEW t \in Targets,
         NEW value \in Values \cup {NoValue}, NEW revision \in Nat,
         CommitAuthoritative(j, t, value, revision)
  PROVE  DurableIn(journal')
BY DurableObserved DEF CommitAuthoritative

LEMMA DurableReport ==
  ASSUME TypeOK, DurableIn(journal), NEW r \in Report, ApplyReport(r)
  PROVE  DurableIn(journal')
<1> DEFINE id == r.command
           t == commands[id].target
           fresh == commands[id].status # "Superseded"
           logged == IF fresh THEN LogStatus(journal, id, r.status) ELSE journal
<1>1. journal \in Logs /\ commands \in CommandMaps
  BY RecordedType
<1>2. /\ r.status \in Statuses
      /\ r.value \in Values \cup {NoValue} /\ r.revision \in Nat
  BY DEF Report
<1>3. CASE ~Acceptable(r)
  BY <1>3 DEF ApplyReport
<1>4. CASE Acceptable(r)
  <2>1. \/ CommitAuthoritative(logged, t, r.value, r.revision)
        \/ journal' = logged
    BY <1>4 DEF ApplyReport
  <2>2. t \in Targets
    BY <1>1, <1>4, MapElim DEF Acceptable, Command
  <2>3. logged \in Logs /\ DurableIn(logged)
    BY <1>1, <1>2, RebuiltStatus, DurableStatus
  <2> HIDE DEF logged, t
  <2> QED
    BY <1>2, <2>1, <2>2, <2>3, DurableCommit
<1> QED
  BY <1>3, <1>4

LEMMA DurableTransition ==
  ASSUME TypeOK, DurableIn(journal), NEW id, NEW status \in Statuses,
         Transition(id, status)
  PROVE  DurableIn(journal')
BY RecordedType, DurableStatus DEF Transition

LEMMA DurableSuperseded ==
  ASSUME TypeOK, DurableIn(journal), NEW t \in Targets
  PROVE  DurableIn(SupersededJournal(t))
<1>1. "Superseded" \in Statuses
  BY DEF Statuses
<1> QED
  BY <1>1, RecordedType, DurableStatus DEF SupersededJournal

LEMMA WriteAheadFrame ==
  ASSUME TypeInv, RecoveryInv, WriteAheadInv, Frame, ~RecordAttempt, ~AdapterReceives
  PROVE  DurableIn(journal') /\ pc' # "call" /\ sent' = sent
<1> USE DEF TypeInv, WriteAheadInv
<1>1. journal \in Logs
  BY RecordedType
<1>2. CASE BeginFrame \/ ReportsDrained \/ RunPhases
  BY <1>2 DEF BeginFrame, ReportsDrained, RunPhases, outside
<1>3. CASE ReceiveDeferred
  <2>1. Head(deferred) \in Report
    BY <1>3, HeadTailProperties DEF ReceiveDeferred, TypeOK
  <2> QED
    BY <1>3, <2>1, DurableReport DEF ReceiveDeferred, frame, outside
<1>4. CASE ReceiveReport
  <2>1. {s.command : s \in sent} \subseteq CommandIds
    BY DEF TypeOK, Delivery
  <2>2. PICK r \in Report : ApplyReport(r)
    BY <1>4, <2>1, ReportsOfType DEF ReceiveReport
  <2> QED
    BY <1>4, <2>2, DurableReport DEF ReceiveReport, frame, outside
<1>5. CASE ReceiveObservation
  <2>1. PICK t \in Targets :
          \E revision \in 1..Len(device[t]) :
            ApplyObservation(t, device[t][revision], revision)
    BY <1>5 DEF ReceiveObservation
  <2>2. PICK revision \in 1..Len(device[t]) :
          ApplyObservation(t, device[t][revision], revision)
    BY <2>1
  <2>3. device[t][revision] \in Values \cup {NoValue} /\ revision \in Nat
    <3>1. device[t] \in Seq(Values)
      BY DEF TypeOK
    <3> QED
      BY <3>1, ElementOfSeq, LenProperties
  <2>4. DurableIn(journal')
    BY <1>1, <2>2, <2>3, DurableCommit DEF ApplyObservation
  <2> QED
    BY <1>5, <2>4 DEF ReceiveObservation, frame, outside
<1>6. CASE FrameThrows
  BY <1>1, <1>6, DurableFlushed DEF FrameThrows, FailFrame, outside
<1>7. ASSUME NEW t \in Targets,
             ClearDesire(t) \/ IssueUnneeded(t) \/ IssueAlreadyObserved(t)
             \/ Issue(t) \/ IssueThrows(t)
      PROVE  DurableIn(journal') /\ pc' # "call" /\ sent' = sent
  <2>1. SupersededJournal(t) \in Logs /\ DurableIn(SupersededJournal(t))
    BY SupersededType, DurableSuperseded
  <2>2. "Superseded" \in Statuses
    BY DEF Statuses
  <2>3. CASE ClearDesire(t)
    BY <2>2, <2>3, DurableTransition DEF ClearDesire, outside
  <2>4. CASE IssueUnneeded(t)
    BY <2>4 DEF IssueUnneeded, Issuing, outside
  <2>5. CASE IssueAlreadyObserved(t)
    BY <2>1, <2>5 DEF IssueAlreadyObserved, Issuing, outside
  <2>6. CASE Issue(t)
    <3> DEFINE command == [target |-> t, desired |-> desires[t], issuedAt |-> now,
                           status |-> "Pending", retryIndex |-> 0]
    <3>1. /\ pc = "work" /\ pc' = "attempt" /\ sent' = sent
          /\ nextCommand \in CommandIds
          /\ desires[t] # NoValue /\ desires[t] # Cleared
          /\ journal' = LogCommand(SupersededJournal(t), nextCommand, command)
      BY <2>6 DEF Issue, Issuing, CanIssue, outside
    <3>2. command \in Command
      BY <3>1, PolicyAssumption DEF Command, Statuses, TypeOK
    <3>3. nextCommand \notin DOMAIN Rebuilt(SupersededJournal(t)).commands
      <4>1. \A id \in DOMAIN Rebuilt(SupersededJournal(t)).commands : id < nextCommand
        BY <3>1, SupersededIds
      <4>2. ~(nextCommand < nextCommand)
        BY <3>1, CommandIdsProperties
      <4> QED
        BY <4>1, <4>2
    <3> HIDE DEF command
    <3> QED
      BY <2>1, <3>1, <3>2, <3>3, DurableCommand
  <2>7. CASE IssueThrows(t)
    BY <2>1, <2>7, DurableFlushed DEF IssueThrows, FailFrame, outside
  <2> QED
    BY <1>7, <2>3, <2>4, <2>5, <2>6, <2>7
<1>8. "Rejected" \in Statuses /\ "Failed" \in Statuses /\ "Indeterminate" \in Statuses
      /\ "TimedOut" \in Statuses
  BY DEF Statuses
<1>9. CASE DispatchRefused \/ DispatchThrows \/ DispatchAccepted
  BY <1>8, <1>9, DurableTransition
     DEF DispatchRefused, DispatchThrows, DispatchAccepted, DispatchReturns, outside
<1>10. CASE DispatchReported
  <2>1. pc = "await" /\ pc' = "work" /\ sent' = sent
    BY <1>10 DEF DispatchReported, DispatchReturns, outside
  <2>2. {current} \in SUBSET CommandIds
    BY <2>1, MapElim DEF CurrentIsRetained, TypeOK
  <2>3. PICK r \in ReportsOf({current}) :
          \/ ApplyReport(r)
          \/ journal' = journal
          \/ Transition(current, "Indeterminate")
    BY <1>10 DEF DispatchReported
  <2>4. r \in Report
    BY <2>2, ReportsOfType
  <2> QED
    BY <1>8, <2>1, <2>3, <2>4, DurableReport, DurableTransition
<1>11. ASSUME NEW id \in DOMAIN commands, TimeOut(id) \/ Retry(id)
       PROVE  DurableIn(journal') /\ pc' # "call" /\ sent' = sent
  BY <1>8, <1>11, DurableTransition DEF TimeOut, Retry, Visits, AllIssued, outside
<1>12. CASE CompleteFrame
  BY <1>1, <1>12, DurableFlushed DEF CompleteFrame, outside
<1> QED
  BY <1>2, <1>3, <1>4, <1>5, <1>6, <1>7, <1>9, <1>10, <1>11, <1>12 DEF Frame

\* dispatch() records the attempt on a flushed log ...
LEMMA WriteAheadRecord ==
  ASSUME TypeInv, RecoveryInv, WriteAheadInv, RecordAttempt
  PROVE  WriteAheadInv'
<1>1. journal \in Logs /\ Recorded \in CommandMaps
  BY RecordedType DEF TypeInv
<1>2. pc = "attempt" /\ journal' = Flushed(LogAttempt(journal, current, Attempt))
      /\ sent' = sent
  BY DEF RecordAttempt, outside
<1>3. Attempt \in 1..(Len(RetryDelays) + 1)
  <2>1. commands[current] \in Command
    BY <1>2, MapElim DEF TypeInv, TypeOK, CurrentIsRetained
  <2>2. commands[current].retryIndex \in 0..Len(RetryDelays)
        /\ Len(RetryDelays) \in Nat
    BY <2>1, PolicyAssumption DEF Command
  <2> QED
    BY <2>2 DEF Attempt
<1>4. PICK p \in Projection :
        /\ LogAttempt(journal, current, Attempt) = Append(journal, p)
        /\ DOMAIN p.commands = DOMAIN Recorded
        /\ \A x \in DOMAIN p.commands :
             p.commands[x] =
               IF x = current /\ Recorded[x].retryIndex < Attempt - 1
               THEN [Recorded[x] EXCEPT !.retryIndex = Attempt - 1]
               ELSE Recorded[x]
        /\ p.observed = Rebuilt(journal).observed
        /\ p.revisions = Rebuilt(journal).revisions
  BY <1>1, <1>3, LogAttemptProperties DEF Recorded
<1>5. \A x \in DOMAIN Recorded : Recorded[x] \in Command
  BY <1>1, MapElim
<1>6. ASSUME NEW s \in sent, Holds(Recorded, s)
      PROVE  Holds(p.commands, s)
  <2> DEFINE c == Recorded[s.command]
             d == p.commands[s.command]
  <2>1. s.command \in DOMAIN p.commands /\ c \in Command
    BY <1>4, <1>5, <1>6 DEF Holds
  <2>2. d = IF s.command = current /\ c.retryIndex < Attempt - 1
            THEN [c EXCEPT !.retryIndex = Attempt - 1] ELSE c
    BY <1>4, <2>1
  <2> HIDE DEF c, d
  <2>3. d.target = c.target /\ d.desired = c.desired
    BY <2>1, <2>2 DEF Command
  <2>4. s.attempt \in Int /\ c.retryIndex \in Int /\ Attempt \in Int
    BY <1>3, <2>1, PolicyAssumption DEF TypeInv, TypeOK, Delivery, Command
  <2>5. s.attempt <= d.retryIndex + 1
    <3>1. s.attempt <= c.retryIndex + 1
      BY <1>6 DEF Holds, c
    <3>2. \/ d.retryIndex = c.retryIndex
          \/ d.retryIndex = Attempt - 1 /\ c.retryIndex < Attempt - 1
      <4>1. CASE s.command = current /\ c.retryIndex < Attempt - 1
        <5>1. d = [c EXCEPT !.retryIndex = Attempt - 1]
          BY <2>2, <4>1
        <5>2. d.retryIndex = Attempt - 1
          BY <2>1, <5>1 DEF Command
        <5> QED
          BY <4>1, <5>2
      <4>2. CASE ~(s.command = current /\ c.retryIndex < Attempt - 1)
        BY <2>2, <4>2
      <4> QED
        BY <4>1, <4>2
    <3> QED
      BY <2>4, <3>1, <3>2
  <2> QED
    BY <1>6, <2>1, <2>3, <2>5 DEF Holds, c, d
<1>7. DurableIn(Append(journal, p)) /\ Append(journal, p) \in Logs
  BY <1>1, <1>6, DurableAppend, AppendedProperties DEF WriteAheadInv, Recorded
<1>8. DurableIn(journal') /\ Len(journal') = 1
  BY <1>2, <1>4, <1>7, DurableFlushed, FlushedProperties
<1> QED
  BY <1>2, <1>8 DEF WriteAheadInv, DurableIn, FlushedAtCall

\* ... and only then calls the adapter.
LEMMA WriteAheadSend ==
  ASSUME TypeInv, RecoveryInv, WriteAheadInv, AdapterReceives
  PROVE  WriteAheadInv'
<1> DEFINE d == [command |-> current, attempt |-> Attempt, epoch |-> restarts,
                 target |-> commands[current].target,
                 value |-> commands[current].desired]
<1>1. /\ pc = "call" /\ pc' = "await"
      /\ sent' = sent \cup {d}
      /\ journal' = journal
  BY DEF AdapterReceives
<1>2. Len(journal) = 1 /\ Rebuilt(journal) = journal[1]
  BY <1>1 DEF WriteAheadInv, FlushedAtCall, Rebuilt
<1>3. current \in DOMAIN Recorded /\ Recorded[current] = commands[current]
  BY <1>1 DEF TypeInv, CurrentIsRetained, RecoveryInv, CommandsRecorded, Agree
<1>4. commands[current].retryIndex \in Int
  <2>1. commands[current] \in Command
    BY <1>1, MapElim DEF TypeInv, TypeOK, CurrentIsRetained
  <2> QED
    BY <2>1, PolicyAssumption DEF Command
<1>5. Holds(Recorded, d)
  BY <1>3, <1>4 DEF Holds, Attempt
<1> HIDE DEF d
<1>6. \A k \in 1..Len(journal) : \A s \in sent' : Holds(journal[k].commands, s)
  BY <1>1, <1>2, <1>5 DEF WriteAheadInv, DurableIn, Recorded
<1> QED
  BY <1>1, <1>6 DEF WriteAheadInv, DurableIn, FlushedAtCall

LEMMA WriteAheadHost ==
  ASSUME TypeInv, RecoveryInv, WriteAheadInv, Host
  PROVE  DurableIn(journal') /\ pc' # "call" /\ sent' = sent
<1>1. journal \in Logs /\ Recorded \in CommandMaps /\ DurableIn(journal)
  BY RecordedType DEF TypeInv, WriteAheadInv
<1>2. Len(journal) \in Nat \ {0} /\ Rebuilt(journal) = journal[Len(journal)]
  BY <1>1, LogProperties DEF Rebuilt
<1>3. ASSUME NEW route \in Routes, RegisterAdapter(route)
      PROVE  DurableIn(journal') /\ pc' # "call" /\ sent' = sent
  <2>1. pc' = "idle" /\ sent' = sent
    BY <1>3 DEF RegisterAdapter, frame, outside
  <2>2. CASE journal' = journal
    BY <1>1, <2>1, <2>2
  <2>3. ASSUME NEW p \in Projection, journal' = <<p>>,
               p.commands = Marked(Recorded, Uncertain(route))
        PROVE  DurableIn(journal')
    <3>1. \A x \in DOMAIN Recorded : Recorded[x] \in Command
      BY <1>1, MapElim
    <3>2. /\ DOMAIN p.commands = DOMAIN Recorded
          /\ \A x \in DOMAIN Recorded :
               /\ p.commands[x].target = Recorded[x].target
               /\ p.commands[x].desired = Recorded[x].desired
               /\ p.commands[x].retryIndex = Recorded[x].retryIndex
      BY <2>3, <3>1 DEF Marked, Command
    <3>3. \A s \in sent : Holds(Recorded, s)
      BY <1>1, <1>2 DEF DurableIn, Recorded
    <3>4. \A s \in sent : Holds(p.commands, s)
      BY <3>2, <3>3 DEF Holds
    <3>5. \A k \in 1..Len(journal') : journal'[k] = p
      BY <2>3
    <3> QED
      BY <3>4, <3>5 DEF DurableIn
  <2> QED
    BY <1>3, <2>1, <2>2, <2>3, RegisterAdapterLog DEF TypeInv, Recorded
<1>4. ASSUME NEW t \in Targets, Reconcile(t)
      PROVE  DurableIn(journal') /\ pc' # "call" /\ sent' = sent
  <2> DEFINE id == latestByTarget[t]
             value == device[t][Len(device[t])]
             status == IF commands[id].desired = value THEN "Applied" ELSE "Failed"
             revision == IF observedRevisions[t] = 0 THEN id
                         ELSE observedRevisions[t] + 1
  <2>1. /\ pc' = "flush" /\ sent' = sent
        /\ CommitAuthoritative(LogStatus(journal, id, status), t, value, revision)
    BY <1>4 DEF Reconcile, outside
  <2>2. value \in Values
    <3>1. device[t] \in Seq(Values) /\ device[t] # <<>>
      BY DEF TypeInv, TypeOK
    <3> QED
      BY <3>1, LenProperties, EmptySeq, ElementOfSeq
  <2>3. revision \in Nat /\ status \in Statuses
    BY BoundAssumption DEF TypeInv, TypeOK, Statuses
  <2> HIDE DEF value, status, revision, id
  <2>4. /\ LogStatus(journal, id, status) \in Logs
        /\ DurableIn(LogStatus(journal, id, status))
    BY <1>1, <2>3, RebuiltStatus, DurableStatus
  <2> QED
    BY <2>1, <2>2, <2>3, <2>4, DurableCommit
<1>5. CASE ReconcileFlush \/ Checkpoint
  <2>1. DurableIn(Flushed(journal))
    BY <1>1, DurableFlushed
  <2> QED
    BY <1>5, <2>1 DEF ReconcileFlush, Checkpoint, frame, outside
<1>6. ASSUME NEW k \in 1..Len(journal), Restart(k)
      PROVE  DurableIn(journal') /\ pc' # "call" /\ sent' = sent
  <2>1. journal' = SubSeq(journal, 1, k) /\ pc' = "idle" /\ sent' = sent
    BY <1>6 DEF Restart
  <2>2. /\ Len(SubSeq(journal, 1, k)) = k
        /\ \A n \in 1..k : SubSeq(journal, 1, k)[n] = journal[n]
    BY <1>1, PrefixProperties
  <2>3. \A n \in 1..k : n \in 1..Len(journal)
    BY <1>2
  <2> QED
    BY <1>1, <2>1, <2>2, <2>3 DEF DurableIn
<1> QED
  BY <1>3, <1>4, <1>5, <1>6 DEF Host

LEMMA WriteAheadStep ==
  ASSUME TypeInv, RecoveryInv, WriteAheadInv, [Next]_vars
  PROVE  WriteAheadInv'
<1>1. ASSUME DurableIn(journal'), pc' # "call", sent' = sent
      PROVE  WriteAheadInv'
  BY <1>1 DEF WriteAheadInv, DurableIn, FlushedAtCall
<1>2. ASSUME UNCHANGED <<frame, journal, sent>>
      PROVE  WriteAheadInv'
  BY <1>2 DEF WriteAheadInv, DurableIn, FlushedAtCall, frame
<1>3. CASE UNCHANGED vars
  BY <1>2, <1>3 DEF vars, outside
<1>4. CASE Frame
  BY <1>1, <1>4, WriteAheadFrame, WriteAheadRecord, WriteAheadSend
<1>5. CASE Host
  BY <1>1, <1>5, WriteAheadHost
<1>6. CASE Environment
  BY <1>2, <1>6 DEF Environment, DeviceExecutes, AdapterLosesTrack, DeviceChanges
<1> QED
  BY <1>3, <1>4, <1>5, <1>6 DEF Next

LEMMA WriteAheadInit == Init => WriteAheadInv
BY DEF Init, WriteAheadInv, DurableIn, FlushedAtCall

\* Whatever an adapter has received is on the flushed part of the log, with
\* its target, its value and its attempt: no crash forgets or re-uses it.
THEOREM WriteAheadHolds == Spec => []WriteAhead
<1>1. Init => TypeInv /\ RecoveryInv /\ WriteAheadInv
  BY InitType, RecoveryInit, WriteAheadInit
<1>2. TypeInv /\ RecoveryInv /\ WriteAheadInv /\ [Next]_vars
        => TypeInv' /\ RecoveryInv' /\ WriteAheadInv'
  BY TypeStep, RecoveryStep, WriteAheadStep
<1>3. TypeInv /\ WriteAheadInv => WriteAhead
  <2> SUFFICES ASSUME TypeInv, WriteAheadInv PROVE WriteAhead
    OBVIOUS
  <2>1. 1 \in 1..Len(journal)
    BY RecordedType, LogProperties DEF TypeInv
  <2> QED
    BY <2>1 DEF WriteAheadInv, DurableIn, Holds, WriteAhead
<1> QED
  BY <1>1, <1>2, <1>3, PTL DEF Spec

-----------------------------------------------------------------------------
(* Attempts are made at most once *)

\* Before the adapter is called, every earlier delivery of the command had a
\* smaller attempt number.
AttemptIsNew ==
  pc \in {"attempt", "call"} =>
    \A s \in sent :
      s.command = current => s.attempt <= commands[current].retryIndex

LEMMA AttemptIsNewStep ==
  ASSUME TypeInv, RecoveryInv, WriteAheadInv, AttemptIsNew, [Next]_vars
  PROVE  AttemptIsNew'
<1>1. journal \in Logs /\ commands \in CommandMaps
  BY RecordedType DEF TypeInv
<1>2. ASSUME NEW s \in sent PROVE Holds(Recorded, s)
  <2>1. Len(journal) \in 1..Len(journal) /\ Recorded = journal[Len(journal)].commands
    BY <1>1, LogProperties DEF Recorded, Rebuilt
  <2> QED
    BY <2>1 DEF WriteAheadInv, DurableIn
<1>3. ASSUME NEW t \in Targets, Issue(t) PROVE AttemptIsNew'
  <2>1. /\ pc = "work" /\ desires # NoDesires /\ sent' = sent
        /\ nextCommand \in CommandIds /\ nextCommand' = nextCommand + 1
        /\ cursor' = cursor
    BY <1>3 DEF Issue, Issuing, CanIssue, NoDesires, outside
  <2>2. current' = nextCommand
    BY <2>1, CommandIdsProperties DEF TypeInv, CursorAfterIssuing, current
  <2>3. \A s \in sent : s.command # nextCommand
    <3>1. \A s \in sent : s.command < nextCommand
      BY <1>2 DEF Holds, RecoveryInv, IdsRecorded
    <3> QED
      BY <2>1, <3>1, CommandIdsProperties
  <2> QED
    BY <2>1, <2>2, <2>3 DEF AttemptIsNew
<1>4. ASSUME NEW id \in DOMAIN commands, Retry(id) PROVE AttemptIsNew'
  <2>1. pc = "work" /\ cursor' = id /\ sent' = sent
    BY <1>4 DEF Retry, Visits, AllIssued, outside
  <2>2. id # 0 /\ commands[id] \in Command
    BY <1>1, MapElim, BoundAssumption DEF CommandIds
  <2>3. commands'[id].retryIndex = commands[id].retryIndex + 1
    <3>1. commands'[id] =
            [commands[id] EXCEPT !.retryIndex = commands[id].retryIndex + 1]
      BY <1>4, RetryType
    <3> QED
      BY <2>2, <3>1 DEF Command
  <2>4. Recorded[id] = commands[id]
    BY <2>1 DEF RecoveryInv, CommandsRecorded, Agree
  <2>5. \A s \in sent : s.command = id => s.attempt <= commands[id].retryIndex + 1
    BY <1>2, <2>4 DEF Holds
  <2> QED
    BY <2>1, <2>2, <2>3, <2>5 DEF AttemptIsNew, current
<1>5. CASE RecordAttempt
  BY <1>5 DEF RecordAttempt, AttemptIsNew, current, outbox, outside
<1>6. ASSUME UNCHANGED <<outbox, nextCommand, frame, sent>> PROVE AttemptIsNew'
  BY <1>6 DEF AttemptIsNew, current, outbox, frame
<1>7. ASSUME pc' \notin {"attempt", "call"} PROVE AttemptIsNew'
  BY <1>7 DEF AttemptIsNew
<1>8. CASE Frame
  <2>1. CASE BeginFrame \/ ReceiveDeferred \/ ReceiveReport \/ ReportsDrained
             \/ ReceiveObservation \/ RunPhases \/ FrameThrows
    BY <1>7, <2>1 DEF BeginFrame, ReceiveDeferred, ReceiveReport, ReportsDrained,
                      ReceiveObservation, RunPhases, FrameThrows, FailFrame, frame
  <2>2. ASSUME NEW t \in Targets,
               ClearDesire(t) \/ IssueUnneeded(t) \/ IssueAlreadyObserved(t)
               \/ IssueThrows(t)
        PROVE  AttemptIsNew'
    BY <1>7, <2>2 DEF ClearDesire, IssueUnneeded, IssueAlreadyObserved, IssueThrows,
                      Issuing, FailFrame
  <2>3. CASE AdapterReceives \/ DispatchRefused \/ DispatchThrows
             \/ DispatchAccepted \/ DispatchReported \/ CompleteFrame
    BY <1>7, <2>3 DEF AdapterReceives, DispatchRefused, DispatchThrows,
                      DispatchAccepted, DispatchReported, DispatchReturns,
                      CompleteFrame
  <2>4. ASSUME NEW id \in DOMAIN commands, TimeOut(id) PROVE AttemptIsNew'
    BY <1>7, <2>4 DEF TimeOut, Visits, AllIssued
  <2> QED
    BY <1>3, <1>4, <1>5, <1>8, <2>1, <2>2, <2>3, <2>4 DEF Frame
<1>9. CASE Host
  BY <1>7, <1>9 DEF Host, RegisterAdapter, Reconcile, ReconcileFlush, Checkpoint,
                    Restart, frame
<1>10. CASE Environment
  BY <1>6, <1>10 DEF Environment, DeviceExecutes, AdapterLosesTrack, DeviceChanges
<1>11. CASE UNCHANGED vars
  BY <1>6, <1>11 DEF vars, outside
<1> QED
  BY <1>8, <1>9, <1>10, <1>11 DEF Next

\* No attempt of a command is handed to an adapter twice, across any number
\* of crashes between recording an attempt and learning its outcome.
THEOREM AttemptsFresh == Spec => AttemptsAreFresh
<1> DEFINE IInv == TypeInv /\ RecoveryInv /\ WriteAheadInv /\ AttemptIsNew
<1>1. Init => IInv
  BY InitType, RecoveryInit, WriteAheadInit DEF Init, AttemptIsNew
<1>2. IInv /\ [Next]_vars => IInv'
  BY TypeStep, RecoveryStep, WriteAheadStep, AttemptIsNewStep
<1>3. IInv /\ [Next]_vars =>
        [pc = "call" /\ pc' = "await" =>
           \A s \in sent : ~(s.command = current /\ s.attempt = Attempt)]_vars
  <2> SUFFICES ASSUME IInv, pc = "call", NEW s \in sent, s.command = current,
                      s.attempt = Attempt
               PROVE  FALSE
    OBVIOUS
  <2>1. s.attempt <= commands[current].retryIndex
    BY DEF AttemptIsNew
  <2>2. commands[current].retryIndex \in Int
    <3>1. commands[current] \in Command
      BY MapElim DEF TypeInv, TypeOK, CurrentIsRetained
    <3> QED
      BY <3>1, PolicyAssumption DEF Command
  <2> QED
    BY <2>1, <2>2 DEF Attempt
<1> QED
  BY <1>1, <1>2, <1>3, PTL DEF Spec, AttemptsAreFresh

=============================================================================
