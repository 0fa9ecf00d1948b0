--------------------- MODULE RuntimeEffectsSafetyProofs ---------------------
(***************************************************************************)
(* What the outbox may do to a device target: the observed revision only   *)
(* advances, no command is handed again to an adapter that cannot          *)
(* recognise it, and only the newest command of a target is ever active.   *)
(* And what its limits may not do: retention and the stage of reports lose *)
(* nothing, and observed values are those the devices really had.          *)
(***************************************************************************)
EXTENDS RuntimeEffectsProofs

-----------------------------------------------------------------------------
(* How the retained commands evolve *)

\* The statuses adapters report.
ReportStatuses == FailureStatuses \cup {"Applied", "Indeterminate"}

\* Every command of g is one of f, with its target, and none became pending.
Follows(f, g) ==
  \A id \in DOMAIN g :
    /\ id \in DOMAIN f
    /\ g[id].target = f[id].target
    /\ g[id].status = "Pending" => f[id].status = "Pending"

\* Moreover none became active again.
Evolves(f, g) ==
  /\ Follows(f, g)
  /\ \A id \in DOMAIN g : Active(g[id].status) => Active(f[id].status)

LEMMA EvolvesSelf ==
  ASSUME NEW f
  PROVE  Evolves(f, f)
BY DEF Evolves, Follows

LEMMA EvolvesTrans ==
  ASSUME NEW f, NEW g, NEW h, Evolves(f, g), Evolves(g, h)
  PROVE  Evolves(f, h)
BY DEF Evolves, Follows

\* set_status never makes a command pending, and active only by the status
\* indeterminate.
LEMMA EvolvesStatus ==
  ASSUME NEW f \in CommandMaps, NEW id, NEW status \in Statuses \ {"Pending"}
  PROVE  /\ Follows(f, SetStatus(f, id, status))
         /\ \/ status # "Indeterminate"
            \/ id \in DOMAIN f => Active(f[id].status)
            => Evolves(f, SetStatus(f, id, status))
<1> DEFINE g == SetStatus(f, id, status)
<1>1. /\ DOMAIN g = DOMAIN f
      /\ \A x \in DOMAIN f :
           g[x] = IF x = id THEN [f[x] EXCEPT !.status = status] ELSE f[x]
  BY SetStatusProperties
<1>2. \A x \in DOMAIN f : f[x] \in Command
  BY MapElim
<1> HIDE DEF g
<1>3. \A x \in DOMAIN f : /\ g[x].target = f[x].target
                          /\ g[x].status = IF x = id THEN status ELSE f[x].status
  BY <1>1, <1>2 DEF Command
<1>4. Active(status) => status = "Indeterminate"
  BY DEF Active
<1>5. Follows(f, g)
  BY <1>1, <1>3 DEF Follows
<1>6. \/ status # "Indeterminate"
      \/ id \in DOMAIN f => Active(f[id].status)
      => Evolves(f, g)
  BY <1>1, <1>3, <1>4, <1>5 DEF Evolves
<1> QED
  BY <1>5, <1>6 DEF g

LEMMA EvolvesWithout ==
  ASSUME NEW f \in CommandMaps, NEW S
  PROVE  Evolves(f, Without(f, S))
<1> DEFINE g == Without(f, S)
<1>1. /\ DOMAIN g \subseteq DOMAIN f
      /\ \A x \in DOMAIN g : g[x] = f[x]
  BY WithoutProperties
<1> HIDE DEF g
<1>2. Evolves(f, g)
  BY <1>1 DEF Evolves, Follows
<1> QED
  BY <1>2 DEF g

LEMMA EvolvesMarked ==
  ASSUME NEW f \in CommandMaps, NEW ids,
         \A id \in ids \cap DOMAIN f : Active(f[id].status)
  PROVE  Evolves(f, Marked(f, ids))
<1> DEFINE g == Marked(f, ids)
<1>1. \A x \in DOMAIN f : f[x] \in Command
  BY MapElim
<1>2. /\ DOMAIN g = DOMAIN f
      /\ \A x \in DOMAIN f :
           /\ g[x].target = f[x].target
           /\ g[x].status = IF x \in ids THEN "Indeterminate" ELSE f[x].status
  BY <1>1 DEF Marked, Command
<1> HIDE DEF g
<1>3. Evolves(f, g)
  BY <1>2 DEF Evolves, Follows, Active
<1> QED
  BY <1>3 DEF g

-----------------------------------------------------------------------------
(* How the log evolves *)

\* Every result of the log g evolved from one of the log j.
LogEvolves(j, g) ==
  \A k \in 1..Len(g) : \E n \in 1..Len(j) : Evolves(j[n].commands, g[k].commands)

LEMMA LogEvolvesSelf ==
  ASSUME NEW j
  PROVE  LogEvolves(j, j)
BY EvolvesSelf DEF LogEvolves

LEMMA LogEvolvesTrans ==
  ASSUME NEW j, NEW g, NEW h, LogEvolves(j, g), LogEvolves(g, h)
  PROVE  LogEvolves(j, h)
BY EvolvesTrans DEF LogEvolves

LEMMA LogEvolvesAppend ==
  ASSUME NEW j \in Logs, NEW p \in Projection,
         Evolves(Rebuilt(j).commands, p.commands)
  PROVE  LogEvolves(j, Append(j, p))
<1>1. Len(j) \in Nat \ {0} /\ Rebuilt(j) = j[Len(j)]
  BY LogProperties DEF Rebuilt
<1>2. /\ Len(Append(j, p)) = Len(j) + 1
      /\ \A k \in 1..Len(j) : Append(j, p)[k] = j[k]
      /\ Append(j, p)[Len(j) + 1] = p
  BY AppendedProperties, AppendProperties DEF Logs
<1> DEFINE g == Append(j, p)
<1> HIDE DEF g
<1>3. ASSUME NEW k \in 1..Len(g)
      PROVE  \E n \in 1..Len(j) : Evolves(j[n].commands, g[k].commands)
  <2>1. CASE k = Len(j) + 1
    BY <1>1, <1>2, <2>1 DEF g
  <2>2. CASE k \in 1..Len(j)
    BY <1>2, <2>2, EvolvesSelf DEF g
  <2> QED
    BY <1>1, <1>2, <2>1, <2>2 DEF g
<1> QED
  BY <1>3 DEF LogEvolves, g

LEMMA LogEvolvesStatus ==
  ASSUME NEW j \in Logs, NEW id, NEW status \in Statuses \ {"Pending"},
         \/ status # "Indeterminate"
         \/ id \in DOMAIN Rebuilt(j).commands =>
              Active(Rebuilt(j).commands[id].status)
  PROVE  LogEvolves(j, LogStatus(j, id, status))
<1>1. PICK p \in Projection :
        /\ LogStatus(j, id, status) = Append(j, p)
        /\ p.commands = SetStatus(Rebuilt(j).commands, id, status)
  BY LogStatusProperties
<1>2. Rebuilt(j).commands \in CommandMaps
  BY LogProperties DEF Projection
<1>3. Evolves(Rebuilt(j).commands, p.commands)
  BY <1>1, <1>2, EvolvesStatus
<1> QED
  BY <1>1, <1>3, LogEvolvesAppend

LEMMA LogEvolvesObserved ==
  ASSUME NEW j \in Logs, NEW t \in Targets,
         NEW value \in Values \cup {NoValue}, NEW revision \in Nat
  PROVE  LogEvolves(j, LogObserved(j, t, value, revision))
<1>1. PICK p \in Projection :
        /\ LogObserved(j, t, value, revision) = Append(j, p)
        /\ p.commands = Rebuilt(j).commands
        /\ p.observed = [Rebuilt(j).observed EXCEPT ![t] = value]
        /\ p.revisions = [Rebuilt(j).revisions EXCEPT ![t] = revision]
  BY LogObservedProperties
<1>2. Evolves(Rebuilt(j).commands, p.commands)
  BY <1>1, EvolvesSelf
<1> QED
  BY <1>1, <1>2, LogEvolvesAppend

LEMMA LogEvolvesFlushed ==
  ASSUME NEW j \in Logs
  PROVE  LogEvolves(j, Flushed(j))
<1>1. Len(j) \in Nat \ {0} /\ Rebuilt(j) = j[Len(j)]
  BY LogProperties DEF Rebuilt
<1>2. Len(Flushed(j)) = 1 /\ Flushed(j)[1] = j[Len(j)]
  BY <1>1, FlushedProperties
<1>3. \A k \in 1..Len(Flushed(j)) : Flushed(j)[k] = j[Len(j)]
  BY <1>2
<1> QED
  BY <1>1, <1>3, EvolvesSelf DEF LogEvolves

LEMMA LogEvolvesPrefix ==
  ASSUME NEW j \in Logs, NEW n \in 1..Len(j)
  PROVE  LogEvolves(j, SubSeq(j, 1, n))
<1>1. /\ Len(SubSeq(j, 1, n)) = n
      /\ \A k \in 1..n : SubSeq(j, 1, n)[k] = j[k]
      /\ Len(j) \in Nat
  BY PrefixProperties, LogProperties
<1>2. \A k \in 1..n : k \in 1..Len(j)
  BY <1>1
<1> QED
  BY <1>1, <1>2, EvolvesSelf DEF LogEvolves

-----------------------------------------------------------------------------
(* How the steps of the outbox evolve both *)

\* The reports that are staged, or can be received, have a reported status, and
\* Indeterminate only of a command an adapter lost track of.
Genuine(r) ==
  /\ r.status \in ReportStatuses
  /\ r.status = "Indeterminate" => LostTrack(r.command)
GenuineReports ==
  /\ \A e \in evidence : e.status \in {"Applied", "Indeterminate"}
  /\ \A i \in DOMAIN deferred : Genuine(deferred[i])

\* dispatch() works on a pending command of a registered route.
DispatchIsDue ==
  pc \in {"attempt", "call", "await"} =>
    /\ commands[current].status = "Pending"
    /\ RouteOf[commands[current].target] \in adapters

LEMMA ReportStatusesProperties ==
  ReportStatuses \subseteq Statuses \ {"Pending"}
BY PolicyAssumption DEF ReportStatuses, Statuses

LEMMA ReportsOfGenuine ==
  ASSUME GenuineReports, NEW ids, NEW r \in ReportsOf(ids)
  PROVE  Genuine(r)
BY PolicyAssumption DEF GenuineReports, Genuine, ReportsOf, ReportStatuses, LostTrack

\* A report may make a command indeterminate that was not active any more.
LEMMA ReportEvolves ==
  ASSUME TypeOK, NEW r \in Report, ApplyReport(r)
  PROVE  /\ Follows(commands, commands')
         /\ r.status # "Indeterminate" =>
              Evolves(commands, commands') /\ LogEvolves(journal, journal')
<1> DEFINE id == r.command
           t == commands[id].target
           fresh == commands[id].status # "Superseded"
           logged == IF fresh THEN LogStatus(journal, id, r.status) ELSE journal
<1>1. journal \in Logs /\ commands \in CommandMaps
  BY RecordedType
<1>2. /\ r.status \in Statuses \ {"Pending"}
      /\ r.value \in Values \cup {NoValue} /\ r.revision \in Nat
  BY DEF Report
<1>3. CASE ~Acceptable(r)
  BY <1>3, EvolvesSelf, LogEvolvesSelf DEF ApplyReport, outbox, Evolves
<1>4. CASE Acceptable(r)
  <2>1. /\ commands' = IF fresh THEN SetStatus(commands, id, r.status) ELSE commands
        /\ \/ CommitAuthoritative(logged, t, r.value, r.revision)
           \/ journal' = logged
    BY <1>4 DEF ApplyReport
  <2>2. t \in Targets
    BY <1>1, <1>4, MapElim DEF Acceptable, Command
  <2>3. /\ logged \in Logs
        /\ r.status # "Indeterminate" => LogEvolves(journal, logged)
    BY <1>1, <1>2, RebuiltStatus, LogEvolvesStatus, LogEvolvesSelf
  <2>4. /\ Follows(commands, SetStatus(commands, id, r.status))
        /\ r.status # "Indeterminate" =>
             Evolves(commands, SetStatus(commands, id, r.status))
    BY <1>1, <1>2, EvolvesStatus
  <2>5. /\ Follows(commands, commands')
        /\ r.status # "Indeterminate" => Evolves(commands, commands')
    BY <2>1, <2>4, EvolvesSelf DEF Evolves
  <2> HIDE DEF logged, t, fresh
  <2>6. LogEvolves(logged, LogObserved(logged, t, r.value, r.revision))
    BY <1>2, <2>2, <2>3, LogEvolvesObserved
  <2>7. r.status # "Indeterminate" => LogEvolves(journal, journal')
    BY <2>1, <2>3, <2>6, LogEvolvesTrans DEF CommitAuthoritative
  <2> QED
    BY <2>5, <2>7
<1> QED
  BY <1>3, <1>4

LEMMA TransitionEvolves ==
  ASSUME TypeOK, RecoveryInv, pc # "attempt", NEW id \in DOMAIN commands,
         NEW status \in Statuses \ {"Pending"},
         status = "Indeterminate" => Active(commands[id].status),
         Transition(id, status)
  PROVE  Evolves(commands, commands') /\ LogEvolves(journal, journal')
<1>1. journal \in Logs /\ commands \in CommandMaps
  BY RecordedType
<1>2. /\ commands' = SetStatus(commands, id, status)
      /\ journal' = LogStatus(journal, id, status)
  BY DEF Transition
<1>3. Recorded[id] = commands[id]
  BY DEF RecoveryInv, CommandsRecorded, Agree
<1>4. Evolves(commands, SetStatus(commands, id, status))
  BY <1>1, EvolvesStatus
<1>5. LogEvolves(journal, LogStatus(journal, id, status))
  BY <1>1, <1>3, LogEvolvesStatus DEF Recorded
<1> QED
  BY <1>2, <1>4, <1>5

LEMMA SupersededEvolves ==
  ASSUME TypeOK, NEW t \in Targets
  PROVE  /\ Evolves(commands, SupersededCommands(t))
         /\ LogEvolves(journal, SupersededJournal(t))
<1>1. journal \in Logs /\ commands \in CommandMaps
  BY RecordedType
<1>2. "Superseded" \in Statuses \ {"Pending"} /\ "Superseded" # "Indeterminate"
  BY DEF Statuses
<1>3. /\ Evolves(commands, SetStatus(commands, latestByTarget[t], "Superseded"))
      /\ LogEvolves(journal, LogStatus(journal, latestByTarget[t], "Superseded"))
  BY <1>1, <1>2, EvolvesStatus, LogEvolvesStatus
<1> QED
  BY <1>3, EvolvesSelf, LogEvolvesSelf DEF SupersededCommands, SupersededJournal

LEMMA PruneEvolves ==
  ASSUME NEW f, NEW cmds \in CommandMaps, Evolves(f, cmds), NEW order, NEW latest,
         NEW limit, Prune(cmds, order, latest, limit)
  PROVE  Evolves(f, commands')
<1>1. commands' = Without(cmds, Pruned(cmds, order, limit))
  BY DEF Prune
<1>2. Evolves(cmds, commands')
  BY <1>1, EvolvesWithout
<1> QED
  BY <1>2, EvolvesTrans

Reported == \E r \in Report : Genuine(r) /\ ApplyReport(r)

\* A step of a frame issues a command, applies a report or lets the commands
\* evolve.
LEMMA FrameEvolves ==
  ASSUME TypeInv, RecoveryInv, GenuineReports, DispatchIsDue, Frame
  PROVE  \/ \E t \in Targets : Issue(t)
         \/ Reported
         \/ Evolves(commands, commands') /\ LogEvolves(journal, journal')
<1> DEFINE Goal == Evolves(commands, commands') /\ LogEvolves(journal, journal')
<1>1. journal \in Logs /\ commands \in CommandMaps /\ TypeOK
  BY RecordedType DEF TypeInv
<1>2. ASSUME UNCHANGED <<commands, journal>> PROVE Goal
  BY <1>2, EvolvesSelf, LogEvolvesSelf
<1>3. LogEvolves(journal, Flushed(journal))
  BY <1>1, LogEvolvesFlushed
<1>4. CASE BeginFrame \/ ReportsDrained \/ RunPhases \/ AdapterReceives
           \/ DispatchAccepted
  BY <1>2, <1>4 DEF BeginFrame, ReportsDrained, RunPhases, AdapterReceives,
                    DispatchAccepted, outbox
<1>5. CASE ReceiveDeferred
  <2>1. deferred \in Seq(Report) /\ deferred # <<>> /\ ApplyReport(Head(deferred))
    BY <1>1, <1>5 DEF ReceiveDeferred, TypeOK
  <2>2. Head(deferred) = deferred[1] /\ 1 \in DOMAIN deferred
    BY <2>1, EmptySeq, LenProperties
  <2>3. Head(deferred) \in Report /\ Genuine(Head(deferred))
    BY <2>1, <2>2, HeadTailProperties DEF GenuineReports
  <2> QED
    BY <2>1, <2>3 DEF Reported
<1>6. CASE ReceiveReport
  <2>1. {s.command : s \in sent} \in SUBSET CommandIds
    BY <1>1 DEF TypeOK, Delivery
  <2>2. PICK r \in ReportsOf({s.command : s \in sent}) : ApplyReport(r)
    BY <1>6 DEF ReceiveReport
  <2>3. r \in Report /\ Genuine(r)
    BY <1>1, <2>1, ReportsOfType, ReportsOfGenuine
  <2> QED
    BY <2>2, <2>3 DEF Reported
<1>7. CASE ReceiveObservation
  <2>1. PICK t \in Targets : \E revision \in 1..Len(device[t]) :
          ApplyObservation(t, device[t][revision], revision)
    BY <1>7 DEF ReceiveObservation
  <2>2. PICK revision \in 1..Len(device[t]) :
          ApplyObservation(t, device[t][revision], revision)
    BY <2>1
  <2>3. device[t][revision] \in Values \cup {NoValue} /\ revision \in Nat
    <3>1. device[t] \in Seq(Values)
      BY <1>1 DEF TypeOK
    <3> QED
      BY <3>1, ElementOfSeq, LenProperties
  <2>4. LogEvolves(journal, LogObserved(journal, t, device[t][revision], revision))
    BY <1>1, <2>3, LogEvolvesObserved
  <2> QED
    BY <2>2, <2>4, EvolvesSelf, LogEvolvesSelf
       DEF ApplyObservation, CommitAuthoritative, outbox
<1>8. CASE FrameThrows
  BY <1>3, <1>8, EvolvesSelf, LogEvolvesSelf DEF FrameThrows, FailFrame, outbox
<1>9. ASSUME NEW t \in Targets,
             ClearDesire(t) \/ IssueUnneeded(t) \/ IssueAlreadyObserved(t)
             \/ IssueThrows(t)
      PROVE  Goal
  <2>1. /\ SupersededCommands(t) \in CommandMaps
        /\ SupersededJournal(t) \in Logs
        /\ Evolves(commands, SupersededCommands(t))
        /\ LogEvolves(journal, SupersededJournal(t))
    BY <1>1, SupersededType, SupersededEvolves
  <2>2. CASE ClearDesire(t)
    <3>1. /\ PendingLatest(t)
          /\ commands' = SetStatus(commands, latestByTarget[t], "Superseded")
          /\ journal' = LogStatus(journal, latestByTarget[t], "Superseded")
      BY <2>2 DEF ClearDesire, Transition
    <3> QED
      BY <2>1, <3>1 DEF SupersededCommands, SupersededJournal
  <2>3. CASE IssueUnneeded(t)
    BY <1>2, <2>3 DEF IssueUnneeded, outbox
  <2>4. CASE IssueAlreadyObserved(t)
    BY <2>1, <2>4 DEF IssueAlreadyObserved
  <2>5. CASE IssueThrows(t)
    <3>1. Evolves(commands, commands')
      BY <2>1, <2>5, PruneEvolves DEF IssueThrows
    <3>2. LogEvolves(journal, Flushed(SupersededJournal(t)))
      BY <2>1, LogEvolvesFlushed, LogEvolvesTrans
    <3> QED
      BY <2>1, <2>5, <3>1, <3>2 DEF IssueThrows, FailFrame
  <2> QED
    BY <1>9, <2>2, <2>3, <2>4, <2>5
<1>10. CASE RecordAttempt
  <2>1. /\ pc = "attempt" /\ commands' = commands
        /\ journal' = Flushed(LogAttempt(journal, current, Attempt))
    BY <1>10 DEF RecordAttempt, outbox
  <2>2. Attempt \in 1..(Len(RetryDelays) + 1)
    <3>1. commands[current] \in Command
      BY <1>1, <2>1, MapElim DEF TypeInv, CurrentIsRetained
    <3>2. commands[current].retryIndex \in 0..Len(RetryDelays)
          /\ Len(RetryDelays) \in Nat
      BY <3>1, PolicyAssumption DEF Command
    <3> QED
      BY <3>2 DEF Attempt
  <2>3. PICK p \in Projection :
          /\ LogAttempt(journal, current, Attempt) = Append(journal, p)
          /\ DOMAIN p.commands = DOMAIN Recorded
          /\ \A x \in DOMAIN p.commands :
               p.commands[x] =
                 IF x = current /\ Recorded[x].retryIndex < Attempt - 1
                 THEN [Recorded[x] EXCEPT !.retryIndex = Attempt - 1]
                 ELSE Recorded[x]
    <3> DEFINE a == Attempt
    <3>1. a \in 1..(Len(RetryDelays) + 1) /\ journal \in Logs
      BY <1>1, <2>2
    <3> HIDE DEF a
    <3>2. \E p \in Projection :
            /\ LogAttempt(journal, current, a) = Append(journal, p)
            /\ DOMAIN p.commands = DOMAIN Rebuilt(journal).commands
            /\ \A x \in DOMAIN p.commands :
                 p.commands[x] =
                   IF x = current /\ Rebuilt(journal).commands[x].retryIndex < a - 1
                   THEN [Rebuilt(journal).commands[x] EXCEPT !.retryIndex = a - 1]
                   ELSE Rebuilt(journal).commands[x]
      BY <3>1, LogAttemptProperties
    <3> QED
      BY <3>2, Zenon DEF Recorded, a
  <2>4. \A x \in DOMAIN Recorded : Recorded[x] \in Command
    BY <1>1, RecordedType, MapElim
  <2>5. \A x \in DOMAIN p.commands : /\ p.commands[x].target = Recorded[x].target
                                     /\ p.commands[x].status = Recorded[x].status
    BY <2>3, <2>4 DEF Command
  <2>6. Evolves(Recorded, p.commands)
    BY <2>3, <2>5 DEF Evolves, Follows
  <2>7. LogEvolves(journal, Append(journal, p)) /\ Append(journal, p) \in Logs
    BY <1>1, <2>6, LogEvolvesAppend, AppendedProperties DEF Recorded
  <2>8. LogEvolves(journal, journal')
    BY <2>1, <2>3, <2>7, LogEvolvesFlushed, LogEvolvesTrans
  <2> QED
    BY <2>1, <2>8, EvolvesSelf
<1>11. ASSUME pc = "await"
       PROVE  /\ current \in DOMAIN commands /\ pc # "attempt"
              /\ commands[current].status = "Pending"
  BY <1>11 DEF DispatchIsDue, TypeInv, CurrentIsRetained
<1>12. {"Rejected", "Failed", "Indeterminate", "TimedOut"}
         \subseteq Statuses \ {"Pending"}
  BY DEF Statuses
<1>13. ASSUME pc = "await", NEW status \in Statuses \ {"Pending"},
              Transition(current, status)
       PROVE  Goal
  BY <1>1, <1>11, <1>13, TransitionEvolves DEF Active
<1>14. CASE DispatchRefused \/ DispatchThrows
  BY <1>2, <1>12, <1>13, <1>14
     DEF DispatchRefused, DispatchThrows, DispatchReturns, outbox
<1>15. CASE DispatchReported
  <2>1. pc = "await"
    BY <1>15 DEF DispatchReported, DispatchReturns
  <2>2. {current} \in SUBSET CommandIds
    BY <1>1, <1>11, <2>1, MapElim
  <2>3. PICK r \in ReportsOf({current}) :
          \/ ApplyReport(r)
          \/ UNCHANGED <<commands, journal>>
          \/ Transition(current, "Indeterminate")
    BY <1>15 DEF DispatchReported, outbox
  <2>4. r \in Report /\ Genuine(r)
    BY <1>1, <2>2, ReportsOfType, ReportsOfGenuine
  <2> QED
    BY <1>2, <1>12, <1>13, <2>1, <2>3, <2>4 DEF Reported
<1>16. ASSUME NEW id \in DOMAIN commands, TimeOut(id) PROVE Goal
  <2>1. pc # "attempt" /\ Transition(id, "TimedOut")
    BY <1>16 DEF TimeOut, Visits, AllIssued
  <2> QED
    BY <1>1, <1>12, <2>1, TransitionEvolves
<1>17. ASSUME NEW id \in DOMAIN commands, Retry(id) PROVE Goal
  <2>1. /\ DOMAIN commands' = DOMAIN commands
        /\ commands' = [x \in DOMAIN commands |->
             IF x = id
             THEN [commands[x] EXCEPT !.retryIndex = commands[x].retryIndex + 1]
             ELSE commands[x]]
    BY <1>17, RetryType
  <2>2. \A x \in DOMAIN commands : commands[x] \in Command
    BY <1>1, MapElim
  <2>3. \A x \in DOMAIN commands : /\ commands'[x].target = commands[x].target
                                   /\ commands'[x].status = commands[x].status
    BY <2>1, <2>2 DEF Command
  <2>4. Evolves(commands, commands')
    BY <2>1, <2>3 DEF Evolves, Follows
  <2> QED
    BY <1>17, <2>4, LogEvolvesSelf DEF Retry
<1>18. CASE CompleteFrame
  <2>1. Evolves(commands, commands')
    BY <1>1, <1>18, EvolvesSelf, PruneEvolves DEF CompleteFrame
  <2> QED
    BY <1>3, <1>18, <2>1 DEF CompleteFrame
<1> QED
  BY <1>4, <1>5, <1>6, <1>7, <1>8, <1>9, <1>10, <1>14, <1>15, <1>16, <1>17, <1>18
     DEF Frame

\* The host's calls let the commands evolve, and a restart starts from commands
\* of the log.
LEMMA HostEvolves ==
  ASSUME TypeInv, RecoveryInv, Host
  PROVE  /\ LogEvolves(journal, journal')
         /\ \/ Evolves(commands, commands')
            \/ \E k \in 1..Len(journal) :
                 Restart(k) /\ Evolves(journal[k].commands, commands')
<1> DEFINE Goal == Evolves(commands, commands') /\ LogEvolves(journal, journal')
<1>1. journal \in Logs /\ commands \in CommandMaps /\ Recorded \in CommandMaps
      /\ TypeOK
  BY RecordedType DEF TypeInv
<1>2. ASSUME NEW route \in Routes, RegisterAdapter(route) PROVE Goal
  <2>1. \A id \in Uncertain(route) : id \in DOMAIN commands
                                     /\ Active(commands[id].status)
    BY DEF Uncertain, Active
  <2>2. Evolves(commands, commands')
    BY <1>1, <1>2, <2>1, RegisterAdapterLog, EvolvesMarked
  <2>3. ASSUME NEW p \in Projection, journal' = <<p>>,
               p.commands = Marked(Recorded, Uncertain(route))
        PROVE  LogEvolves(journal, journal')
    <3>1. Agree(commands, Recorded)
      BY <1>2 DEF RegisterAdapter, RecoveryInv, CommandsRecorded
    <3>2. \A id \in Uncertain(route) \cap DOMAIN Recorded : Active(Recorded[id].status)
      BY <2>1, <3>1 DEF Agree
    <3>3. Evolves(Recorded, p.commands)
      BY <1>1, <2>3, <3>2, EvolvesMarked
    <3>4. Recorded = journal[Len(journal)].commands /\ Len(journal) \in 1..Len(journal)
      BY <1>1, LogProperties DEF Recorded, Rebuilt
    <3>5. \A n \in 1..Len(journal') : journal'[n] = p
      BY <2>3
    <3> QED
      BY <3>3, <3>4, <3>5 DEF LogEvolves
  <2> QED
    BY <1>1, <1>2, <2>2, <2>3, RegisterAdapterLog, LogEvolvesSelf DEF Recorded
<1>3. ASSUME NEW t \in Targets, Reconcile(t) PROVE Goal
  <2> DEFINE id == latestByTarget[t]
             value == device[t][Len(device[t])]
             status == IF commands[id].desired = value THEN "Applied" ELSE "Failed"
             revision == IF observedRevisions[t] = 0 THEN id
                         ELSE observedRevisions[t] + 1
  <2>1. /\ commands' = SetStatus(commands, id, status)
        /\ CommitAuthoritative(LogStatus(journal, id, status), t, value, revision)
    BY <1>3 DEF Reconcile
  <2>2. value \in Values
    <3>1. device[t] \in Seq(Values) /\ device[t] # <<>>
      BY <1>1 DEF TypeOK
    <3> QED
      BY <3>1, LenProperties, EmptySeq, ElementOfSeq
  <2>3. revision \in Nat /\ status \in Statuses \ {"Pending"}
        /\ status # "Indeterminate"
    BY <1>1, BoundAssumption DEF TypeOK, Statuses
  <2> HIDE DEF value, status, revision, id
  <2>4. Evolves(commands, SetStatus(commands, id, status))
    BY <1>1, <2>3, EvolvesStatus
  <2>5. /\ LogStatus(journal, id, status) \in Logs
        /\ LogEvolves(journal, LogStatus(journal, id, status))
    BY <1>1, <2>3, RebuiltStatus, LogEvolvesStatus
  <2>6. LogEvolves(LogStatus(journal, id, status), journal')
    BY <2>1, <2>2, <2>3, <2>5, LogEvolvesObserved DEF CommitAuthoritative
  <2> QED
    BY <2>1, <2>4, <2>5, <2>6, LogEvolvesTrans
<1>4. CASE ReconcileFlush \/ Checkpoint
  BY <1>1, <1>4, EvolvesSelf, LogEvolvesFlushed DEF ReconcileFlush, Checkpoint, outbox
<1>5. ASSUME NEW k \in 1..Len(journal), Restart(k)
      PROVE  Evolves(journal[k].commands, commands') /\ LogEvolves(journal, journal')
  <2>1. journal' = SubSeq(journal, 1, k)
    BY <1>5 DEF Restart
  <2>2. PICK S : commands' = Without(journal[k].commands, S)
    BY <1>5 DEF Restart
  <2>3. journal[k].commands \in CommandMaps
    BY <1>1, LogProperties DEF Projection
  <2>4. Evolves(journal[k].commands, commands')
    BY <2>2, <2>3, EvolvesWithout
  <2> QED
    BY <1>1, <2>1, <2>4, LogEvolvesPrefix
<1> QED
  BY <1>2, <1>3, <1>4, <1>5 DEF Host

-----------------------------------------------------------------------------
(* The observed revision only advances *)

Advances ==
  \A t \in Targets :
    \/ observedRevisions'[t] > observedRevisions[t]
    \/ /\ observedRevisions'[t] = observedRevisions[t]
       /\ observed'[t] = observed[t]

LEMMA CommitAdvances ==
  ASSUME TypeOK, NEW t \in Targets, NEW j, NEW value, NEW revision,
         observedRevisions[t] < revision,
         CommitAuthoritative(j, t, value, revision)
  PROVE  Advances
BY DEF TypeOK, CommitAuthoritative, Advances

LEMMA ReportAdvances ==
  ASSUME TypeOK, NEW r, ApplyReport(r)
  PROVE  Advances
<1>1. CASE UNCHANGED mirror
  BY <1>1 DEF Advances, mirror
<1>2. CASE ~Acceptable(r)
  BY <1>1, <1>2 DEF ApplyReport
<1>3. CASE Acceptable(r)
  <2> DEFINE t == commands[r.command].target
  <2>1. t \in Targets
    BY <1>3, MapElim DEF Acceptable, TypeOK, Command
  <2>2. \/ UNCHANGED mirror
        \/ /\ observedRevisions[t] < r.revision
           /\ \E j : CommitAuthoritative(j, t, r.value, r.revision)
    BY <1>3 DEF ApplyReport
  <2> HIDE DEF t
  <2> QED
    BY <1>1, <2>1, <2>2, CommitAdvances
<1> QED
  BY <1>2, <1>3

\* Within one run of the process the observed revision of a target never goes
\* back, and its value changes only together with it: not by a late report,
\* an old observation or a reconciliation.
THEOREM ObservationAdvances == Spec => ObservedAdvances
<1>1. TypeInv /\ [Next]_vars => [restarts' = restarts => Advances]_vars
  <2> SUFFICES ASSUME TypeInv, Next, restarts' = restarts PROVE Advances
    OBVIOUS
  <2>1. TypeOK /\ restarts \in Nat
    BY BoundAssumption DEF TypeInv, TypeOK
  <2>2. CASE UNCHANGED mirror
    BY <2>2 DEF Advances, mirror
  <2>3. CASE ReceiveObservation
    <3>1. PICK t \in Targets : \E revision \in 1..Len(device[t]) :
            ApplyObservation(t, device[t][revision], revision)
      BY <2>3 DEF ReceiveObservation
    <3>2. PICK revision \in 1..Len(device[t]) :
            ApplyObservation(t, device[t][revision], revision)
      BY <3>1
    <3> QED
      BY <2>1, <2>2, <3>2, CommitAdvances DEF ApplyObservation
  <2>4. CASE Frame
    BY <2>1, <2>2, <2>3, <2>4, ReportAdvances
       DEF Frame, BeginFrame, ReceiveDeferred, ReceiveReport, ReportsDrained,
           RunPhases, FrameThrows, ClearDesire, IssueUnneeded, IssueAlreadyObserved,
           Issue, IssueThrows, RecordAttempt, AdapterReceives, DispatchRefused,
           DispatchThrows, DispatchAccepted, DispatchReported, TimeOut, Retry,
           CompleteFrame
  <2>5. ASSUME NEW t \in Targets, Reconcile(t) PROVE Advances
    <3> DEFINE id == latestByTarget[t]
               revision == IF observedRevisions[t] = 0 THEN id
                           ELSE observedRevisions[t] + 1
    <3>1. id # 0 /\ \E j, v : CommitAuthoritative(j, t, v, revision)
      BY <2>5 DEF Reconcile
    <3>2. observedRevisions[t] < revision
      BY <2>1, <3>1, BoundAssumption DEF TypeOK
    <3> HIDE DEF revision
    <3> QED
      BY <2>1, <3>1, <3>2, CommitAdvances
  <2>6. CASE Host
    BY <2>1, <2>2, <2>5, <2>6 DEF Host, RegisterAdapter, ReconcileFlush, Checkpoint,
                                  Restart
  <2>7. CASE Environment
    BY <2>2, <2>7 DEF Environment, DeviceExecutes, AdapterLosesTrack, DeviceChanges
  <2> QED
    BY <2>4, <2>6, <2>7 DEF Next
<1> QED
  BY <1>1, InitType, TypeStep, PTL DEF Spec, ObservedAdvances, Advances

-----------------------------------------------------------------------------
(* No blind redispatch *)

\* issue() gets effects of registered routes only.
DesiresRouted == \A t \in Targets : desires[t] \in Values => RouteOf[t] \in adapters

EpochsPast == \A s \in sent : s.epoch <= restarts

\* Once its route is registered again, a command an earlier runtime delivered
\* to an adapter without native idempotency is not pending any more.
NotResumed ==
  \A s \in sent :
    /\ RouteOf[s.target] \in adapters \ NativeIdempotency
    /\ s.epoch < restarts
    /\ s.command \in DOMAIN commands
    => commands[s.command].status # "Pending"

RedispatchInv == /\ GenuineReports /\ DispatchIsDue /\ DesiresRouted
                 /\ EpochsPast /\ NotResumed /\ NoBlindRedispatch

LEMMA GenuineReportsStep ==
  ASSUME TypeInv, GenuineReports, [Next]_vars
  PROVE  GenuineReports'
<1>1. deferred \in Seq(Report)
  BY DEF TypeInv, TypeOK
<1>2. ASSUME UNCHANGED <<deferred, evidence>> PROVE GenuineReports'
  BY <1>2 DEF GenuineReports, Genuine, LostTrack
<1>3. CASE ReceiveDeferred
  <2>1. /\ deferred # <<>> /\ deferred' = Tail(deferred) /\ evidence' = evidence
    BY <1>3 DEF ReceiveDeferred, outside
  <2>2. \A i \in DOMAIN Tail(deferred) :
          i + 1 \in DOMAIN deferred /\ Tail(deferred)[i] = deferred[i + 1]
    BY <1>1, <2>1, HeadTailProperties, LenProperties, EmptySeq
  <2> QED
    BY <2>1, <2>2 DEF GenuineReports, Genuine, LostTrack
<1>4. CASE DispatchReported
  <2>1. evidence' = evidence
    BY <1>4 DEF DispatchReported, DispatchReturns, outside
  <2>2. PICK r \in ReportsOf({current}) :
          deferred' = deferred \/ deferred' = Append(deferred, r)
    BY <1>4 DEF DispatchReported
  <2>3. Genuine(r)
    BY ReportsOfGenuine
  <2>4. CASE deferred' = Append(deferred, r)
    <3>1. pc = "await"
      BY <1>4 DEF DispatchReported, DispatchReturns
    <3>2. {current} \in SUBSET CommandIds
      BY <3>1, MapElim DEF TypeInv, TypeOK, CurrentIsRetained
    <3>3. r \in Report
      BY <3>2, ReportsOfType DEF TypeInv
    <3>4. \A i \in DOMAIN Append(deferred, r) :
            \/ i \in DOMAIN deferred /\ Append(deferred, r)[i] = deferred[i]
            \/ Append(deferred, r)[i] = r
      BY <1>1, <3>3, AppendProperties, LenProperties
    <3> QED
      BY <2>1, <2>3, <2>4, <3>4 DEF GenuineReports, Genuine, LostTrack
  <2> QED
    BY <1>2, <2>1, <2>2, <2>4
<1>5. CASE Frame
  BY <1>2, <1>3, <1>4, <1>5
     DEF Frame, BeginFrame, ReceiveReport, ReportsDrained, ReceiveObservation,
         RunPhases, FrameThrows, ClearDesire, IssueUnneeded, IssueAlreadyObserved,
         Issue, IssueThrows, RecordAttempt, AdapterReceives, DispatchRefused,
         DispatchThrows, DispatchAccepted, DispatchReturns, TimeOut, Retry,
         CompleteFrame, staging, outside
<1>6. CASE Host
  <2>1. ASSUME NEW k \in 1..Len(journal), Restart(k) PROVE GenuineReports'
    BY <2>1 DEF Restart, GenuineReports, Genuine, LostTrack
  <2> QED
    BY <1>2, <1>6, <2>1
       DEF Host, RegisterAdapter, Reconcile, ReconcileFlush, Checkpoint, staging, outside
<1>7. CASE Environment
  <2>1. ASSUME NEW e, e.status \in {"Applied", "Indeterminate"}, deferred' = deferred,
               evidence' = evidence \cup {e}
        PROVE  GenuineReports'
    BY <2>1 DEF GenuineReports, Genuine, LostTrack
  <2>2. ASSUME NEW s \in sent, DeviceExecutes(s) PROVE GenuineReports'
    <3> DEFINE e == [command |-> s.command, status |-> "Applied", value |-> s.value,
                     revision |-> Len(device[s.target]) + 1]
    <3>1. e.status = "Applied" /\ evidence' = evidence \cup {e} /\ deferred' = deferred
      BY <2>2 DEF DeviceExecutes, staging
    <3> HIDE DEF e
    <3> QED
      BY <2>1, <3>1
  <2>3. ASSUME NEW s \in sent, AdapterLosesTrack(s) PROVE GenuineReports'
    <3> DEFINE e == [command |-> s.command, status |-> "Indeterminate",
                     value |-> NoValue, revision |-> s.command]
    <3>1. /\ e.status = "Indeterminate" /\ evidence' = evidence \cup {e}
          /\ deferred' = deferred
      BY <2>3 DEF AdapterLosesTrack, staging
    <3> HIDE DEF e
    <3> QED
      BY <2>1, <3>1
  <2> QED
    BY <1>2, <1>7, <2>2, <2>3 DEF Environment, DeviceChanges, staging
<1>8. CASE UNCHANGED vars
  BY <1>2, <1>8 DEF vars, staging, outside
<1> QED
  BY <1>5, <1>6, <1>7, <1>8 DEF Next

LEMMA DesiresRoutedStep ==
  ASSUME TypeInv, DesiresRouted, [Next]_vars
  PROVE  DesiresRouted'
<1>1. NoValue \notin Values
  BY ValueAssumption
<1>2. ASSUME UNCHANGED <<desires, adapters>> PROVE DesiresRouted'
  BY <1>2 DEF DesiresRouted
<1>3. ASSUME desires' = NoDesires PROVE DesiresRouted'
  BY <1>1, <1>3 DEF DesiresRouted, NoDesires
<1>4. CASE RunPhases
  BY <1>4 DEF RunPhases, DesiresRouted, staging
<1>5. ASSUME NEW t \in Targets, desires' = [desires EXCEPT ![t] = NoValue],
             adapters' = adapters
      PROVE  DesiresRouted'
  BY <1>1, <1>5 DEF DesiresRouted, TypeInv, TypeOK
<1>6. CASE Frame
  <2>1. ASSUME NEW t \in Targets,
               ClearDesire(t) \/ IssueUnneeded(t) \/ IssueAlreadyObserved(t)
               \/ Issue(t) \/ IssueThrows(t)
        PROVE  DesiresRouted'
    BY <1>3, <1>5, <2>1 DEF ClearDesire, IssueUnneeded, IssueAlreadyObserved, Issue,
                            IssueThrows, FailFrame, staging
  <2> QED
    BY <1>2, <1>3, <1>4, <1>6, <2>1
       DEF Frame, BeginFrame, ReceiveDeferred, ReceiveReport, ReportsDrained,
           ReceiveObservation, FrameThrows, FailFrame, RecordAttempt, AdapterReceives,
           DispatchRefused, DispatchThrows, DispatchAccepted, DispatchReported,
           DispatchReturns, TimeOut, Retry, CompleteFrame, staging, frame
<1>7. CASE Host
  BY <1>2, <1>3, <1>7 DEF Host, RegisterAdapter, Reconcile, ReconcileFlush, Checkpoint,
                          Restart, staging, frame, DesiresRouted
<1>8. CASE Environment \/ UNCHANGED vars
  BY <1>2, <1>8 DEF Environment, DeviceExecutes, AdapterLosesTrack, DeviceChanges, vars, staging, frame
<1> QED
  BY <1>6, <1>7, <1>8 DEF Next

LEMMA DispatchIsDueStep ==
  ASSUME TypeInv, DesiresRouted, DispatchIsDue, [Next]_vars
  PROVE  DispatchIsDue'
<1>1. commands \in CommandMaps
  BY DEF TypeInv, TypeOK
<1>2. ASSUME pc' \notin {"attempt", "call", "await"} PROVE DispatchIsDue'
  BY <1>2 DEF DispatchIsDue
<1>3. ASSUME UNCHANGED <<commands, nextCommand, cursor, adapters>>,
             pc' \in {"attempt", "call", "await"} =>
               pc \in {"attempt", "call", "await"}
      PROVE  DispatchIsDue'
  BY <1>3 DEF DispatchIsDue, current
<1>4. ASSUME NEW t \in Targets, Issue(t) PROVE DispatchIsDue'
  <2> DEFINE rest == Without(SupersededCommands(t),
                             Pruned(SupersededCommands(t), SupersededOrder(t),
                                    MaxRetainedCommands - 1))
             command == [target |-> t, desired |-> desires[t], issuedAt |-> now,
                         status |-> "Pending", retryIndex |-> 0]
  <2>1. /\ desires[t] # NoValue /\ desires[t] # Cleared
        /\ nextCommand \in CommandIds /\ nextCommand' = nextCommand + 1
        /\ cursor' = cursor /\ adapters' = adapters
        /\ desires # NoDesires
        /\ commands' = Put(rest, nextCommand, command)
    BY <1>4 DEF Issue, Issuing, CanIssue, staging, NoDesires
  <2>2. current' = nextCommand
    BY <2>1, CommandIdsProperties DEF TypeInv, CursorAfterIssuing, current
  <2> HIDE DEF rest
  <2>3. commands'[nextCommand] = command
    BY <2>1 DEF Put
  <2>4. RouteOf[t] \in adapters
    BY <2>1 DEF DesiresRouted, TypeInv, TypeOK
  <2> QED
    BY <2>1, <2>2, <2>3, <2>4 DEF DispatchIsDue
<1>5. ASSUME NEW id \in DOMAIN commands, Retry(id) PROVE DispatchIsDue'
  <2>1. /\ cursor' = id /\ adapters' = adapters
        /\ commands[id].status = "Pending"
        /\ RouteOf[commands[id].target] \in adapters
    BY <1>5 DEF Retry, Visits, Ready, staging
  <2>2. id # 0 /\ commands[id] \in Command
    BY <1>1, MapElim, BoundAssumption DEF CommandIds
  <2>3. commands'[id] =
          [commands[id] EXCEPT !.retryIndex = commands[id].retryIndex + 1]
    BY <1>5, RetryType
  <2>4. commands'[id].status = "Pending" /\ commands'[id].target = commands[id].target
    BY <2>1, <2>2, <2>3 DEF Command
  <2> QED
    BY <2>1, <2>2, <2>4 DEF DispatchIsDue, current
<1>6. CASE RecordAttempt \/ AdapterReceives
  BY <1>3, <1>6 DEF RecordAttempt, AdapterReceives, outbox, staging
<1>7. CASE Frame
  <2>1. ASSUME NEW t \in Targets,
               ClearDesire(t) \/ IssueUnneeded(t) \/ IssueAlreadyObserved(t)
               \/ IssueThrows(t)
        PROVE  DispatchIsDue'
    BY <1>2, <2>1 DEF ClearDesire, IssueUnneeded, IssueAlreadyObserved, IssueThrows,
                      Issuing, FailFrame
  <2>2. ASSUME NEW id \in DOMAIN commands, TimeOut(id) PROVE DispatchIsDue'
    BY <1>2, <2>2 DEF TimeOut, Visits, AllIssued
  <2> QED
    BY <1>2, <1>4, <1>5, <1>6, <1>7, <2>1, <2>2
       DEF Frame, BeginFrame, ReceiveDeferred, ReceiveReport, ReportsDrained,
           ReceiveObservation, RunPhases, FrameThrows, FailFrame,
           DispatchRefused, DispatchThrows, DispatchAccepted, DispatchReported,
           DispatchReturns, CompleteFrame, frame
<1>8. CASE Host
  BY <1>2, <1>8 DEF Host, RegisterAdapter, Reconcile, ReconcileFlush, Checkpoint,
                    Restart, frame
<1>9. CASE Environment \/ UNCHANGED vars
  BY <1>3, <1>9 DEF Environment, DeviceExecutes, AdapterLosesTrack, DeviceChanges, vars, outbox, staging,
                    frame
<1> QED
  BY <1>7, <1>8, <1>9 DEF Next

\* Every delivered command is recorded, with its target.
LEMMA DeliveredRecorded ==
  ASSUME TypeInv, RecoveryInv, WriteAheadInv, NEW s \in sent
  PROVE  /\ s.command \in DOMAIN Recorded /\ s.command < nextCommand
         /\ Recorded[s.command].target = s.target
         /\ s.command \in DOMAIN commands => commands[s.command].target = s.target
<1>1. journal \in Logs /\ commands \in CommandMaps /\ Recorded \in CommandMaps
  BY RecordedType DEF TypeInv
<1>2. Len(journal) \in 1..Len(journal) /\ Recorded = journal[Len(journal)].commands
  BY <1>1, LogProperties DEF Recorded, Rebuilt
<1>3. /\ s.command \in DOMAIN Recorded /\ s.command < nextCommand
      /\ Recorded[s.command].target = s.target
  BY <1>2 DEF WriteAheadInv, DurableIn, Holds, RecoveryInv, IdsRecorded
<1>4. ASSUME s.command \in DOMAIN commands
      PROVE  commands[s.command].target = Recorded[s.command].target
  <2>1. Recorded[s.command] \in Command
    BY <1>1, <1>3, MapElim
  <2>2. \/ commands[s.command] = Recorded[s.command]
        \/ commands[s.command] =
             [Recorded[s.command] EXCEPT !.retryIndex = Recorded[s.command].retryIndex + 1]
    BY <1>4 DEF RecoveryInv, CommandsRecorded, Agree, AgreeButFor
  <2> QED
    BY <2>1, <2>2 DEF Command
<1> QED
  BY <1>3, <1>4

\* Issuing replaces the commands by evolved ones and a new one.
LEMMA IssueEvolves ==
  ASSUME TypeInv, NEW t \in Targets, Issue(t)
  PROVE  \E rest \in CommandMaps, c \in Command :
           /\ Evolves(commands, rest)
           /\ commands' = Put(rest, nextCommand, c)
           /\ nextCommand \in CommandIds
           /\ c.target = t /\ c.status = "Pending"
           /\ journal' = LogCommand(SupersededJournal(t), nextCommand, c)
<1> DEFINE cmds == SupersededCommands(t)
           gone == Pruned(cmds, SupersededOrder(t), MaxRetainedCommands - 1)
           rest == Without(cmds, gone)
           c == [target |-> t, desired |-> desires[t], issuedAt |-> now,
                 status |-> "Pending", retryIndex |-> 0]
<1>1. /\ desires[t] # NoValue /\ desires[t] # Cleared
      /\ nextCommand \in CommandIds
      /\ commands' = Put(rest, nextCommand, c)
      /\ journal' = LogCommand(SupersededJournal(t), nextCommand, c)
  BY DEF Issue, Issuing, CanIssue
<1>2. c \in Command
  BY <1>1, PolicyAssumption DEF Command, Statuses, TypeInv, TypeOK
<1>3. cmds \in CommandMaps /\ Evolves(commands, cmds)
  BY SupersededType, SupersededEvolves DEF TypeInv
<1> HIDE DEF cmds, gone
<1>4. rest \in CommandMaps /\ Evolves(commands, rest)
  BY <1>3, WithoutProperties, EvolvesWithout, EvolvesTrans
<1>5. c.target = t /\ c.status = "Pending"
  OBVIOUS
<1> HIDE DEF rest, c
<1> QED
  BY <1>1, <1>2, <1>4, <1>5

LEMMA NotResumedStep ==
  ASSUME TypeInv, RecoveryInv, WriteAheadInv, RedispatchInv, [Next]_vars
  PROVE  NotResumed'
<1>1. GenuineReports /\ DispatchIsDue /\ NotResumed
  BY DEF RedispatchInv
<1>2. ASSUME UNCHANGED <<sent, restarts, adapters>>, Follows(commands, commands')
      PROVE  NotResumed'
  BY <1>1, <1>2 DEF NotResumed, Follows
<1>3. ASSUME NEW t \in Targets, Issue(t) PROVE NotResumed'
  <2>1. PICK rest \in CommandMaps, c \in Command :
          /\ Evolves(commands, rest)
          /\ commands' = Put(rest, nextCommand, c)
          /\ nextCommand \in CommandIds
    BY <1>3, IssueEvolves
  <2>2. /\ DOMAIN commands' = DOMAIN rest \cup {nextCommand}
        /\ \A x \in DOMAIN rest : x # nextCommand => commands'[x] = rest[x]
    BY <2>1, PutProperties
  <2>3. \A s \in sent : s.command # nextCommand
    <3>1. \A s \in sent : s.command < nextCommand
      BY DeliveredRecorded
    <3> QED
      BY <2>1, <3>1, CommandIdsProperties
  <2>4. UNCHANGED <<sent, restarts, adapters>>
    BY <1>3 DEF Issue, staging, outside
  <2> QED
    BY <1>1, <2>1, <2>2, <2>3, <2>4 DEF NotResumed, Evolves, Follows
<1>4. CASE AdapterReceives
  <2>1. /\ UNCHANGED <<commands, restarts, adapters>>
        /\ \A s \in sent' : s \in sent \/ s.epoch = restarts
    BY <1>4 DEF AdapterReceives, outbox, staging
  <2>2. restarts \in Nat
    BY BoundAssumption DEF TypeInv, TypeOK
  <2> QED
    BY <1>1, <2>1, <2>2 DEF NotResumed
<1>5. CASE Frame
  <2>1. CASE \E t \in Targets : Issue(t)
    BY <1>3, <2>1
  <2>2. CASE ~AdapterReceives /\ Follows(commands, commands')
    <3>1. UNCHANGED <<sent, restarts, adapters>>
      BY <1>5, <2>2
         DEF Frame, BeginFrame, ReceiveDeferred, ReceiveReport, ReportsDrained,
             ReceiveObservation, RunPhases, FrameThrows, ClearDesire, IssueUnneeded,
             IssueAlreadyObserved, Issue, IssueThrows, RecordAttempt, DispatchRefused,
             DispatchThrows, DispatchAccepted, DispatchReported, DispatchReturns,
             TimeOut, Retry, CompleteFrame, staging, outside
    <3> QED
      BY <1>2, <2>2, <3>1
  <2> QED
    BY <1>1, <1>4, <1>5, <2>1, <2>2, FrameEvolves, ReportEvolves
       DEF Reported, Evolves, TypeInv
<1>6. ASSUME NEW route \in Routes, RegisterAdapter(route) PROVE NotResumed'
  <2>1. /\ UNCHANGED <<sent, restarts>> /\ adapters' = adapters \cup {route}
        /\ commands' = Marked(commands, Uncertain(route))
    BY <1>6, RegisterAdapterLog DEF RegisterAdapter, outside, TypeInv
  <2>2. \A id \in DOMAIN commands : commands[id] \in Command
    BY MapElim DEF TypeInv, TypeOK
  <2>3. /\ DOMAIN commands' = DOMAIN commands
        /\ \A id \in DOMAIN commands :
             commands'[id].status = IF id \in Uncertain(route) THEN "Indeterminate"
                                    ELSE commands[id].status
    BY <2>1, <2>2 DEF Marked, Command
  <2>4. ASSUME NEW s \in sent, RouteOf[s.target] = route,
               route \notin NativeIdempotency, s.command \in DOMAIN commands
        PROVE  commands'[s.command].status # "Pending"
    BY <2>3, <2>4, DeliveredRecorded DEF Uncertain
  <2> QED
    BY <1>1, <2>1, <2>3, <2>4 DEF NotResumed
<1>7. CASE Host
  <2>1. ASSUME NEW k \in 1..Len(journal), Restart(k) PROVE NotResumed'
    BY <2>1 DEF Restart, NotResumed
  <2>2. ASSUME Evolves(commands, commands'),
               (\E t \in Targets : Reconcile(t)) \/ ReconcileFlush \/ Checkpoint
        PROVE  NotResumed'
    BY <1>2, <2>2 DEF Reconcile, ReconcileFlush, Checkpoint, staging, outside, Evolves
  <2> QED
    BY <1>6, <1>7, <2>1, <2>2, HostEvolves DEF Host
<1>8. CASE Environment \/ UNCHANGED vars
  <2>1. UNCHANGED <<sent, restarts, adapters, commands>>
    BY <1>8 DEF Environment, DeviceExecutes, AdapterLosesTrack, DeviceChanges, vars, outbox, staging, outside
  <2> QED
    BY <1>2, <2>1, EvolvesSelf DEF Evolves
<1> QED
  BY <1>5, <1>7, <1>8 DEF Next

LEMMA NoBlindRedispatchStep ==
  ASSUME TypeInv, RecoveryInv, WriteAheadInv, RedispatchInv, [Next]_vars
  PROVE  EpochsPast' /\ NoBlindRedispatch'
<1>1. DispatchIsDue /\ NotResumed /\ EpochsPast /\ NoBlindRedispatch
  BY DEF RedispatchInv
<1>2. restarts \in Nat /\ \A s \in sent : s.epoch \in Nat
  BY BoundAssumption DEF TypeInv, TypeOK, Delivery
<1>3. CASE AdapterReceives
  <2> DEFINE d == [command |-> current, attempt |-> Attempt, epoch |-> restarts,
                   target |-> commands[current].target,
                   value |-> commands[current].desired]
  <2>1. /\ sent' = sent \cup {d} /\ pc = "call" /\ restarts' = restarts
    BY <1>3 DEF AdapterReceives
  <2>2. /\ d.command = current /\ d.epoch = restarts
        /\ d.target = commands[current].target
    OBVIOUS
  <2> HIDE DEF d
  <2>3. /\ current \in DOMAIN commands
        /\ commands[current].status = "Pending"
        /\ RouteOf[commands[current].target] \in adapters
    BY <1>1, <2>1 DEF DispatchIsDue, TypeInv, CurrentIsRetained
  <2>4. ASSUME NEW s \in sent, s.command = current,
               RouteOf[s.target] \notin NativeIdempotency
        PROVE  s.epoch = restarts
    <3>1. s.target = commands[current].target
      BY <2>3, <2>4, DeliveredRecorded
    <3>2. ~(s.epoch < restarts) /\ s.epoch <= restarts
      BY <1>1, <2>3, <2>4, <3>1 DEF NotResumed, EpochsPast
    <3> QED
      BY <1>2, <3>2
  <2>5. ASSUME NEW s \in sent, s.command = current PROVE s.target = d.target
    BY <2>2, <2>3, <2>5, DeliveredRecorded
  <2>6. EpochsPast'
    BY <1>1, <1>2, <2>1, <2>2 DEF EpochsPast
  <2>7. NoBlindRedispatch'
    BY <1>1, <2>1, <2>2, <2>4, <2>5 DEF NoBlindRedispatch
  <2> QED
    BY <2>6, <2>7
<1>4. ASSUME sent' = sent, restarts' \in {restarts, restarts + 1}
      PROVE  EpochsPast' /\ NoBlindRedispatch'
  BY <1>1, <1>2, <1>4 DEF EpochsPast, NoBlindRedispatch
<1>5. CASE Frame
  BY <1>3, <1>4, <1>5
     DEF Frame, BeginFrame, ReceiveDeferred, ReceiveReport, ReportsDrained,
         ReceiveObservation, RunPhases, FrameThrows, ClearDesire, IssueUnneeded,
         IssueAlreadyObserved, Issue, IssueThrows, RecordAttempt, DispatchRefused,
         DispatchThrows, DispatchAccepted, DispatchReported, DispatchReturns,
         TimeOut, Retry, CompleteFrame, outside
<1>6. CASE Host
  BY <1>4, <1>6 DEF Host, RegisterAdapter, Reconcile, ReconcileFlush, Checkpoint,
                    Restart, outside
<1>7. CASE Environment \/ UNCHANGED vars
  BY <1>4, <1>7 DEF Environment, DeviceExecutes, AdapterLosesTrack, DeviceChanges, vars, outside
<1> QED
  BY <1>5, <1>6, <1>7 DEF Next

LEMMA RedispatchInit == Init => RedispatchInv
BY ValueAssumption
   DEF Init, RedispatchInv, GenuineReports, DispatchIsDue, DesiresRouted, NoDesires,
       EpochsPast, NotResumed, NoBlindRedispatch

LEMMA RedispatchStep ==
  ASSUME TypeInv, RecoveryInv, WriteAheadInv, RedispatchInv, [Next]_vars
  PROVE  RedispatchInv'
<1>1. GenuineReports' /\ DesiresRouted' /\ DispatchIsDue'
  BY GenuineReportsStep, DesiresRoutedStep, DispatchIsDueStep DEF RedispatchInv
<1> QED
  BY <1>1, NotResumedStep, NoBlindRedispatchStep DEF RedispatchInv

\* A command of a route without native idempotency is delivered by one run of
\* the process only: register_adapter makes what an earlier run may have
\* delivered indeterminate before dispatch() can reach it.
THEOREM RedispatchIsNeverBlind == Spec => []NoBlindRedispatch
<1> DEFINE IInv == TypeInv /\ RecoveryInv /\ WriteAheadInv /\ RedispatchInv
<1>1. Init => IInv
  BY InitType, RecoveryInit, WriteAheadInit, RedispatchInit
<1>2. IInv /\ [Next]_vars => IInv'
  BY TypeStep, RecoveryStep, WriteAheadStep, RedispatchStep
<1>3. IInv => NoBlindRedispatch
  BY DEF RedispatchInv
<1> QED
  BY <1>1, <1>2, <1>3, PTL DEF Spec

-----------------------------------------------------------------------------
(* The active command of a target is its newest *)

OnlyNewestActive(cmds) ==
  \A id, other \in DOMAIN cmds :
    Active(cmds[id].status) /\ cmds[other].target = cmds[id].target =>
      other <= id \/ Disowned(cmds, id)
NewestActiveIn(j) == \A k \in 1..Len(j) : OnlyNewestActive(j[k].commands)

\* retry_due finds every pending command, and reconcile_indeterminate every
\* one the runtime made indeterminate.
LiveIsLatest ==
  \A id \in DOMAIN commands :
    Active(commands[id].status) =>
      latestByTarget[commands[id].target] = id \/ Disowned(commands, id)

ActiveInv == LiveIsLatest /\ NewestActiveIn(journal)

\* The commands g evolved from f, or some became active again by their
\* adapter's own report.
Drifts(f, g) ==
  /\ Follows(f, g)
  /\ \A id \in DOMAIN g :
       Active(g[id].status) => Active(f[id].status) \/ Disowned(g, id)
LogDrifts(j, g) ==
  \A k \in 1..Len(g) : \E n \in 1..Len(j) : Drifts(j[n].commands, g[k].commands)

LEMMA EvolvesDrifts ==
  /\ \A f, g : Evolves(f, g) => Drifts(f, g)
  /\ \A j, g : LogEvolves(j, g) => LogDrifts(j, g)
BY DEF Evolves, Drifts, LogEvolves, LogDrifts

\* A report of the status Indeterminate is the only one that revives a command.
LEMMA ReportDrifts ==
  ASSUME TypeOK, NEW r \in Report, Genuine(r), ApplyReport(r)
  PROVE  Drifts(commands, commands') /\ LogDrifts(journal, journal')
<1> DEFINE id == r.command
           st == r.status
<1>1. journal \in Logs /\ commands \in CommandMaps /\ st \in Statuses \ {"Pending"}
  BY RecordedType DEF Report
<1>2. CASE st # "Indeterminate"
  BY <1>2, ReportEvolves, EvolvesDrifts
<1>3. CASE ~Acceptable(r)
  BY <1>3, EvolvesSelf, LogEvolvesSelf, EvolvesDrifts DEF ApplyReport, outbox
<1>4. CASE st = "Indeterminate" /\ Acceptable(r)
  <2>1. LostTrack(id)
    BY <1>4 DEF Genuine
  <2>2. /\ commands' = SetStatus(commands, id, st) \/ commands' = commands
        /\ journal' = LogStatus(journal, id, st) \/ journal' = journal
    BY <1>4 DEF ApplyReport
  <2>3. ASSUME NEW f \in CommandMaps PROVE Drifts(f, SetStatus(f, id, st))
    <3> DEFINE g == SetStatus(f, id, st)
    <3>1. /\ DOMAIN g = DOMAIN f
          /\ \A x \in DOMAIN f :
               g[x] = IF x = id THEN [f[x] EXCEPT !.status = st] ELSE f[x]
      BY <1>1, SetStatusProperties
    <3>2. \A x \in DOMAIN f : f[x] \in Command
      BY MapElim
    <3>3. Follows(f, g)
      BY <1>1, EvolvesStatus
    <3> HIDE DEF g, id, st
    <3>4. \A x \in DOMAIN f : g[x].status = IF x = id THEN st ELSE f[x].status
      BY <3>1, <3>2 DEF Command
    <3>5. Drifts(f, g)
      BY <1>4, <2>1, <3>1, <3>3, <3>4 DEF Drifts, Disowned
    <3> QED
      BY <3>5 DEF g
  <2>4. LogDrifts(journal, LogStatus(journal, id, st))
    <3>1. PICK p \in Projection :
            /\ LogStatus(journal, id, st) = Append(journal, p)
            /\ p.commands = SetStatus(Rebuilt(journal).commands, id, st)
      BY <1>1, LogStatusProperties
    <3>2. /\ Len(journal) \in Nat \ {0} /\ Rebuilt(journal) = journal[Len(journal)]
          /\ Rebuilt(journal).commands \in CommandMaps
      BY <1>1, LogProperties DEF Rebuilt, Projection
    <3>3. /\ Len(Append(journal, p)) = Len(journal) + 1
          /\ \A k \in 1..Len(journal) : Append(journal, p)[k] = journal[k]
          /\ Append(journal, p)[Len(journal) + 1] = p
      BY <1>1, AppendedProperties, AppendProperties DEF Logs
    <3>4. Drifts(Rebuilt(journal).commands, p.commands)
      BY <2>3, <3>1, <3>2
    <3> DEFINE g == Append(journal, p)
    <3> HIDE DEF g
    <3>5. ASSUME NEW k \in 1..Len(g)
          PROVE  \E n \in 1..Len(journal) : Drifts(journal[n].commands, g[k].commands)
      <4>1. CASE k = Len(journal) + 1
        BY <3>2, <3>3, <3>4, <4>1 DEF g
      <4>2. CASE k \in 1..Len(journal)
        BY <3>3, <4>2, EvolvesSelf, EvolvesDrifts DEF g
      <4> QED
        BY <3>2, <3>3, <4>1, <4>2 DEF g
    <3> QED
      BY <3>1, <3>5 DEF LogDrifts, g
  <2> QED
    BY <1>1, <2>2, <2>3, <2>4, EvolvesSelf, LogEvolvesSelf, EvolvesDrifts
<1> QED
  BY <1>2, <1>3, <1>4

LEMMA LogDriftsNewest ==
  ASSUME NEW j, NEW g, LogDrifts(j, g), NewestActiveIn(j)
  PROVE  NewestActiveIn(g)
<1>1. ASSUME NEW f, NEW h, Drifts(f, h), OnlyNewestActive(f)
      PROVE  OnlyNewestActive(h)
  BY <1>1 DEF Drifts, Follows, OnlyNewestActive, Disowned, Active
<1>2. ASSUME NEW k \in 1..Len(g) PROVE OnlyNewestActive(g[k].commands)
  <2>1. PICK n \in 1..Len(j) : Drifts(j[n].commands, g[k].commands)
    BY <1>2 DEF LogDrifts
  <2> QED
    BY <1>1, <2>1 DEF NewestActiveIn
<1> QED
  BY <1>2 DEF NewestActiveIn

\* What adapters have lost track of stays lost.
LEMMA EvidenceKept ==
  ASSUME [Next]_vars
  PROVE  evidence \subseteq evidence'
<1>1. CASE Frame
  BY <1>1 DEF Frame, BeginFrame, ReceiveDeferred, ReceiveReport, ReportsDrained,
              ReceiveObservation, RunPhases, FrameThrows, ClearDesire, IssueUnneeded,
              IssueAlreadyObserved, Issue, IssueThrows, RecordAttempt, AdapterReceives,
              DispatchRefused, DispatchThrows, DispatchAccepted, DispatchReported,
              DispatchReturns, TimeOut, Retry, CompleteFrame, outside
<1>2. CASE Host
  BY <1>2 DEF Host, RegisterAdapter, Reconcile, ReconcileFlush, Checkpoint, Restart,
              outside
<1>3. CASE Environment
  BY <1>3 DEF Environment, DeviceExecutes, AdapterLosesTrack, DeviceChanges
<1>4. CASE UNCHANGED vars
  BY <1>4 DEF vars, outside
<1> QED
  BY <1>1, <1>2, <1>3, <1>4 DEF Next

LEMMA NewestActiveKept ==
  ASSUME evidence \subseteq evidence', NewestActiveIn(journal')
  PROVE  NewestActiveIn(journal)'
BY DEF NewestActiveIn, OnlyNewestActive, Disowned, LostTrack

LEMMA DriftsLatest ==
  ASSUME LiveIsLatest, Drifts(commands, commands'), evidence \subseteq evidence',
         commands' \in CommandMaps,
         \A t \in Targets : \/ latestByTarget'[t] = latestByTarget[t]
                            \/ latestByTarget[t] \notin DOMAIN commands'
  PROVE  LiveIsLatest'
<1>1. \A id \in DOMAIN commands' : commands'[id].target \in Targets
  BY MapElim DEF Command
<1>2. \A id : LostTrack(id) => LostTrack(id)'
  BY DEF LostTrack
<1> SUFFICES ASSUME NEW id \in DOMAIN commands', Active(commands'[id].status),
                    ~(commands'[id].status = "Indeterminate" /\ LostTrack(id))
             PROVE  latestByTarget'[commands'[id].target] = id
  BY <1>2 DEF LiveIsLatest, Disowned
<1>3. /\ id \in DOMAIN commands /\ Active(commands[id].status)
      /\ commands'[id].target = commands[id].target
      /\ commands'[id].status = "Pending" => commands[id].status = "Pending"
  BY DEF Drifts, Follows, Disowned
<1>4. ~Disowned(commands, id)
  BY <1>3 DEF Disowned, Active
<1> QED
  BY <1>1, <1>3, <1>4 DEF LiveIsLatest

\* Pruning leaves the entries of the retained commands alone.
LEMMA PruneLatest ==
  ASSUME NEW cmds \in CommandMaps, NEW order, NEW limit,
         Prune(cmds, order, latestByTarget, limit)
  PROVE  \A t \in Targets : \/ latestByTarget'[t] = latestByTarget[t]
                            \/ latestByTarget[t] \notin DOMAIN commands'
<1> DEFINE gone == Pruned(cmds, order, limit)
<1>1. /\ commands' = Without(cmds, gone)
      /\ latestByTarget' =
           [t \in Targets |-> IF latestByTarget[t] \in gone THEN 0
                              ELSE latestByTarget[t]]
  BY DEF Prune
<1> HIDE DEF gone
<1>2. DOMAIN commands' = DOMAIN cmds \ gone
  BY <1>1, WithoutProperties
<1> QED
  BY <1>1, <1>2

\* Once issue() has superseded a pending prior command, and was not blocked by
\* an indeterminate one, its target has no active command left but the ones
\* their adapter disowned.
LEMMA NoneLeftActive ==
  ASSUME TypeInv, RecoveryInv, LiveIsLatest, NEW t \in Targets,
         pc = "work", ~Unneeded(t),
         NEW id \in DOMAIN SupersededCommands(t),
         SupersededCommands(t)[id].target = t
  PROVE  \/ ~Active(SupersededCommands(t)[id].status)
         \/ Disowned(SupersededCommands(t), id)
<1> SUFFICES ASSUME Active(SupersededCommands(t)[id].status),
                    ~Disowned(SupersededCommands(t), id)
             PROVE  FALSE
  OBVIOUS
<1>1. commands \in CommandMaps /\ \A x \in DOMAIN commands : commands[x] \in Command
  BY MapElim DEF TypeInv, TypeOK
<1>2. CASE ~PendingLatest(t)
  <2>1. id \in DOMAIN commands /\ latestByTarget[t] = id /\ Active(commands[id].status)
    BY <1>2 DEF SupersededCommands, LiveIsLatest
  <2>2. id # 0
    BY <1>1, <2>1, MapElim, BoundAssumption DEF CommandIds
  <2> QED
    BY <1>2, <2>1, <2>2 DEF PendingLatest, Unneeded, Active
<1>3. CASE PendingLatest(t)
  <2> DEFINE g == SetStatus(commands, latestByTarget[t], "Superseded")
  <2>1. SupersededCommands(t) = g /\ "Superseded" \in Statuses
    BY <1>3 DEF SupersededCommands, Statuses
  <2>2. /\ DOMAIN g = DOMAIN commands
        /\ \A x \in DOMAIN commands :
             g[x] = IF x = latestByTarget[t]
                    THEN [commands[x] EXCEPT !.status = "Superseded"] ELSE commands[x]
    BY <1>1, <2>1, SetStatusProperties
  <2> HIDE DEF g
  <2>3. id \in DOMAIN commands
    BY <2>1, <2>2
  <2>4. CASE id = latestByTarget[t]
    <3>1. g[id].status = "Superseded"
      BY <1>1, <2>2, <2>3, <2>4 DEF Command
    <3> QED
      BY <2>1, <3>1 DEF Active
  <2>5. CASE id # latestByTarget[t]
    <3>1. /\ Active(commands[id].status) /\ commands[id].target = t
          /\ ~Disowned(commands, id)
      BY <2>1, <2>2, <2>3, <2>5 DEF Disowned
    <3> QED
      BY <2>3, <2>5, <3>1 DEF LiveIsLatest
  <2> QED
    BY <2>4, <2>5
<1> QED
  BY <1>2, <1>3

LEMMA ActiveIssue ==
  ASSUME TypeInv, RecoveryInv, ActiveInv, NEW t \in Targets, Issue(t)
  PROVE  ActiveInv'
<1>0. evidence' = evidence
  BY DEF Issue, outside
<1> DEFINE cmds == SupersededCommands(t)
           gone == Pruned(cmds, SupersededOrder(t), MaxRetainedCommands - 1)
           rest == Without(cmds, gone)
           c == [target |-> t, desired |-> desires[t], issuedAt |-> now,
                 status |-> "Pending", retryIndex |-> 0]
           rec == Rebuilt(SupersededJournal(t)).commands
<1>1. /\ pc = "work" /\ ~Unneeded(t) /\ observed[t] # desires[t]
      /\ desires[t] # NoValue /\ desires[t] # Cleared
      /\ nextCommand \in CommandIds
      /\ commands' = Put(rest, nextCommand, c)
      /\ latestByTarget' =
           [u \in Targets |-> IF u = t THEN nextCommand
                              ELSE IF latestByTarget[u] \in gone THEN 0
                              ELSE latestByTarget[u]]
      /\ journal' = LogCommand(SupersededJournal(t), nextCommand, c)
  BY DEF Issue, Issuing, CanIssue
<1>2. c \in Command /\ c.target = t /\ c.status = "Pending"
  BY <1>1, PolicyAssumption DEF Command, Statuses, TypeInv, TypeOK
<1>3. /\ cmds \in CommandMaps /\ Evolves(commands, cmds)
      /\ SupersededJournal(t) \in Logs
      /\ NewestActiveIn(SupersededJournal(t))
  BY SupersededType, SupersededEvolves, EvolvesDrifts, LogDriftsNewest
     DEF TypeInv, ActiveInv
<1>4. /\ rec \in CommandMaps /\ Agree(cmds, rec)
      /\ \A id \in DOMAIN rec : id < nextCommand
  BY <1>1, SupersededRecovers, SupersededIds
<1>5. LiveIsLatest
  BY DEF ActiveInv
<1>6. \A id \in DOMAIN cmds :
        cmds[id].target = t => ~Active(cmds[id].status) \/ Disowned(cmds, id)
  BY <1>1, <1>5, NoneLeftActive
<1>7. \A id \in DOMAIN rec :
        rec[id].target = t => ~Active(rec[id].status) \/ Disowned(rec, id)
  <2> HIDE DEF cmds, rec
  <2> QED
    BY <1>4, <1>6 DEF Agree, Disowned
<1> HIDE DEF cmds, gone, c, rec
<1>8. /\ DOMAIN rest = DOMAIN cmds \ gone
      /\ \A x \in DOMAIN cmds \ gone : rest[x] = cmds[x]
      /\ rest \in CommandMaps
  BY <1>3, WithoutProperties
<1> HIDE DEF rest
<1>9. /\ DOMAIN commands' = DOMAIN rest \cup {nextCommand}
      /\ commands'[nextCommand] = c
      /\ \A x \in DOMAIN rest : x # nextCommand => commands'[x] = rest[x]
  <2>1. rest \in CommandMaps /\ nextCommand \in CommandIds /\ c \in Command
    BY <1>1, <1>2, <1>8
  <2>2. /\ DOMAIN Put(rest, nextCommand, c) = DOMAIN rest \cup {nextCommand}
        /\ Put(rest, nextCommand, c)[nextCommand] = c
        /\ \A x \in DOMAIN rest :
             x # nextCommand => Put(rest, nextCommand, c)[x] = rest[x]
    BY <2>1, PutProperties
  <2> QED
    BY <1>1, <2>2
<1>10. LiveIsLatest'
  <2> SUFFICES ASSUME NEW id \in DOMAIN commands', Active(commands'[id].status),
                      ~Disowned(commands', id)
               PROVE  latestByTarget'[commands'[id].target] = id
    BY <1>0 DEF LiveIsLatest, Disowned, LostTrack
  <2>1. CASE id = nextCommand
    BY <1>1, <1>2, <1>9, <2>1
  <2>2. CASE id # nextCommand
    <3>1. id \in DOMAIN cmds \ gone /\ commands'[id] = cmds[id]
      BY <1>8, <1>9, <2>2
    <3>2. cmds[id].target # t /\ cmds[id].target \in Targets
      BY <1>3, <1>6, <3>1, MapElim DEF Command, Disowned
    <3>3. /\ id \in DOMAIN commands /\ Active(commands[id].status)
          /\ cmds[id].target = commands[id].target
          /\ cmds[id].status = "Pending" => commands[id].status = "Pending"
      BY <1>3, <3>1 DEF Evolves, Follows
    <3>4. ~Disowned(commands, id)
      BY <3>1, <3>3 DEF Disowned, Active
    <3>5. latestByTarget[cmds[id].target] = id
      BY <1>5, <3>3, <3>4 DEF LiveIsLatest
    <3> QED
      BY <1>1, <3>1, <3>2, <3>5
  <2> QED
    BY <2>1, <2>2
<1>11. NewestActiveIn(journal')
  <2> DEFINE j == SupersededJournal(t)
  <2>1. PICK p \in Projection :
          /\ journal' = Append(j, p)
          /\ p.commands = Put(rec, nextCommand, c)
    BY <1>1, <1>2, <1>3, LogCommandProperties DEF rec
  <2> HIDE DEF j
  <2>2. /\ DOMAIN p.commands = DOMAIN rec \cup {nextCommand}
        /\ p.commands[nextCommand] = c
        /\ \A x \in DOMAIN rec : x # nextCommand => p.commands[x] = rec[x]
    <3>1. rec \in CommandMaps /\ nextCommand \in CommandIds /\ c \in Command
      BY <1>1, <1>2, <1>4
    <3>2. /\ DOMAIN Put(rec, nextCommand, c) = DOMAIN rec \cup {nextCommand}
          /\ Put(rec, nextCommand, c)[nextCommand] = c
          /\ \A x \in DOMAIN rec :
               x # nextCommand => Put(rec, nextCommand, c)[x] = rec[x]
      BY <3>1, PutProperties
    <3> QED
      BY <2>1, <3>2
  <2>3. Len(j) \in 1..Len(j) /\ Len(j) \in Nat /\ Rebuilt(j) = j[Len(j)]
    BY <1>3, LogProperties DEF Rebuilt, j
  <2>4. OnlyNewestActive(rec)
    BY <1>3, <2>3 DEF NewestActiveIn, rec, j
  <2>5. nextCommand \in Int /\ \A x \in DOMAIN rec : x \in Int /\ x # nextCommand
    BY <1>1, <1>4, MapElim, CommandIdsProperties
  <2>6. OnlyNewestActive(p.commands)
    <3> SUFFICES ASSUME NEW id \in DOMAIN p.commands, NEW other \in DOMAIN p.commands,
                        Active(p.commands[id].status),
                        p.commands[other].target = p.commands[id].target,
                        ~Disowned(p.commands, id)
                 PROVE  other <= id
      BY DEF OnlyNewestActive
    <3>1. CASE id = nextCommand
      BY <1>4, <2>2, <2>5, <3>1
    <3>2. CASE id # nextCommand
      <4>1. /\ id \in DOMAIN rec /\ p.commands[id] = rec[id] /\ rec[id].target # t
            /\ ~Disowned(rec, id)
        BY <1>7, <2>2, <3>2 DEF Disowned
      <4>2. other \in DOMAIN rec /\ p.commands[other] = rec[other]
        BY <1>2, <2>2, <4>1
      <4> QED
        BY <2>4, <4>1, <4>2 DEF OnlyNewestActive
    <3> QED
      BY <3>1, <3>2
  <2>7. /\ Len(Append(j, p)) = Len(j) + 1
        /\ \A k \in 1..Len(j) : Append(j, p)[k] = j[k]
        /\ Append(j, p)[Len(j) + 1] = p
    BY <1>3, AppendedProperties, AppendProperties DEF Logs, j
  <2>8. ASSUME NEW k \in 1..(Len(j) + 1)
        PROVE  OnlyNewestActive(Append(j, p)[k].commands)
    <3>1. CASE k = Len(j) + 1
      BY <2>6, <2>7, <3>1
    <3>2. CASE k \in 1..Len(j)
      BY <1>3, <2>7, <3>2 DEF NewestActiveIn, j
    <3> QED
      BY <2>3, <3>1, <3>2
  <2> QED
    BY <2>1, <2>7, <2>8 DEF NewestActiveIn
<1> QED
  BY <1>0, <1>10, <1>11, NewestActiveKept DEF ActiveInv

\* restore() rebuilds latestByTarget from the surviving records.
LEMMA ActiveRestart ==
  ASSUME TypeInv, ActiveInv, NEW k \in 1..Len(journal), Restart(k)
  PROVE  LiveIsLatest'
<1>0. evidence' = evidence
  BY DEF Restart
<1> DEFINE f == journal[k].commands
<1>1. PICK order : LET gone == Pruned(f, order, MaxRetainedCommands) IN
        /\ commands' = Without(f, gone)
        /\ latestByTarget' =
             [t \in Targets |-> IF NewestOf(f, t) \in gone THEN 0 ELSE NewestOf(f, t)]
  BY DEF Restart
<1> DEFINE gone == Pruned(f, order, MaxRetainedCommands)
<1>2. f \in CommandMaps
  BY RecordedType, LogProperties DEF TypeInv, Projection
<1>3. OnlyNewestActive(f)
  BY DEF ActiveInv, NewestActiveIn
<1> HIDE DEF f, gone
<1>4. /\ DOMAIN commands' = DOMAIN f \ gone
      /\ \A x \in DOMAIN f \ gone : commands'[x] = f[x]
  BY <1>1, <1>2, WithoutProperties DEF gone
<1> SUFFICES ASSUME NEW id \in DOMAIN commands', Active(commands'[id].status),
                    ~Disowned(commands', id)
             PROVE  latestByTarget'[commands'[id].target] = id
  BY <1>0 DEF LiveIsLatest, Disowned, LostTrack
<1> DEFINE t == f[id].target
           S == {x \in DOMAIN f : f[x].target = t}
<1>5. id \in S /\ id \notin gone /\ t \in Targets /\ Active(f[id].status)
      /\ commands'[id].target = t /\ ~Disowned(f, id)
  BY <1>2, <1>4, MapElim DEF Command, Disowned
<1>6. S \in SUBSET CommandIds /\ S # {}
  BY <1>2, <1>5, MapElim
<1>7. \A x \in S : x <= id
  BY <1>3, <1>5 DEF OnlyNewestActive
<1> HIDE DEF S, t
<1>8. Newest(S) \in S /\ id <= Newest(S)
  BY <1>5, <1>6, NewestProperties
<1>9. Newest(S) = id
  <2>1. Newest(S) <= id /\ id \in CommandIds /\ Newest(S) \in CommandIds
    BY <1>5, <1>6, <1>7, <1>8
  <2> QED
    BY <1>8, <2>1, CommandIdsProperties
<1>10. NewestOf(f, t) = id
  BY <1>9 DEF NewestOf, S
<1> QED
  BY <1>1, <1>5, <1>10 DEF gone

LEMMA ActiveStep ==
  ASSUME TypeInv, RecoveryInv, RedispatchInv, ActiveInv, [Next]_vars
  PROVE  ActiveInv'
<1>1. GenuineReports /\ DispatchIsDue /\ LiveIsLatest /\ NewestActiveIn(journal)
  BY DEF RedispatchInv, ActiveInv
<1>2. commands' \in CommandMaps
  BY TypeStep DEF TypeInv, TypeOK
<1>0. evidence \subseteq evidence'
  BY EvidenceKept
<1>3. ASSUME LogDrifts(journal, journal') PROVE NewestActiveIn(journal')
  BY <1>1, <1>3, LogDriftsNewest
<1>4. ASSUME LiveIsLatest', NewestActiveIn(journal') PROVE ActiveInv'
  BY <1>0, <1>4, NewestActiveKept DEF ActiveInv
<1>5. CASE Frame
  <2>1. CASE \E t \in Targets : Issue(t)
    BY <2>1, ActiveIssue
  <2>2. CASE ~(\E t \in Targets : Issue(t))
    <3>1. Drifts(commands, commands') /\ LogDrifts(journal, journal')
      <4>1. Reported => Drifts(commands, commands') /\ LogDrifts(journal, journal')
        BY ReportDrifts DEF Reported, TypeInv
      <4> QED
        BY <1>1, <1>5, <2>2, <4>1, FrameEvolves, EvolvesDrifts
    <3>2. CASE CompleteFrame \/ \E t \in Targets : IssueThrows(t)
      <4>1. \E cmds \in CommandMaps : \E order, limit :
              Prune(cmds, order, latestByTarget, limit)
        BY <3>2, SupersededType DEF CompleteFrame, IssueThrows, TypeInv, TypeOK
      <4> QED
        BY <1>0, <1>1, <1>2, <1>3, <1>4, <3>1, <4>1, PruneLatest, DriftsLatest
    <3>3. CASE ~(CompleteFrame \/ \E t \in Targets : IssueThrows(t))
      <4>1. latestByTarget' = latestByTarget
        <5>1. ASSUME NEW r, ApplyReport(r) PROVE latestByTarget' = latestByTarget
          BY <5>1 DEF ApplyReport, outbox
        <5>2. ASSUME NEW t, NEW v, NEW n, ApplyObservation(t, v, n)
              PROVE  latestByTarget' = latestByTarget
          BY <5>2 DEF ApplyObservation, outbox
        <5>3. ASSUME NEW id, NEW status, Transition(id, status)
              PROVE  latestByTarget' = latestByTarget
          BY <5>3 DEF Transition
        <5> QED
          BY <1>5, <2>2, <3>3, <5>1, <5>2, <5>3
             DEF Frame, BeginFrame, ReceiveDeferred, ReceiveReport, ReportsDrained,
                 ReceiveObservation, RunPhases, FrameThrows, ClearDesire, IssueUnneeded,
                 IssueAlreadyObserved, RecordAttempt, AdapterReceives, DispatchRefused,
                 DispatchThrows, DispatchAccepted, DispatchReported, TimeOut, Retry,
                 outbox
      <4> QED
        BY <1>0, <1>1, <1>2, <1>3, <1>4, <3>1, <4>1, DriftsLatest
    <3> QED
      BY <3>2, <3>3
  <2> QED
    BY <2>1, <2>2
<1>6. CASE Host
  <2>1. LogDrifts(journal, journal')
    BY <1>6, HostEvolves, EvolvesDrifts
  <2>2. CASE \E k \in 1..Len(journal) : Restart(k)
    BY <1>3, <1>4, <2>1, <2>2, ActiveRestart
  <2>3. CASE ~(\E k \in 1..Len(journal) : Restart(k))
    <3>1. latestByTarget' = latestByTarget
      BY <1>6, <2>3
         DEF Host, RegisterAdapter, Reconcile, ReconcileFlush, Checkpoint, outbox
    <3>2. Drifts(commands, commands')
      BY <1>6, <2>3, HostEvolves, EvolvesDrifts
    <3> QED
      BY <1>0, <1>1, <1>2, <1>3, <1>4, <2>1, <3>1, <3>2, DriftsLatest
  <2> QED
    BY <2>2, <2>3
<1>7. CASE Environment \/ UNCHANGED vars
  <2>1. UNCHANGED <<commands, latestByTarget, journal>>
    BY <1>7 DEF Environment, DeviceExecutes, AdapterLosesTrack, DeviceChanges, vars, outbox
  <2> QED
    BY <1>0, <1>1, <1>4, <2>1 DEF LiveIsLatest, Disowned, LostTrack
<1> QED
  BY <1>5, <1>6, <1>7 DEF Next

\* An active command is the newest of its target, in the live outbox and in
\* every surviving part of the log, or its adapter has itself reported it as
\* indeterminate: no two commands are driven against one target, and
\* reconciliation reaches every command the runtime made indeterminate.
THEOREM OnlyLatestIsActive == Spec => []ActiveIsLatest
<1> DEFINE IInv == TypeInv /\ RecoveryInv /\ WriteAheadInv /\ RedispatchInv /\ ActiveInv
<1>1. Init => IInv
  <2>1. Init => ActiveInv
    BY DEF Init, ActiveInv, LiveIsLatest, NewestActiveIn, OnlyNewestActive, NoCommands
  <2> QED
    BY <2>1, InitType, RecoveryInit, WriteAheadInit, RedispatchInit
<1>2. IInv /\ [Next]_vars => IInv'
  BY TypeStep, RecoveryStep, WriteAheadStep, RedispatchStep, ActiveStep
<1>3. IInv => ActiveIsLatest
  <2> SUFFICES ASSUME IInv PROVE ActiveIsLatest
    OBVIOUS
  <2>1. DOMAIN journal = 1..Len(journal)
    BY RecordedType, LogProperties DEF TypeInv
  <2>2. LiveIsLatest /\ \A k \in DOMAIN journal : OnlyNewestActive(journal[k].commands)
    BY <2>1 DEF ActiveInv, NewestActiveIn
  <2> QED
    BY <2>2 DEF ActiveIsLatest, LiveIsLatest, OnlyNewestActive, Active
<1> QED
  BY <1>1, <1>2, <1>3, PTL DEF Spec


-----------------------------------------------------------------------------
(* Retention: bounded, and everything settled can be pruned *)

Unsettled(cmds) == DOMAIN cmds \ Settled(cmds)

CommandsBounded == Cardinality(DOMAIN commands) <= MaxRetainedCommands
SettledListed(cmds, order) ==
  \A id \in Settled(cmds) : \E i \in DOMAIN order : order[i] = id
LogBounded(j) ==
  \A k \in 1..Len(j) : Cardinality(Unsettled(j[k].commands)) <= MaxRetainedCommands

RetentionInv ==
  /\ CommandsBounded
  /\ SettledListed(commands, terminalOrder)
  /\ LogBounded(journal)

LEMMA IdsFinite ==
  ASSUME NEW T \in SUBSET CommandIds, NEW S \in SUBSET T
  PROVE  /\ IsFiniteSet(T) /\ Cardinality(T) \in Nat /\ Cardinality(S) \in Nat
         /\ Cardinality(S) <= Cardinality(T)
<1>1. IsFiniteSet(CommandIds)
  BY FS_Interval, BoundAssumption DEF CommandIds
<1>2. IsFiniteSet(T)
  BY <1>1, FS_Subset
<1>3. IsFiniteSet(S) /\ Cardinality(S) <= Cardinality(T)
  BY <1>2, FS_Subset
<1> QED
  BY <1>2, <1>3, FS_CardinalityType

\* A log stays within the capacity when a record leaves few commands unsettled.
LEMMA LogBoundedAppend ==
  ASSUME NEW j \in Logs, LogBounded(j), NEW p \in Projection,
         Cardinality(Unsettled(p.commands)) <= MaxRetainedCommands
  PROVE  LogBounded(Append(j, p))
<1>1. Len(j) \in Nat
  BY LogProperties
<1>2. /\ Len(Append(j, p)) = Len(j) + 1
      /\ \A k \in 1..Len(j) : Append(j, p)[k] = j[k]
      /\ Append(j, p)[Len(j) + 1] = p
  BY AppendedProperties, AppendProperties DEF Logs
<1>3. ASSUME NEW k \in 1..Len(Append(j, p))
      PROVE  Cardinality(Unsettled(Append(j, p)[k].commands)) <= MaxRetainedCommands
  <2>1. CASE k = Len(j) + 1
    BY <1>2, <2>1
  <2>2. CASE k \in 1..Len(j)
    BY <1>2, <2>2 DEF LogBounded
  <2> QED
    BY <1>1, <1>2, <2>1, <2>2
<1> QED
  BY <1>3 DEF LogBounded

LEMMA LogEvolvesBounded ==
  ASSUME NEW j \in Logs, NEW g \in Logs, LogEvolves(j, g), LogBounded(j)
  PROVE  LogBounded(g)
<1> SUFFICES ASSUME NEW k \in 1..Len(g)
             PROVE  Cardinality(Unsettled(g[k].commands)) <= MaxRetainedCommands
  BY DEF LogBounded
<1>1. PICK n \in 1..Len(j) : Evolves(j[n].commands, g[k].commands)
  BY DEF LogEvolves
<1>2. Unsettled(g[k].commands) \in SUBSET Unsettled(j[n].commands)
  BY <1>1 DEF Unsettled, Settled, Evolves, Follows
<1>3. Unsettled(j[n].commands) \in SUBSET CommandIds
  <2>1. j[n].commands \in CommandMaps
    BY LogProperties DEF Projection
  <2> QED
    BY <2>1, MapElim DEF Unsettled
<1>4. /\ Cardinality(Unsettled(g[k].commands)) <= Cardinality(Unsettled(j[n].commands))
      /\ Cardinality(Unsettled(g[k].commands)) \in Nat
      /\ Cardinality(Unsettled(j[n].commands)) \in Nat
  BY <1>2, <1>3, IdsFinite
<1> QED
  BY <1>4, PolicyAssumption DEF LogBounded

\* What is recorded unsettled is retained, so the record is within the capacity.
LEMMA RetainedBounds ==
  ASSUME NEW cmds \in CommandMaps, NEW rec,
         \A id \in DOMAIN rec : id \in DOMAIN cmds \/ ~Active(rec[id].status),
         Cardinality(DOMAIN cmds) <= MaxRetainedCommands
  PROVE  Cardinality(Unsettled(rec)) <= MaxRetainedCommands
<1>1. Unsettled(rec) \in SUBSET DOMAIN cmds /\ DOMAIN cmds \in SUBSET CommandIds
  BY MapElim DEF Unsettled, Settled
<1>2. /\ Cardinality(Unsettled(rec)) <= Cardinality(DOMAIN cmds)
      /\ Cardinality(Unsettled(rec)) \in Nat /\ Cardinality(DOMAIN cmds) \in Nat
  BY <1>1, IdsFinite
<1> QED
  BY <1>2, PolicyAssumption

LEMMA FollowsBounded ==
  ASSUME TypeOK, CommandsBounded, commands' \in CommandMaps,
         Follows(commands, commands')
  PROVE  CommandsBounded'
<1>1. DOMAIN commands' \in SUBSET DOMAIN commands /\ DOMAIN commands \in SUBSET CommandIds
  BY MapElim DEF TypeOK, Follows
<1>2. /\ Cardinality(DOMAIN commands') <= Cardinality(DOMAIN commands)
      /\ Cardinality(DOMAIN commands') \in Nat /\ Cardinality(DOMAIN commands) \in Nat
  BY <1>1, IdsFinite
<1> QED
  BY <1>2, PolicyAssumption DEF CommandsBounded

-----------------------------------------------------------------------------
(* Retention: terminalOrder lists what has settled *)

\* set_status lists an id when it settles.
LEMMA ListedStatus ==
  ASSUME NEW cmds \in CommandMaps, NEW order \in Seq(CommandIds),
         SettledListed(cmds, order), NEW id \in CommandIds, NEW status \in Statuses
  PROVE  /\ SettledListed(SetStatus(cmds, id, status), Append(order, id))
         /\ id \in DOMAIN cmds =>
              SettledListed(SetStatus(cmds, id, status),
                            SettledOrder(cmds, order, id, status))
<1> DEFINE g == SetStatus(cmds, id, status)
           longer == Append(order, id)
<1>1. /\ DOMAIN g = DOMAIN cmds
      /\ \A x \in DOMAIN cmds :
           g[x] = IF x = id THEN [cmds[x] EXCEPT !.status = status] ELSE cmds[x]
  BY SetStatusProperties
<1>2. \A x \in DOMAIN cmds : cmds[x] \in Command
  BY MapElim
<1>3. /\ DOMAIN order \subseteq DOMAIN longer
      /\ \A i \in DOMAIN order : longer[i] = order[i]
      /\ \E i \in DOMAIN longer : longer[i] = id
  <2>1. /\ DOMAIN order = 1..Len(order) /\ Len(order) \in Nat
        /\ DOMAIN longer = 1..(Len(order) + 1)
        /\ \A i \in 1..Len(order) : longer[i] = order[i]
        /\ longer[Len(order) + 1] = id
    BY AppendProperties, LenProperties
  <2> HIDE DEF longer
  <2>2. Len(order) + 1 \in DOMAIN longer
    BY <2>1
  <2> QED
    BY <2>1, <2>2
<1> HIDE DEF g, longer
<1>4. \A x \in DOMAIN g : /\ x # id => g[x].status = cmds[x].status
                          /\ x = id => g[x].status = status
  BY <1>1, <1>2 DEF Command
<1>5. Settled(g) \subseteq Settled(cmds) \cup {id}
  BY <1>1, <1>4 DEF Settled
<1>6. SettledListed(g, longer)
  BY <1>3, <1>5 DEF SettledListed
<1>7. ASSUME id \in DOMAIN cmds, ~(Active(cmds[id].status) /\ ~Active(status))
      PROVE  Settled(g) \subseteq Settled(cmds)
  BY <1>1, <1>4, <1>7 DEF Settled
<1>8. ASSUME id \in DOMAIN cmds
      PROVE  SettledListed(g, SettledOrder(cmds, order, id, status))
  <2>1. CASE Active(cmds[id].status) /\ ~Active(status)
    BY <1>6, <2>1 DEF SettledOrder, longer
  <2>2. CASE ~(Active(cmds[id].status) /\ ~Active(status))
    <3>1. SettledListed(g, order)
      BY <1>7, <1>8, <2>2 DEF SettledListed
    <3> QED
      BY <2>2, <3>1 DEF SettledOrder
  <2> QED
    BY <2>1, <2>2
<1> QED
  BY <1>6, <1>8 DEF g, longer

\* prune_terminal_history keeps every settled command it retains in the list.
LEMMA ListedPrune ==
  ASSUME NEW cmds \in CommandMaps, NEW order \in Seq(CommandIds),
         SettledListed(cmds, order), NEW limit
  PROVE  SettledListed(Without(cmds, Pruned(cmds, order, limit)),
                       SubSeq(order, Popped(cmds, order, limit) + 1, Len(order)))
<1> DEFINE k == Popped(cmds, order, limit)
           rest == SubSeq(order, k + 1, Len(order))
           gone == Pruned(cmds, order, limit)
           g == Without(cmds, gone)
<1>1. k \in 0..Len(order) /\ Len(order) \in Nat /\ DOMAIN order = 1..Len(order)
  BY PoppedType, LenProperties
<1>2. gone = {id \in DOMAIN cmds : /\ ~Active(cmds[id].status)
                                   /\ \E i \in 1..k : order[i] = id}
  BY DEF Pruned, SettledAmong
<1>3. DOMAIN g = DOMAIN cmds \ gone /\ \A x \in DOMAIN cmds \ gone : g[x] = cmds[x]
  BY WithoutProperties
<1>4. /\ DOMAIN rest = 1..(Len(order) - k)
      /\ \A i \in 1..(Len(order) - k) : rest[i] = order[k + i]
  <2> HIDE DEF k
  <2>1. \A i \in (k + 1)..Len(order) : order[i] \in CommandIds
    BY <1>1, ElementOfSeq
  <2>2. k + 1 \in Int /\ Len(order) \in Int /\ k \in Int /\ k <= Len(order)
    BY <1>1
  <2>3. /\ rest \in Seq(CommandIds)
        /\ Len(rest) = IF k + 1 <= Len(order) THEN Len(order) - (k + 1) + 1 ELSE 0
        /\ \A i \in 1..(Len(order) - (k + 1) + 1) : rest[i] = order[k + 1 + i - 1]
    BY <2>1, <2>2, SubSeqProperties
  <2> HIDE DEF rest
  <2>4. Len(rest) = Len(order) - k /\ Len(order) - (k + 1) + 1 = Len(order) - k
    BY <2>2, <2>3
  <2>5. \A i \in 1..(Len(order) - k) : rest[i] = order[k + i]
    <3>1. \A i \in 1..(Len(order) - k) : k + 1 + i - 1 = k + i
      BY <2>2
    <3> QED
      BY <2>3, <2>4, <3>1
  <2> QED
    BY <2>3, <2>4, <2>5, LenProperties
<1> HIDE DEF k, rest, gone, g
<1> SUFFICES ASSUME NEW id \in Settled(g)
             PROVE  \E i \in DOMAIN rest : rest[i] = id
  BY DEF SettledListed, k, rest, gone, g
<1>5. id \in Settled(cmds) /\ id \notin gone /\ id \in DOMAIN cmds
      /\ ~Active(cmds[id].status)
  BY <1>3 DEF Settled
<1>6. PICK i \in DOMAIN order : order[i] = id
  BY <1>5 DEF SettledListed
<1>7. i \notin 1..k
  BY <1>2, <1>5, <1>6
<1>8. i - k \in 1..(Len(order) - k) /\ k + (i - k) = i
  BY <1>1, <1>7
<1> QED
  BY <1>4, <1>6, <1>8

\* ... and prunes down to the limit when what is unsettled fits.
LEMMA PrunedFits ==
  ASSUME NEW cmds \in CommandMaps, NEW order \in Seq(CommandIds), NEW limit,
         \/ Fits(cmds, order, Len(order), limit)
         \/ SettledListed(cmds, order) /\ Cardinality(Unsettled(cmds)) <= limit
  PROVE  Cardinality(DOMAIN cmds \ Pruned(cmds, order, limit)) <= limit
<1>1. DOMAIN order = 1..Len(order)
  BY LenProperties
<1>2. SettledListed(cmds, order) => SettledAmong(cmds, order, Len(order)) = Settled(cmds)
  BY <1>1 DEF SettledListed, SettledAmong, Settled
<1>3. Fits(cmds, order, Len(order), limit)
  BY <1>2 DEF Fits, Unsettled
<1>4. Fits(cmds, order, Popped(cmds, order, limit), limit)
  BY <1>3, PoppedType
<1> QED
  BY <1>4 DEF Fits, Pruned

-----------------------------------------------------------------------------
(* Retention: the steps *)

LEMMA ReportRetains ==
  ASSUME TypeOK, RecoveryInv, RetentionInv, NEW r \in Report, ApplyReport(r)
  PROVE  SettledListed(commands', terminalOrder') /\ LogBounded(journal')
<1> DEFINE id == r.command
           t == commands[id].target
           fresh == commands[id].status # "Superseded"
           logged == IF fresh THEN LogStatus(journal, id, r.status) ELSE journal
<1>1. journal \in Logs /\ commands \in CommandMaps /\ Recorded \in CommandMaps
      /\ terminalOrder \in Seq(CommandIds)
  BY RecordedType DEF TypeOK
<1>2. /\ r.status \in Statuses /\ id \in CommandIds
      /\ r.value \in Values \cup {NoValue} /\ r.revision \in Nat
  BY DEF Report
<1>3. SettledListed(commands, terminalOrder) /\ LogBounded(journal)
      /\ Cardinality(DOMAIN commands) <= MaxRetainedCommands
  BY DEF RetentionInv, CommandsBounded
<1>4. CASE ~Acceptable(r)
  BY <1>3, <1>4 DEF ApplyReport, outbox
<1>5. CASE Acceptable(r)
  <2>1. /\ commands' = IF fresh THEN SetStatus(commands, id, r.status) ELSE commands
        /\ terminalOrder' =
             IF fresh THEN SettledOrder(commands, terminalOrder, id, r.status)
             ELSE terminalOrder
        /\ \/ CommitAuthoritative(logged, t, r.value, r.revision)
           \/ journal' = logged
    BY <1>5 DEF ApplyReport
  <2>2. id \in DOMAIN commands /\ t \in Targets
    BY <1>1, <1>5, MapElim DEF Acceptable, Command
  <2>3. SettledListed(commands', terminalOrder')
    BY <1>1, <1>2, <1>3, <2>1, <2>2, ListedStatus
  <2>4. LogBounded(LogStatus(journal, id, r.status))
    <3>1. PICK p \in Projection :
            /\ LogStatus(journal, id, r.status) = Append(journal, p)
            /\ p.commands = SetStatus(Recorded, id, r.status)
      BY <1>1, <1>2, LogStatusProperties DEF Recorded
    <3>2. \A x \in DOMAIN Recorded :
            x \in DOMAIN commands \/ ~Active(Recorded[x].status)
      BY DEF RecoveryInv, CommandsRecorded, Agree, AgreeButFor
    <3>3. /\ DOMAIN p.commands = DOMAIN Recorded
          /\ \A x \in DOMAIN Recorded : x # id => p.commands[x] = Recorded[x]
      <4>1. Recorded \in CommandMaps /\ r.status \in Statuses
        BY <1>1, <1>2
      <4>2. /\ DOMAIN SetStatus(Recorded, r.command, r.status) = DOMAIN Recorded
            /\ \A x \in DOMAIN Recorded :
                 SetStatus(Recorded, r.command, r.status)[x] =
                   IF x = r.command THEN [Recorded[x] EXCEPT !.status = r.status]
                   ELSE Recorded[x]
        BY <4>1, SetStatusProperties
      <4> QED
        BY <3>1, <4>2
    <3>4. \A x \in DOMAIN p.commands :
            x \in DOMAIN commands \/ ~Active(p.commands[x].status)
      BY <2>2, <3>2, <3>3
    <3>5. Cardinality(Unsettled(p.commands)) <= MaxRetainedCommands
      BY <1>1, <1>3, <3>4, RetainedBounds
    <3> QED
      BY <1>1, <1>3, <3>1, <3>5, LogBoundedAppend
  <2>5. logged \in Logs /\ LogBounded(logged)
    BY <1>1, <1>2, <1>3, <2>4, RebuiltStatus
  <2> HIDE DEF logged, t
  <2>6. /\ LogObserved(logged, t, r.value, r.revision) \in Logs
        /\ LogEvolves(logged, LogObserved(logged, t, r.value, r.revision))
    BY <1>2, <2>2, <2>5, LogEvolvesObserved, RebuiltObserved
  <2>7. LogBounded(journal')
    BY <2>1, <2>5, <2>6, LogEvolvesBounded DEF CommitAuthoritative
  <2> QED
    BY <2>3, <2>7
<1> QED
  BY <1>4, <1>5

LEMMA SupersededListed ==
  ASSUME TypeOK, NEW t \in Targets, SettledListed(commands, terminalOrder)
  PROVE  SettledListed(SupersededCommands(t), SupersededOrder(t))
<1>1. commands \in CommandMaps /\ terminalOrder \in Seq(CommandIds)
      /\ "Superseded" \in Statuses
  BY DEF TypeOK, Statuses
<1>2. CASE ~PendingLatest(t)
  BY <1>2 DEF SupersededCommands, SupersededOrder
<1>3. CASE PendingLatest(t)
  <2>1. latestByTarget[t] \in CommandIds
    BY <1>3, CommandIdsProperties DEF PendingLatest, TypeOK
  <2> QED
    BY <1>1, <1>3, <2>1, ListedStatus DEF SupersededCommands, SupersededOrder
<1> QED
  BY <1>2, <1>3

\* issue() makes room before it adds a command.
LEMMA IssueRetains ==
  ASSUME TypeInv, RecoveryInv, RetentionInv, NEW t \in Targets, Issue(t),
         TypeInv', RecoveryInv'
  PROVE  RetentionInv'
<1> DEFINE cmds == SupersededCommands(t)
           order == SupersededOrder(t)
           limit == MaxRetainedCommands - 1
           gone == Pruned(cmds, order, limit)
           rest == Without(cmds, gone)
           left == SubSeq(order, Popped(cmds, order, limit) + 1, Len(order))
           c == [target |-> t, desired |-> desires[t], issuedAt |-> now,
                 status |-> "Pending", retryIndex |-> 0]
<1>1. /\ nextCommand \in CommandIds
      /\ desires[t] # NoValue /\ desires[t] # Cleared
      /\ Fits(cmds, order, Len(order), limit)
      /\ commands' = Put(rest, nextCommand, c)
      /\ terminalOrder' = left
      /\ journal' = LogCommand(SupersededJournal(t), nextCommand, c)
  BY DEF Issue, Issuing, CanIssue
<1>2. TypeOK /\ SettledListed(commands, terminalOrder) /\ LogBounded(journal)
  BY DEF TypeInv, RetentionInv
<1>3. /\ cmds \in CommandMaps /\ order \in Seq(CommandIds)
      /\ SupersededJournal(t) \in Logs /\ journal \in Logs
      /\ LogEvolves(journal, SupersededJournal(t))
  BY <1>2, SupersededType, SupersededEvolves, RecordedType
<1>4. SettledListed(cmds, order)
  BY <1>2, SupersededListed
<1>5. c \in Command /\ c.status = "Pending"
  BY <1>1, <1>2, PolicyAssumption DEF Command, Statuses, TypeOK
<1>6. limit \in Int
  BY PolicyAssumption
<1> HIDE DEF cmds, order, limit, c
<1>7. Cardinality(DOMAIN cmds \ gone) <= limit
  BY <1>1, <1>3, PrunedFits
<1>8. SettledListed(rest, left)
  BY <1>3, <1>4, ListedPrune
<1> HIDE DEF gone, left
<1>9. DOMAIN rest = DOMAIN cmds \ gone /\ rest \in CommandMaps
  BY <1>3, WithoutProperties
<1> HIDE DEF rest
<1>10. /\ DOMAIN commands' = DOMAIN rest \cup {nextCommand}
       /\ commands'[nextCommand] = c
       /\ \A x \in DOMAIN rest : x # nextCommand => commands'[x] = rest[x]
  <2>1. /\ DOMAIN Put(rest, nextCommand, c) = DOMAIN rest \cup {nextCommand}
        /\ Put(rest, nextCommand, c)[nextCommand] = c
        /\ \A x \in DOMAIN rest :
             x # nextCommand => Put(rest, nextCommand, c)[x] = rest[x]
    <3>1. rest \in CommandMaps /\ nextCommand \in CommandIds /\ c \in Command
      BY <1>1, <1>5, <1>9
    <3> QED
      BY <3>1, PutProperties
  <2> QED
    BY <1>1, <2>1
<1>11. CommandsBounded'
  <2>1. IsFiniteSet(DOMAIN rest) /\ Cardinality(DOMAIN rest) \in Nat
    <3>1. DOMAIN rest \in SUBSET CommandIds
      BY <1>9, MapElim
    <3> QED
      BY <3>1, IdsFinite
  <2>2. Cardinality(DOMAIN rest \cup {nextCommand}) =
          IF nextCommand \in DOMAIN rest THEN Cardinality(DOMAIN rest)
          ELSE Cardinality(DOMAIN rest) + 1
    BY <2>1, FS_AddElement
  <2>3. Cardinality(DOMAIN commands') <= MaxRetainedCommands
    BY <1>6, <1>7, <1>9, <1>10, <2>1, <2>2, PolicyAssumption DEF limit
  <2> QED
    BY <2>3 DEF CommandsBounded
<1>12. SettledListed(commands', terminalOrder')
  <2>1. Settled(commands') \subseteq Settled(rest)
    BY <1>5, <1>10 DEF Settled, Active
  <2> QED
    BY <1>1, <1>8, <2>1 DEF SettledListed
<1>13. LogBounded(journal')
  <2>1. LogBounded(SupersededJournal(t))
    BY <1>2, <1>3, LogEvolvesBounded
  <2>2. PICK p \in Projection :
          LogCommand(SupersededJournal(t), nextCommand, c) = Append(SupersededJournal(t), p)
    BY <1>1, <1>3, <1>5, LogCommandProperties
  <2>3. p = Rebuilt(journal') /\ journal' = Append(SupersededJournal(t), p)
    BY <1>1, <1>3, <2>2, AppendedProperties
  <2>4. \A id \in DOMAIN p.commands :
          id \in DOMAIN commands' \/ ~Active(p.commands[id].status)
    <3>1. CommandsRecorded'
      BY DEF RecoveryInv
    <3> QED
      BY <2>3, <3>1 DEF CommandsRecorded, Agree, AgreeButFor, Recorded
  <2>5. Cardinality(Unsettled(p.commands)) <= MaxRetainedCommands
    <3>1. commands' \in CommandMaps /\ Cardinality(DOMAIN commands') <= MaxRetainedCommands
      BY <1>11 DEF TypeInv, TypeOK, CommandsBounded
    <3> QED
      BY <2>4, <3>1, RetainedBounds
  <2> QED
    BY <1>3, <2>1, <2>3, <2>5, LogBoundedAppend
<1> QED
  BY <1>11, <1>12, <1>13 DEF RetentionInv, SettledListed, LogBounded

\* restore() never lacks room: what the log leaves unsettled fits, and the
\* rest can be pruned.
LEMMA RestartRetains ==
  ASSUME TypeInv, RetentionInv, NEW n \in 1..Len(journal), Restart(n)
  PROVE  CommandsBounded' /\ SettledListed(commands', terminalOrder')
<1> DEFINE f == journal[n].commands
           limit == MaxRetainedCommands
<1>1. PICK order \in [1..Cardinality(Settled(f)) -> Settled(f)] :
        /\ InIdOrder(order, Settled(f))
        /\ commands' = Without(f, Pruned(f, order, limit))
        /\ terminalOrder' = SubSeq(order, Popped(f, order, limit) + 1, Len(order))
  BY DEF Restart
<1>2. f \in CommandMaps /\ Cardinality(Unsettled(f)) <= limit
  BY RecordedType, LogProperties DEF TypeInv, Projection, RetentionInv, LogBounded
<1> HIDE DEF f
<1>3. order \in Seq(CommandIds)
  <2>1. Settled(f) \in SUBSET CommandIds
    BY <1>2, MapElim DEF Settled
  <2>2. Cardinality(Settled(f)) \in Nat
    BY <2>1, IdsFinite
  <2> QED
    BY <2>1, <2>2
<1>4. SettledListed(f, order)
  BY <1>1 DEF InIdOrder, SettledListed
<1>5. SettledListed(commands', terminalOrder')
  BY <1>1, <1>2, <1>3, <1>4, ListedPrune
<1>6. Cardinality(DOMAIN f \ Pruned(f, order, limit)) <= limit
  BY <1>2, <1>3, <1>4, PrunedFits
<1>7. DOMAIN commands' = DOMAIN f \ Pruned(f, order, limit)
  BY <1>1, <1>2, WithoutProperties
<1> QED
  BY <1>5, <1>6, <1>7 DEF CommandsBounded

\* Every other step of a frame keeps the settled commands listed.
LEMMA FrameListed ==
  ASSUME TypeInv, RecoveryInv, RetentionInv, Frame, \A t \in Targets : ~Issue(t)
  PROVE  SettledListed(commands', terminalOrder')
<1> DEFINE Goal == SettledListed(commands', terminalOrder')
<1>1. /\ commands \in CommandMaps /\ terminalOrder \in Seq(CommandIds) /\ TypeOK
      /\ SettledListed(commands, terminalOrder)
      /\ \A x \in DOMAIN commands : x \in CommandIds /\ commands[x] \in Command
  BY MapElim DEF TypeInv, TypeOK, RetentionInv
<1>2. ASSUME UNCHANGED <<commands, terminalOrder>> PROVE Goal
  BY <1>1, <1>2
<1>3. ASSUME NEW id \in DOMAIN commands, NEW status \in Statuses,
             Transition(id, status)
      PROVE  Goal
  BY <1>1, <1>3, ListedStatus DEF Transition
<1>4. ASSUME NEW r \in Report, ApplyReport(r) PROVE Goal
  BY <1>1, <1>4, ReportRetains
<1>5. CASE BeginFrame \/ ReportsDrained \/ RunPhases \/ AdapterReceives
           \/ DispatchAccepted \/ FrameThrows \/ RecordAttempt \/ ReceiveObservation
  BY <1>2, <1>5 DEF BeginFrame, ReportsDrained, RunPhases, AdapterReceives, RecordAttempt,
                    DispatchAccepted, FrameThrows, ReceiveObservation, ApplyObservation,
                    outbox
<1>6. CASE ReceiveDeferred
  <2>1. deferred \in Seq(Report) /\ deferred # <<>> /\ ApplyReport(Head(deferred))
    BY <1>1, <1>6 DEF ReceiveDeferred, TypeOK
  <2> QED
    BY <1>4, <2>1, HeadTailProperties
<1>7. CASE ReceiveReport
  <2>1. {s.command : s \in sent} \in SUBSET CommandIds
    BY <1>1 DEF TypeOK, Delivery
  <2>2. PICK r \in ReportsOf({s.command : s \in sent}) : ApplyReport(r)
    BY <1>7 DEF ReceiveReport
  <2> QED
    BY <1>1, <1>4, <2>1, <2>2, ReportsOfType
<1>8. ASSUME NEW t \in Targets,
             ClearDesire(t) \/ IssueUnneeded(t) \/ IssueAlreadyObserved(t)
             \/ IssueThrows(t)
      PROVE  Goal
  <2>1. /\ SupersededCommands(t) \in CommandMaps
        /\ SupersededOrder(t) \in Seq(CommandIds)
        /\ SettledListed(SupersededCommands(t), SupersededOrder(t))
    BY <1>1, SupersededType, SupersededListed
  <2>2. CASE ClearDesire(t)
    <3>1. latestByTarget[t] \in DOMAIN commands /\ "Superseded" \in Statuses
      BY <2>2 DEF ClearDesire, PendingLatest, RecoveryInv, LatestRetained, Statuses
    <3> QED
      BY <1>3, <2>2, <3>1 DEF ClearDesire
  <2>3. CASE IssueUnneeded(t)
    BY <1>2, <2>3 DEF IssueUnneeded, outbox
  <2>4. CASE IssueAlreadyObserved(t)
    BY <2>1, <2>4 DEF IssueAlreadyObserved
  <2>5. CASE IssueThrows(t)
    BY <2>1, <2>5, ListedPrune DEF IssueThrows, Prune
  <2> QED
    BY <1>8, <2>2, <2>3, <2>4, <2>5
<1>9. ASSUME pc = "await"
      PROVE  current \in DOMAIN commands /\ {current} \in SUBSET CommandIds
  BY <1>1, <1>9 DEF TypeInv, CurrentIsRetained
<1>10. {"Rejected", "Failed", "Indeterminate", "TimedOut"} \subseteq Statuses
  BY DEF Statuses
<1>11. CASE DispatchRefused \/ DispatchThrows
  BY <1>2, <1>3, <1>9, <1>10, <1>11
     DEF DispatchRefused, DispatchThrows, DispatchReturns, outbox
<1>12. CASE DispatchReported
  <2>1. pc = "await"
    BY <1>12 DEF DispatchReported, DispatchReturns
  <2>2. PICK r \in ReportsOf({current}) :
          \/ ApplyReport(r)
          \/ UNCHANGED <<commands, terminalOrder>>
          \/ Transition(current, "Indeterminate")
    BY <1>12 DEF DispatchReported, outbox
  <2>3. r \in Report
    BY <1>1, <1>9, <2>1, ReportsOfType
  <2> QED
    BY <1>2, <1>3, <1>4, <1>9, <1>10, <2>1, <2>2, <2>3
<1>13. ASSUME NEW id \in DOMAIN commands, TimeOut(id) PROVE Goal
  BY <1>3, <1>10, <1>13 DEF TimeOut
<1>14. ASSUME NEW id \in DOMAIN commands, Retry(id) PROVE Goal
  <2>1. /\ DOMAIN commands' = DOMAIN commands
        /\ commands' = [x \in DOMAIN commands |->
             IF x = id
             THEN [commands[x] EXCEPT !.retryIndex = commands[x].retryIndex + 1]
             ELSE commands[x]]
    BY <1>14, RetryType
  <2>2. \A x \in DOMAIN commands : commands'[x].status = commands[x].status
    BY <1>1, <2>1 DEF Command
  <2>3. Settled(commands') = Settled(commands) /\ terminalOrder' = terminalOrder
    BY <1>14, <2>1, <2>2 DEF Settled, Retry
  <2> QED
    BY <1>1, <2>3 DEF SettledListed
<1>15. CASE CompleteFrame
  BY <1>1, <1>15, ListedPrune DEF CompleteFrame, Prune
<1> QED
  BY <1>5, <1>6, <1>7, <1>8, <1>11, <1>12, <1>13, <1>14, <1>15 DEF Frame

LEMMA HostListed ==
  ASSUME TypeInv, RecoveryInv, RetentionInv, Host,
         \A k \in 1..Len(journal) : ~Restart(k)
  PROVE  SettledListed(commands', terminalOrder')
<1>1. /\ commands \in CommandMaps /\ terminalOrder \in Seq(CommandIds) /\ TypeOK
      /\ SettledListed(commands, terminalOrder)
      /\ \A x \in DOMAIN commands : x \in CommandIds /\ commands[x] \in Command
  BY MapElim DEF TypeInv, TypeOK, RetentionInv
<1>2. ASSUME NEW route \in Routes, RegisterAdapter(route)
      PROVE  SettledListed(commands', terminalOrder')
  <2>1. commands' = Marked(commands, Uncertain(route)) /\ terminalOrder' = terminalOrder
    BY <1>1, <1>2, RegisterAdapterLog DEF RegisterAdapter
  <2>2. \A x \in DOMAIN commands : \/ commands'[x].status = commands[x].status
                                   \/ Active(commands'[x].status)
    BY <1>1, <2>1 DEF Marked, Active, Command
  <2>3. DOMAIN commands' = DOMAIN commands
    BY <2>1 DEF Marked
  <2>4. Settled(commands') \subseteq Settled(commands)
    BY <2>2, <2>3 DEF Settled
  <2> QED
    BY <1>1, <2>1, <2>4 DEF SettledListed
<1>3. ASSUME NEW t \in Targets, Reconcile(t)
      PROVE  SettledListed(commands', terminalOrder')
  <2>1. PICK status \in {"Applied", "Failed"} :
          /\ commands' = SetStatus(commands, latestByTarget[t], status)
          /\ terminalOrder' = Append(terminalOrder, latestByTarget[t])
    BY <1>3 DEF Reconcile
  <2>2. latestByTarget[t] \in CommandIds /\ status \in Statuses
    BY <1>1, <1>3, CommandIdsProperties DEF Reconcile, TypeOK, Statuses
  <2> QED
    BY <1>1, <2>1, <2>2, ListedStatus
<1>4. CASE ReconcileFlush \/ Checkpoint
  BY <1>1, <1>4 DEF ReconcileFlush, Checkpoint, outbox
<1> QED
  BY <1>2, <1>3, <1>4 DEF Host

LEMMA RetentionStep ==
  ASSUME TypeInv, RecoveryInv, RedispatchInv, RetentionInv, [Next]_vars,
         TypeInv', RecoveryInv'
  PROVE  RetentionInv'
<1>1. /\ commands' \in CommandMaps /\ journal' \in Logs /\ journal \in Logs
      /\ TypeOK /\ CommandsBounded /\ LogBounded(journal)
      /\ GenuineReports /\ DispatchIsDue
  BY RecordedType, JournalType DEF TypeInv, TypeOK, RetentionInv, RedispatchInv, Logs
<1>2. ASSUME CommandsBounded', SettledListed(commands', terminalOrder'),
             LogBounded(journal')
      PROVE  RetentionInv'
  BY <1>2 DEF RetentionInv, SettledListed, LogBounded
<1>3. ASSUME LogEvolves(journal, journal') PROVE LogBounded(journal')
  BY <1>1, <1>3, LogEvolvesBounded
<1>4. ASSUME Evolves(commands, commands') PROVE CommandsBounded'
  BY <1>1, <1>4, FollowsBounded DEF Evolves
<1>5. CASE Frame
  <2>1. CASE \E t \in Targets : Issue(t)
    BY <2>1, IssueRetains
  <2>2. CASE \A t \in Targets : ~Issue(t)
    <3>1. SettledListed(commands', terminalOrder')
      BY <1>5, <2>2, FrameListed
    <3>2. CASE Reported
      <4>1. PICK r \in Report : ApplyReport(r)
        BY <3>2 DEF Reported
      <4>2. LogBounded(journal') /\ Follows(commands, commands')
        BY <1>1, <4>1, ReportRetains, ReportEvolves
      <4> QED
        BY <1>1, <1>2, <3>1, <4>2, FollowsBounded
    <3>3. CASE Evolves(commands, commands') /\ LogEvolves(journal, journal')
      BY <1>2, <1>3, <1>4, <3>1, <3>3
    <3> QED
      BY <1>1, <1>5, <2>2, <3>2, <3>3, FrameEvolves
  <2> QED
    BY <2>1, <2>2
<1>6. CASE Host
  <2>1. LogBounded(journal')
    BY <1>3, <1>6, HostEvolves
  <2>2. CASE \E k \in 1..Len(journal) : Restart(k)
    BY <1>2, <2>1, <2>2, RestartRetains
  <2>3. CASE \A k \in 1..Len(journal) : ~Restart(k)
    BY <1>2, <1>4, <1>6, <2>1, <2>3, HostEvolves, HostListed
  <2> QED
    BY <2>2, <2>3
<1>7. CASE Environment \/ UNCHANGED vars
  <2>1. UNCHANGED <<commands, terminalOrder, journal>>
    BY <1>7 DEF Environment, DeviceExecutes, AdapterLosesTrack, DeviceChanges, outbox, vars
  <2> QED
    BY <2>1 DEF RetentionInv, CommandsBounded, SettledListed, LogBounded
<1> QED
  BY <1>5, <1>6, <1>7 DEF Next

-----------------------------------------------------------------------------
(* Staged reports *)

\* What the frame has dispatched or is dispatching: pending, with no desire of
\* the frame left for its target, and too young to be due, or already visited.
InHandOf(cmds, wanted, time, last, id) ==
  /\ id \in DOMAIN cmds
  /\ cmds[id].status = "Pending"
  /\ wanted[cmds[id].target] = NoValue
  /\ cmds[id].issuedAt = time \/ id <= last
InHand(id) == InHandOf(commands, desires, now, cursor, id)
StaysInHand(id) == InHandOf(commands', desires', now', cursor', id)

Dispatching == {"attempt", "call", "await"}
Working == {"work", "attempt", "call", "await"}

StagedInv ==
  /\ StagedReportsFindTheirCommand
  /\ pc = "observations" => deferred = <<>>
  /\ pc \in Working => \A i \in DOMAIN deferred : InHand(deferred[i].command)
  /\ pc \in Dispatching =>
       InHand(current) /\ \A i \in DOMAIN deferred : deferred[i].command # current

LEMMA LatestTarget ==
  ASSUME TypeInv, RecoveryInv, NEW t \in Targets, latestByTarget[t] # 0
  PROVE  /\ latestByTarget[t] \in DOMAIN commands
         /\ commands[latestByTarget[t]].target = t
<1> DEFINE S == {x \in DOMAIN Recorded : Recorded[x].target = t}
           id == latestByTarget[t]
<1>1. Recorded \in CommandMaps
  BY RecordedType DEF TypeInv
<1>2. S \in SUBSET CommandIds /\ \A x \in DOMAIN Recorded : Recorded[x] \in Command
  BY <1>1, MapElim
<1>3. id = Newest(S) /\ id \in DOMAIN commands
  BY DEF RecoveryInv, LatestRecorded, LatestRetained, NewestOf
<1>4. S # {}
  BY <1>3 DEF Newest
<1>5. Newest(S) \in S
  <2> HIDE DEF S
  <2> QED
    BY <1>2, <1>4, NewestProperties
<1>6. id \in DOMAIN Recorded /\ Recorded[id].target = t
  BY <1>3, <1>5
<1>7. \/ commands[id] = Recorded[id]
      \/ commands[id] = [Recorded[id] EXCEPT !.retryIndex = @ + 1]
  BY <1>3 DEF RecoveryInv, CommandsRecorded, Agree, AgreeButFor
<1>8. commands[id].target = t
  BY <1>2, <1>6, <1>7 DEF Command
<1> QED
  BY <1>3, <1>8

\* A command in hand is not one that a remaining desire supersedes ...
LEMMA InHandNotSuperseded ==
  ASSUME TypeInv, RecoveryInv, NEW t \in Targets, desires[t] # NoValue,
         NEW id, InHand(id)
  PROVE  /\ id # latestByTarget[t]
         /\ id \in DOMAIN SupersededCommands(t)
         /\ SupersededCommands(t)[id] = commands[id]
<1>1. commands \in CommandMaps /\ "Superseded" \in Statuses /\ 0 \notin CommandIds
  BY BoundAssumption DEF TypeInv, TypeOK, Statuses, CommandIds
<1>2. id \in DOMAIN commands /\ id # 0
  BY <1>1, MapElim DEF InHand, InHandOf
<1>3. id # latestByTarget[t]
  BY <1>2, LatestTarget DEF InHand, InHandOf
<1>4. /\ DOMAIN SetStatus(commands, latestByTarget[t], "Superseded") = DOMAIN commands
      /\ \A x \in DOMAIN commands :
           SetStatus(commands, latestByTarget[t], "Superseded")[x] =
             IF x = latestByTarget[t] THEN [commands[x] EXCEPT !.status = "Superseded"]
             ELSE commands[x]
  BY <1>1, SetStatusProperties
<1> QED
  BY <1>2, <1>3, <1>4 DEF SupersededCommands

\* ... nor one that retry_due visits ...
LEMMA InHandNotVisited ==
  ASSUME TypeInv, NEW id \in DOMAIN commands, Visits(id)
  PROVE  ~InHand(id)
<1> SUFFICES ASSUME InHand(id) PROVE FALSE
  OBVIOUS
<1>1. id \in Nat /\ cursor \in Nat /\ now \in Nat /\ commands[id] \in Command
  BY MapElim, CommandIdsProperties, BoundAssumption DEF TypeInv, TypeOK
<1>2. id \in Ready /\ id > cursor
  BY DEF Visits, Ready
<1>3. commands[id].issuedAt = now
  BY <1>1, <1>2 DEF InHand, InHandOf
<1>4. Elapsed(commands[id]) = 0
  BY <1>1, <1>3 DEF Elapsed
<1>5. ~Expired(commands[id])
  BY <1>4, PolicyAssumption DEF Expired
<1>6. RetryReady(commands[id])
  BY <1>2, <1>5 DEF Ready
<1>7. commands[id].retryIndex + 1 \in 1..Len(RetryDelays)
  BY <1>1, <1>6, PolicyAssumption DEF RetryReady, Command
<1>8. RetryDelays[commands[id].retryIndex + 1] \in 1..(OverallTimeout - 1)
  BY <1>7, PolicyAssumption, ElementOfSeq
<1> QED
  BY <1>4, <1>6, <1>8, PolicyAssumption DEF RetryReady

\* ... nor one that is pruned.
LEMMA InHandNotPruned ==
  ASSUME NEW cmds \in CommandMaps, NEW order, NEW latest, NEW limit,
         Prune(cmds, order, latest, limit),
         NEW id \in DOMAIN cmds, cmds[id].status = "Pending"
  PROVE  id \in DOMAIN commands' /\ commands'[id] = cmds[id]
<1>1. id \notin Pruned(cmds, order, limit)
  BY DEF Pruned, SettledAmong, Active
<1>2. commands' = Without(cmds, Pruned(cmds, order, limit))
  BY DEF Prune
<1>3. /\ DOMAIN Without(cmds, Pruned(cmds, order, limit)) =
           DOMAIN cmds \ Pruned(cmds, order, limit)
      /\ \A x \in DOMAIN cmds \ Pruned(cmds, order, limit) :
           Without(cmds, Pruned(cmds, order, limit))[x] = cmds[x]
  BY WithoutProperties
<1> QED
  BY <1>1, <1>2, <1>3

LEMMA InHandStays ==
  ASSUME TypeInv, TypeInv', NEW id, InHand(id), id \in DOMAIN commands',
         commands'[id].status = "Pending",
         commands'[id].target = commands[id].target,
         commands'[id].issuedAt = commands[id].issuedAt,
         now' = now, cursor <= cursor',
         \A t \in Targets : desires[t] = NoValue => desires'[t] = NoValue
  PROVE  StaysInHand(id)
<1>1. id \in Nat /\ cursor \in Nat /\ cursor' \in Nat /\ commands[id].target \in Targets
  <2>1. commands \in CommandMaps /\ cursor \in Nat /\ cursor' \in Nat
    BY BoundAssumption DEF TypeInv, TypeOK
  <2>2. id \in CommandIds /\ commands[id] \in Command
    BY <2>1, MapElim DEF InHand, InHandOf
  <2> QED
    BY <2>1, <2>2, CommandIdsProperties DEF Command
<1>2. id <= cursor => id <= cursor'
  BY <1>1
<1> QED
  BY <1>1, <1>2 DEF InHand, StaysInHand, InHandOf

\* Between frames and before the phases, a staged command only has to be kept.
LEMMA StagedAtRest ==
  ASSUME StagedInv, pc' \notin Working, deferred' = deferred,
         pc' = "observations" => deferred = <<>>,
         \A i \in DOMAIN deferred : deferred[i].command \in DOMAIN commands'
  PROVE  StagedInv'
BY DEF StagedInv, StagedReportsFindTheirCommand, Working, Dispatching

LEMMA StagedAtWork ==
  ASSUME StagedInv, pc' = "work", deferred' = deferred,
         \A i \in DOMAIN deferred : StaysInHand(deferred[i].command)
  PROVE  StagedInv'
<1>1. \A i \in DOMAIN deferred : deferred[i].command \in DOMAIN commands'
  BY DEF StaysInHand, InHandOf
<1>2. \A i \in DOMAIN deferred' : InHand(deferred[i].command)'
  BY DEF StaysInHand, InHand
<1> QED
  BY <1>1, <1>2 DEF StagedInv, StagedReportsFindTheirCommand, Dispatching

LEMMA StagedFeedback ==
  ASSUME TypeInv, TypeInv', StagedInv,
         BeginFrame \/ ReceiveDeferred \/ ReceiveReport \/ ReportsDrained
         \/ ReceiveObservation \/ RunPhases \/ FrameThrows
  PROVE  StagedInv'
<1>1. TypeOK
  BY DEF TypeInv
<1>2. \A i \in DOMAIN deferred : deferred[i].command \in DOMAIN commands
  BY DEF StagedInv, StagedReportsFindTheirCommand
<1>3. CASE BeginFrame \/ ReportsDrained \/ ReceiveObservation \/ FrameThrows
  <2>1. /\ pc' \in {"reports", "observations", "idle"} /\ commands' = commands
        /\ deferred' = deferred /\ (pc' = "observations" => deferred = <<>>)
    BY <1>3 DEF BeginFrame, ReportsDrained, ReceiveObservation, ApplyObservation,
                FrameThrows, FailFrame, StagedInv, outbox, staging, frame
  <2> QED
    BY <1>2, <2>1, StagedAtRest DEF Working
<1>4. CASE ReceiveReport
  <2>1. {s.command : s \in sent} \in SUBSET CommandIds
    BY <1>1 DEF TypeOK, Delivery
  <2>2. PICK r \in ReportsOf({s.command : s \in sent}) : ApplyReport(r)
    BY <1>4 DEF ReceiveReport
  <2>3. DOMAIN commands' = DOMAIN commands
    BY <1>1, <2>1, <2>2, ReportsOfType, ApplyReportType
  <2>4. pc' = "reports" /\ deferred' = deferred
    BY <1>4 DEF ReceiveReport, staging, frame
  <2> QED
    BY <1>2, <2>3, <2>4, StagedAtRest DEF Working
<1>5. CASE ReceiveDeferred
  <2>1. /\ deferred \in Seq(Report) /\ deferred # <<>> /\ ApplyReport(Head(deferred))
        /\ deferred' = Tail(deferred) /\ pc' = "reports"
    BY <1>1, <1>5 DEF ReceiveDeferred, TypeOK, frame
  <2>2. DOMAIN commands' = DOMAIN commands
    BY <1>1, <2>1, HeadTailProperties, ApplyReportType
  <2>3. /\ Len(deferred) \in Nat /\ DOMAIN deferred = 1..Len(deferred)
        /\ Len(deferred') = Len(deferred) - 1 /\ DOMAIN deferred' = 1..Len(deferred')
        /\ \A i \in 1..Len(deferred') : deferred'[i] = deferred[i + 1]
    BY <2>1, HeadTailProperties, LenProperties
  <2>4. \A i \in DOMAIN deferred' : i + 1 \in DOMAIN deferred
                                   /\ deferred'[i] = deferred[i + 1]
    BY <2>3
  <2>5. \A i, j \in DOMAIN deferred' : i + 1 = j + 1 => i = j
    BY <2>3
  <2>6. Len(deferred) <= FeedbackCapacity => Len(deferred') <= FeedbackCapacity
    BY <2>3, PolicyAssumption
  <2> QED
    BY <2>1, <2>2, <2>4, <2>5, <2>6
       DEF StagedInv, StagedReportsFindTheirCommand, Working, Dispatching
<1>6. CASE RunPhases
  <2>1. deferred = <<>> /\ deferred' = <<>> /\ pc' = "work"
    BY <1>6 DEF RunPhases, StagedInv, staging
  <2>2. DOMAIN deferred' = {} /\ Len(deferred') = 0
    BY <2>1
  <2> QED
    BY <2>1, <2>2, PolicyAssumption
       DEF StagedInv, StagedReportsFindTheirCommand, Working, Dispatching
<1> QED
  BY <1>3, <1>4, <1>5, <1>6

LEMMA StagedIssuing ==
  ASSUME TypeInv, TypeInv', RecoveryInv, StagedInv, NEW t \in Targets,
         ClearDesire(t) \/ IssueUnneeded(t) \/ IssueAlreadyObserved(t)
         \/ Issue(t) \/ IssueThrows(t)
  PROVE  StagedInv'
<1> DEFINE cmds == SupersededCommands(t)
<1>1. /\ pc = "work" /\ desires[t] # NoValue /\ deferred' = deferred
      /\ now' = now /\ cursor' = cursor /\ cursor = 0
  <2>1. NoValue # Cleared
    BY ValueAssumption
  <2>2. cursor # 0 => desires = NoDesires
    BY DEF TypeInv, CursorAfterIssuing
  <2> QED
    BY <2>1, <2>2 DEF ClearDesire, IssueUnneeded, IssueAlreadyObserved, Issue, IssueThrows,
                      Issuing, FailFrame, staging, NoDesires
<1>2. \A u \in Targets : desires[u] = NoValue => desires'[u] = NoValue
  BY DEF ClearDesire, IssueUnneeded, IssueAlreadyObserved, Issue, IssueThrows,
         FailFrame, NoDesires, TypeInv, TypeOK
<1>3. cmds \in CommandMaps /\ commands \in CommandMaps /\ DOMAIN cmds = DOMAIN commands
  BY SupersededType DEF TypeInv, TypeOK
<1>4. ASSUME NEW i \in DOMAIN deferred
      PROVE  /\ InHand(deferred[i].command)
             /\ deferred[i].command \in DOMAIN cmds
             /\ cmds[deferred[i].command] = commands[deferred[i].command]
             /\ cmds[deferred[i].command].status = "Pending"
  <2>1. InHand(deferred[i].command)
    BY <1>1 DEF StagedInv, Working
  <2> QED
    BY <1>1, <2>1, InHandNotSuperseded DEF InHand, InHandOf
<1> HIDE DEF cmds
<1>5. ASSUME NEW i \in DOMAIN deferred, deferred[i].command \in DOMAIN commands',
             commands'[deferred[i].command] = commands[deferred[i].command]
      PROVE  StaysInHand(deferred[i].command)
  <2> DEFINE id == deferred[i].command
  <2>1. InHand(id) /\ commands[id].status = "Pending"
    BY <1>4 DEF InHand, InHandOf
  <2>2. cursor <= cursor' /\ now' = now
    BY <1>1
  <2> HIDE DEF id
  <2>3. id \in DOMAIN commands' /\ commands'[id] = commands[id]
    BY <1>5 DEF id
  <2>4. StaysInHand(id)
    BY <1>2, <2>1, <2>2, <2>3, InHandStays
  <2> QED
    BY <2>4 DEF id
<1>6. CASE ClearDesire(t) \/ IssueAlreadyObserved(t) \/ IssueUnneeded(t)
  <2>1. pc' = "work" /\ (commands' = cmds \/ commands' = commands)
    <3>1. CASE ClearDesire(t)
      BY <1>1, <3>1 DEF ClearDesire, Transition, SupersededCommands, cmds
    <3>2. CASE IssueAlreadyObserved(t) \/ IssueUnneeded(t)
      BY <1>1, <3>2 DEF IssueAlreadyObserved, IssueUnneeded, outbox, cmds
    <3> QED
      BY <1>6, <3>1, <3>2
  <2>2. \A i \in DOMAIN deferred :
          /\ deferred[i].command \in DOMAIN commands'
          /\ commands'[deferred[i].command] = commands[deferred[i].command]
    BY <1>3, <1>4, <2>1
  <2> QED
    BY <1>1, <1>5, <2>1, <2>2, StagedAtWork
<1>7. CASE IssueThrows(t)
  <2>1. pc' = "idle" /\ Prune(cmds, SupersededOrder(t), latestByTarget,
                              MaxRetainedCommands - 1)
    BY <1>7 DEF IssueThrows, FailFrame, cmds
  <2>2. \A i \in DOMAIN deferred : deferred[i].command \in DOMAIN commands'
    BY <1>3, <1>4, <2>1, InHandNotPruned
  <2> QED
    BY <1>1, <2>1, <2>2, StagedAtRest DEF Working
<1>8. CASE Issue(t)
  <2> DEFINE gone == Pruned(cmds, SupersededOrder(t), MaxRetainedCommands - 1)
             c == [target |-> t, desired |-> desires[t], issuedAt |-> now,
                   status |-> "Pending", retryIndex |-> 0]
             id == nextCommand
             rest == Without(cmds, gone)
  <2>1. /\ commands' = Put(rest, id, c) /\ id \in CommandIds
        /\ pc' = "attempt" /\ nextCommand' = id + 1
        /\ desires' = [desires EXCEPT ![t] = NoValue]
        /\ desires[t] \in Values
    BY <1>8 DEF Issue, CanIssue, cmds, Issuing, TypeInv, TypeOK
  <2>2. c \in Command /\ c.target = t /\ c.issuedAt = now /\ c.status = "Pending"
    BY <2>1, PolicyAssumption DEF Command, Statuses, TypeInv, TypeOK
  <2>3. \A x \in DOMAIN cmds : cmds[x].status = "Pending" => x \notin gone
    BY DEF Pruned, SettledAmong, Active
  <2> HIDE DEF gone, c
  <2>4. /\ rest \in CommandMaps /\ DOMAIN rest = DOMAIN cmds \ gone
        /\ \A x \in DOMAIN cmds \ gone : rest[x] = cmds[x]
    BY <1>3, WithoutProperties
  <2> HIDE DEF rest
  <2>5. /\ DOMAIN commands' = DOMAIN rest \cup {id} /\ commands'[id] = c
        /\ \A x \in DOMAIN rest : x # id => commands'[x] = rest[x]
    <3>1. /\ DOMAIN Put(rest, id, c) = DOMAIN rest \cup {id} /\ Put(rest, id, c)[id] = c
          /\ \A x \in DOMAIN rest : x # id => Put(rest, id, c)[x] = rest[x]
      BY <2>1, <2>2, <2>4, PutProperties
    <3> QED
      BY <2>1, <3>1
  <2>6. \A x \in DOMAIN commands : x # id
    <3>1. \A x \in DOMAIN commands : x \in CommandIds /\ x < nextCommand
      BY <1>3, MapElim DEF RecoveryInv, IdsRecorded, CommandsRecorded, Agree, AgreeButFor
    <3>2. id \in Nat /\ CommandIds \subseteq Nat
      BY <2>1, CommandIdsProperties
    <3> QED
      BY <3>1, <3>2
  <2>7. \A i \in DOMAIN deferred :
          /\ deferred[i].command \in DOMAIN commands'
          /\ commands'[deferred[i].command] = commands[deferred[i].command]
          /\ deferred[i].command # id
    BY <1>3, <1>4, <2>3, <2>4, <2>5, <2>6
  <2>8. current' = id
    BY <1>1, <2>1, CommandIdsProperties DEF current
  <2>9. StaysInHand(id)
    <3>1. desires'[t] = NoValue
      BY <2>1 DEF TypeInv, TypeOK
    <3> QED
      BY <1>1, <2>2, <2>5, <3>1 DEF StaysInHand, InHandOf
  <2>10. StagedReportsFindTheirCommand'
    BY <1>1, <2>7 DEF StagedInv, StagedReportsFindTheirCommand
  <2>11. \A i \in DOMAIN deferred : StaysInHand(deferred[i].command)
    BY <1>5, <2>7
  <2>12. InHand(current)'
    BY <2>8, <2>9 DEF InHand, StaysInHand
  <2>13. \A i \in DOMAIN deferred' : InHand(deferred[i].command)'
    BY <1>1, <2>11 DEF InHand, StaysInHand
  <2>14. \A i \in DOMAIN deferred' : deferred'[i].command # current'
    BY <1>1, <2>7, <2>8
  <2> QED
    BY <2>1, <2>10, <2>12, <2>13, <2>14 DEF StagedInv
<1> QED
  BY <1>6, <1>7, <1>8

\* A status change touches one command.
LEMMA TransitionKeeps ==
  ASSUME TypeOK, NEW id, NEW status \in Statuses, Transition(id, status)
  PROVE  /\ DOMAIN commands' = DOMAIN commands
         /\ \A x \in DOMAIN commands : x # id => commands'[x] = commands[x]
<1>1. commands \in CommandMaps /\ commands' = SetStatus(commands, id, status)
  BY DEF TypeOK, Transition
<1>2. /\ DOMAIN SetStatus(commands, id, status) = DOMAIN commands
      /\ \A x \in DOMAIN commands :
           SetStatus(commands, id, status)[x] =
             IF x = id THEN [commands[x] EXCEPT !.status = status] ELSE commands[x]
  BY <1>1, SetStatusProperties
<1> QED
  BY <1>1, <1>2

LEMMA ReportKeeps ==
  ASSUME TypeOK, NEW r \in Report, ApplyReport(r)
  PROVE  /\ DOMAIN commands' = DOMAIN commands
         /\ \A x \in DOMAIN commands : x # r.command => commands'[x] = commands[x]
<1>1. commands \in CommandMaps /\ r.status \in Statuses
  BY DEF TypeOK, Report
<1>2. commands' = commands \/ commands' = SetStatus(commands, r.command, r.status)
  BY DEF ApplyReport, outbox
<1>3. /\ DOMAIN SetStatus(commands, r.command, r.status) = DOMAIN commands
      /\ \A x \in DOMAIN commands :
           SetStatus(commands, r.command, r.status)[x] =
             IF x = r.command THEN [commands[x] EXCEPT !.status = r.status]
             ELSE commands[x]
  BY <1>1, SetStatusProperties
<1> QED
  BY <1>2, <1>3

LEMMA StagedDispatch ==
  ASSUME TypeInv, TypeInv', DispatchIsDue, StagedInv,
         RecordAttempt \/ AdapterReceives \/ DispatchRefused \/ DispatchThrows
         \/ DispatchAccepted \/ DispatchReported
  PROVE  StagedInv'
<1>1. /\ TypeOK /\ pc \in Dispatching /\ pc \in Working
      /\ now' = now /\ cursor' = cursor /\ desires' = desires
      /\ cursor \in Nat /\ deferred \in Seq(Report)
  <2>1. TypeOK /\ cursor \in Nat /\ deferred \in Seq(Report)
    BY BoundAssumption DEF TypeInv, TypeOK
  <2>2. /\ pc \in {"attempt", "call", "await"}
        /\ now' = now /\ cursor' = cursor /\ desires' = desires
    BY DEF RecordAttempt, AdapterReceives, DispatchRefused, DispatchThrows,
           DispatchAccepted, DispatchReported, DispatchReturns
  <2> QED
    BY <2>1, <2>2 DEF Dispatching, Working
<1>2. /\ InHand(current) /\ StagedReportsFindTheirCommand
      /\ \A i \in DOMAIN deferred : deferred[i].command # current
                                    /\ InHand(deferred[i].command)
  BY <1>1 DEF StagedInv
<1>3. ASSUME NEW id, InHand(id), id \in DOMAIN commands', commands'[id] = commands[id]
      PROVE  StaysInHand(id)
  <2>1. cursor <= cursor' /\ commands[id].status = "Pending"
    BY <1>1, <1>3 DEF InHand, InHandOf
  <2> QED
    BY <1>1, <1>3, <2>1, InHandStays
<1>4. ASSUME pc' = "work", deferred' = deferred,
             DOMAIN commands' = DOMAIN commands,
             \A x \in DOMAIN commands : x # current => commands'[x] = commands[x]
      PROVE  StagedInv'
  <2>1. ASSUME NEW i \in DOMAIN deferred PROVE StaysInHand(deferred[i].command)
    <3>1. deferred[i].command \in DOMAIN commands'
          /\ commands'[deferred[i].command] = commands[deferred[i].command]
      BY <1>2, <1>4 DEF InHand, InHandOf
    <3> QED
      BY <1>2, <1>3, <3>1
  <2> QED
    BY <1>4, <2>1, StagedAtWork
<1>5. {"Rejected", "Failed", "Indeterminate"} \subseteq Statuses
  BY DEF Statuses
<1>6. CASE RecordAttempt \/ AdapterReceives
  <2>1. /\ pc' \in Dispatching /\ deferred' = deferred /\ commands' = commands
        /\ nextCommand' = nextCommand
    BY <1>6 DEF RecordAttempt, AdapterReceives, Dispatching, outbox, staging
  <2>2. current' = current
    BY <1>1, <2>1 DEF current
  <2>3. InHand(current)' /\ \A i \in DOMAIN deferred' : InHand(deferred[i].command)'
    BY <1>1, <1>2, <2>1, <2>2 DEF InHand
  <2>4. pc' # "observations"
    BY <2>1 DEF Dispatching
  <2> QED
    BY <1>2, <2>1, <2>2, <2>3, <2>4 DEF StagedInv, StagedReportsFindTheirCommand
<1>7. CASE DispatchAccepted
  BY <1>4, <1>7 DEF DispatchAccepted, DispatchReturns, outbox
<1>8. CASE DispatchRefused \/ DispatchThrows
  <2>1. /\ pc' = "work" /\ deferred' = deferred
        /\ \/ commands' = commands
           \/ \E status \in Statuses : Transition(current, status)
    BY <1>5, <1>8 DEF DispatchRefused, DispatchThrows, DispatchReturns, outbox
  <2> QED
    BY <1>1, <1>4, <2>1, TransitionKeeps
<1>9. CASE DispatchReported
  <2>1. pc = "await" /\ pc' = "work"
    BY <1>9 DEF DispatchReported, DispatchReturns
  <2>2. PICK r \in ReportsOf({current}) :
          \/ ApplyReport(r) /\ deferred' = deferred
          \/ /\ Len(deferred) < FeedbackCapacity
             /\ deferred' = Append(deferred, r)
             /\ commands' = commands
          \/ Transition(current, "Indeterminate") /\ deferred' = deferred
    BY <1>9 DEF DispatchReported, outbox
  <2>3. r \in Report /\ r.command = current
    <3>1. current \in DOMAIN commands /\ {current} \in SUBSET CommandIds
      BY <1>1, <1>2, MapElim DEF InHand, InHandOf, TypeOK
    <3>2. r \in Report
      BY <1>1, <3>1, ReportsOfType
    <3> QED
      BY <3>2 DEF ReportsOf
  <2>4. CASE ApplyReport(r) /\ deferred' = deferred
    BY <1>1, <1>4, <2>1, <2>3, <2>4, ReportKeeps
  <2>5. CASE Transition(current, "Indeterminate") /\ deferred' = deferred
    BY <1>1, <1>4, <1>5, <2>1, <2>5, TransitionKeeps
  <2>6. CASE /\ Len(deferred) < FeedbackCapacity
             /\ deferred' = Append(deferred, r)
             /\ commands' = commands
    <3>1. /\ Len(deferred) \in Nat /\ DOMAIN deferred = 1..Len(deferred)
          /\ Len(deferred') = Len(deferred) + 1
          /\ DOMAIN deferred' = 1..(Len(deferred) + 1)
          /\ \A i \in 1..Len(deferred) : deferred'[i] = deferred[i]
          /\ deferred'[Len(deferred) + 1] = r
      BY <1>1, <2>3, <2>6, AppendProperties, LenProperties
    <3>2. \A i \in DOMAIN deferred' :
            \/ i \in DOMAIN deferred /\ deferred'[i] = deferred[i]
            \/ i = Len(deferred) + 1 /\ deferred'[i] = r
      BY <3>1
    <3>3. \A i \in DOMAIN deferred' : InHand(deferred'[i].command)
      BY <1>2, <2>3, <3>2
    <3>4. \A i \in DOMAIN deferred' : deferred'[i].command \in DOMAIN commands'
      BY <2>6, <3>3 DEF InHand, InHandOf
    <3>5. \A i, j \in DOMAIN deferred' :
            deferred'[i].command = deferred'[j].command => i = j
      BY <1>2, <2>3, <3>2 DEF StagedReportsFindTheirCommand
    <3>6. Len(deferred') <= FeedbackCapacity
      BY <2>6, <3>1, PolicyAssumption
    <3>7. \A i \in DOMAIN deferred' : InHand(deferred[i].command)'
      BY <1>1, <2>6, <3>3 DEF InHand
    <3> QED
      BY <2>1, <3>4, <3>5, <3>6, <3>7
         DEF StagedInv, StagedReportsFindTheirCommand, Dispatching
  <2> QED
    BY <2>2, <2>4, <2>5, <2>6
<1> QED
  BY <1>6, <1>7, <1>8, <1>9

\* retry_due visits no staged command, and completing the frame prunes none.
LEMMA StagedRetrying ==
  ASSUME TypeInv, TypeInv', StagedInv,
         (\E id \in DOMAIN commands : TimeOut(id) \/ Retry(id)) \/ CompleteFrame
  PROVE  StagedInv'
<1>1. TypeOK /\ pc = "work" /\ desires = NoDesires /\ deferred' = deferred
      /\ now' = now /\ desires' = desires /\ commands \in CommandMaps /\ cursor \in Nat
  <2>1. TypeOK /\ cursor \in Nat /\ commands \in CommandMaps
    BY BoundAssumption DEF TypeInv, TypeOK
  <2>2. /\ pc = "work" /\ desires = NoDesires /\ deferred' = deferred
        /\ now' = now /\ desires' = desires
    BY DEF TimeOut, Retry, CompleteFrame, Visits, AllIssued, staging
  <2> QED
    BY <2>1, <2>2
<1>2. \A i \in DOMAIN deferred : InHand(deferred[i].command)
  BY <1>1 DEF StagedInv, Working
<1>3. CASE CompleteFrame
  <2>1. /\ Prune(commands, terminalOrder, latestByTarget, MaxRetainedCommands)
        /\ pc' = "idle"
    BY <1>3 DEF CompleteFrame
  <2>2. \A i \in DOMAIN deferred : deferred[i].command \in DOMAIN commands'
    BY <1>1, <1>2, <2>1, InHandNotPruned DEF InHand, InHandOf
  <2> QED
    BY <1>1, <2>1, <2>2, StagedAtRest DEF Working
<1>4. ASSUME NEW id \in DOMAIN commands, Visits(id), cursor' = id,
             DOMAIN commands' = DOMAIN commands,
             \A x \in DOMAIN commands : x # id => commands'[x] = commands[x],
             NEW x, InHand(x)
      PROVE  x # id /\ StaysInHand(x)
  <2>1. x # id /\ x \in DOMAIN commands
    BY <1>4, InHandNotVisited DEF InHand, InHandOf
  <2>2. cursor <= cursor'
    <3>1. id \in Nat /\ id > cursor
      BY <1>1, <1>4, MapElim, CommandIdsProperties DEF Visits, Ready
    <3> QED
      BY <1>1, <1>4, <3>1
  <2>3. commands'[x] = commands[x] /\ x \in DOMAIN commands'
        /\ commands[x].status = "Pending"
    BY <1>4, <2>1 DEF InHand, InHandOf
  <2> QED
    BY <1>1, <1>4, <2>1, <2>2, <2>3, InHandStays
<1>5. ASSUME NEW id \in DOMAIN commands, TimeOut(id) PROVE StagedInv'
  <2>1. Visits(id) /\ cursor' = id /\ Transition(id, "TimedOut") /\ pc' = "work"
        /\ "TimedOut" \in Statuses
    BY <1>1, <1>5 DEF TimeOut, Statuses
  <2>2. /\ DOMAIN commands' = DOMAIN commands
        /\ \A x \in DOMAIN commands : x # id => commands'[x] = commands[x]
    BY <1>1, <2>1, TransitionKeeps
  <2>3. \A i \in DOMAIN deferred : StaysInHand(deferred[i].command)
    BY <1>2, <1>4, <2>1, <2>2
  <2> QED
    BY <1>1, <2>1, <2>3, StagedAtWork
<1>6. ASSUME NEW id \in DOMAIN commands, Retry(id) PROVE StagedInv'
  <2>1. Visits(id) /\ cursor' = id /\ pc' = "attempt"
    BY <1>6 DEF Retry
  <2>2. /\ DOMAIN commands' = DOMAIN commands
        /\ commands' = [x \in DOMAIN commands |->
             IF x = id
             THEN [commands[x] EXCEPT !.retryIndex = commands[x].retryIndex + 1]
             ELSE commands[x]]
    BY <1>6, RetryType
  <2>3. \A x \in DOMAIN commands : x # id => commands'[x] = commands[x]
    BY <2>2
  <2>4. \A i \in DOMAIN deferred : /\ deferred[i].command # id
                                   /\ StaysInHand(deferred[i].command)
    BY <1>2, <1>4, <2>1, <2>2, <2>3
  <2>5. commands[id] \in Command /\ id \in Nat /\ id # 0
    <3>1. id \in CommandIds
      BY <1>1, MapElim
    <3> QED
      BY <1>1, <3>1, MapElim, BoundAssumption DEF CommandIds
  <2>6. commands'[id].status = "Pending" /\ commands'[id].target \in Targets
    BY <2>1, <2>2, <2>5 DEF Visits, Ready, Command
  <2>7. StaysInHand(id)
    BY <1>1, <2>1, <2>2, <2>5, <2>6 DEF StaysInHand, InHandOf, NoDesires
  <2>8. current' = id
    BY <2>1, <2>5 DEF current
  <2>9. InHand(current)' /\ \A i \in DOMAIN deferred' : InHand(deferred[i].command)'
    BY <1>1, <2>4, <2>7, <2>8 DEF InHand, StaysInHand
  <2>10. StagedReportsFindTheirCommand'
    BY <1>1, <2>2 DEF StagedInv, StagedReportsFindTheirCommand
  <2> QED
    BY <1>1, <2>1, <2>4, <2>8, <2>9, <2>10 DEF StagedInv
<1> QED
  BY <1>3, <1>5, <1>6

LEMMA StagedHost ==
  ASSUME TypeInv, StagedInv, Host
  PROVE  StagedInv'
<1>1. TypeOK /\ commands \in CommandMaps
  BY DEF TypeInv, TypeOK
<1>2. \A i \in DOMAIN deferred : deferred[i].command \in DOMAIN commands
  BY DEF StagedInv, StagedReportsFindTheirCommand
<1>3. ASSUME deferred' = deferred, DOMAIN commands' = DOMAIN commands,
             pc' \in {"idle", "flush"}
      PROVE  StagedInv'
  BY <1>2, <1>3, StagedAtRest DEF Working
<1>4. ASSUME NEW route \in Routes, RegisterAdapter(route) PROVE StagedInv'
  <2>1. commands' = Marked(commands, Uncertain(route))
    BY <1>1, <1>4, RegisterAdapterLog
  <2> QED
    BY <1>1, <1>3, <1>4, <2>1, MarkedProperties DEF RegisterAdapter, frame
<1>5. ASSUME NEW t \in Targets, Reconcile(t) PROVE StagedInv'
  <2>1. PICK status \in {"Applied", "Failed"} :
          commands' = SetStatus(commands, latestByTarget[t], status)
    BY <1>5 DEF Reconcile
  <2>2. DOMAIN commands' = DOMAIN commands
    BY <1>1, <2>1, SetStatusProperties DEF Statuses
  <2> QED
    BY <1>3, <1>5, <2>2 DEF Reconcile, staging
<1>6. CASE ReconcileFlush \/ Checkpoint
  BY <1>3, <1>6 DEF ReconcileFlush, Checkpoint, outbox, staging, frame
<1>7. ASSUME NEW k \in 1..Len(journal), Restart(k) PROVE StagedInv'
  <2>1. deferred' = <<>> /\ pc' = "idle"
    BY <1>7 DEF Restart
  <2>2. DOMAIN deferred' = {} /\ Len(deferred') = 0
    BY <2>1
  <2> QED
    BY <2>1, <2>2, PolicyAssumption
       DEF StagedInv, StagedReportsFindTheirCommand, Working, Dispatching
<1> QED
  BY <1>4, <1>5, <1>6, <1>7 DEF Host

LEMMA StagedStep ==
  ASSUME TypeInv, TypeInv', RecoveryInv, RedispatchInv, StagedInv, [Next]_vars
  PROVE  StagedInv'
<1>1. CASE Frame
  BY <1>1, StagedFeedback, StagedIssuing, StagedDispatch, StagedRetrying
     DEF Frame, RedispatchInv
<1>2. CASE Host
  BY <1>2, StagedHost
<1>3. CASE Environment \/ UNCHANGED vars
  <2>1. UNCHANGED <<deferred, commands, desires, now, cursor, pc, nextCommand>>
    BY <1>3 DEF Environment, DeviceExecutes, AdapterLosesTrack, DeviceChanges, vars, outbox, staging, frame
  <2> QED
    BY <2>1 DEF StagedInv, StagedReportsFindTheirCommand, InHand, InHandOf, current
<1> QED
  BY <1>1, <1>2, <1>3 DEF Next

LEMMA CapacityInit == Init => RetentionInv /\ StagedInv
<1> SUFFICES ASSUME Init PROVE RetentionInv /\ StagedInv
  OBVIOUS
<1>1. /\ DOMAIN commands = {} /\ deferred = <<>> /\ pc = "idle"
      /\ Len(journal) = 1 /\ DOMAIN journal[1].commands = {}
  BY DEF Init, NoCommands
<1>2. Cardinality({}) = 0 /\ 0 <= MaxRetainedCommands /\ 0 <= FeedbackCapacity
  BY FS_EmptySet, PolicyAssumption
<1>3. Settled(commands) = {} /\ Unsettled(journal[1].commands) = {}
  BY <1>1 DEF Settled, Unsettled
<1>4. \A k \in 1..Len(journal) : k = 1
  BY <1>1
<1>5. RetentionInv
  BY <1>1, <1>2, <1>3, <1>4
     DEF RetentionInv, CommandsBounded, SettledListed, LogBounded
<1>6. DOMAIN deferred = {} /\ Len(deferred) = 0
  BY <1>1
<1> QED
  BY <1>1, <1>2, <1>5, <1>6
     DEF StagedInv, StagedReportsFindTheirCommand, Working, Dispatching

\* The two limits lose nothing: commands, retained or rebuilt from any part of
\* the log, never exceed maxRetainedCommands, and no report staged by dispatch()
\* is dropped or loses its command, whatever is superseded, timed out, retried,
\* pruned or restarted meanwhile.
THEOREM CapacityHolds == Spec => []WithinCapacity
<1> DEFINE Inv == /\ TypeInv /\ RecoveryInv /\ WriteAheadInv /\ RedispatchInv
                  /\ RetentionInv /\ StagedInv
<1>1. Init => Inv
  BY InitType, RecoveryInit, WriteAheadInit, RedispatchInit, CapacityInit
<1>2. Inv /\ [Next]_vars => Inv'
  <2> SUFFICES ASSUME Inv, [Next]_vars PROVE Inv'
    OBVIOUS
  <2>1. TypeInv' /\ RecoveryInv' /\ WriteAheadInv' /\ RedispatchInv'
    BY TypeStep, RecoveryStep, WriteAheadStep, RedispatchStep
  <2>2. RetentionInv' /\ StagedInv'
    BY <2>1, RetentionStep, StagedStep
  <2> QED
    BY <2>1, <2>2
<1>3. Inv => WithinCapacity
  <2> SUFFICES ASSUME Inv PROVE WithinCapacity
    OBVIOUS
  <2>1. journal \in Logs /\ DOMAIN journal = 1..Len(journal)
    BY RecordedType, LogProperties DEF TypeInv
  <2> QED
    BY <2>1 DEF WithinCapacity, RetentionBounded, RetentionInv, StagedInv, CommandsBounded,
                SettledListed, LogBounded, Unsettled
<1> QED
  BY <1>1, <1>2, <1>3, PTL DEF Spec

-----------------------------------------------------------------------------
(* Without reconciliation, what is observed is real *)

\* What a record rebuilds was the state of the devices, at that revision.
RealIn(dev, p) ==
  \A t \in Targets :
    IF p.revisions[t] = 0 THEN p.observed[t] = NoValue
    ELSE p.revisions[t] \in 1..Len(dev[t]) /\ p.observed[t] = dev[t][p.revisions[t]]
LogReal(dev, j) == \A k \in 1..Len(j) : RealIn(dev, j[k])

\* The device had this value at this revision.
Had(dev, t, value, revision) == revision \in 1..Len(dev[t]) /\ value = dev[t][revision]

\* Adapters report what a device made of a delivery.
Backed(dev, e) ==
  \E s \in sent : /\ s.command = e.command
                  /\ e.revision \in 1..Len(dev[s.target])
                  /\ e.value = dev[s.target][e.revision]

RealInv ==
  /\ LogReal(device, journal)
  /\ \A e \in evidence : e.status = "Applied" => Backed(device, e)
  /\ \A i \in DOMAIN deferred : deferred[i].status = "Applied" => deferred[i] \in evidence

LEMMA RealAppend ==
  ASSUME NEW j \in Logs, LogReal(device, j), NEW p \in Projection,
         \/ RealIn(device, p)
         \/ /\ p.observed = Rebuilt(j).observed
            /\ p.revisions = Rebuilt(j).revisions
  PROVE  LogReal(device, Append(j, p))
<1>1. Len(j) \in Nat \ {0} /\ Rebuilt(j) = j[Len(j)]
  BY LogProperties DEF Rebuilt
<1>2. /\ Len(Append(j, p)) = Len(j) + 1
      /\ \A k \in 1..Len(j) : Append(j, p)[k] = j[k]
      /\ Append(j, p)[Len(j) + 1] = p
  BY AppendedProperties, AppendProperties DEF Logs
<1>3. RealIn(device, p)
  <2>1. RealIn(device, Rebuilt(j))
    BY <1>1 DEF LogReal
  <2> QED
    BY <2>1 DEF RealIn
<1>4. ASSUME NEW k \in 1..Len(Append(j, p)) PROVE RealIn(device, Append(j, p)[k])
  <2>1. CASE k = Len(j) + 1
    BY <1>2, <1>3, <2>1
  <2>2. CASE k \in 1..Len(j)
    BY <1>2, <2>2 DEF LogReal
  <2> QED
    BY <1>1, <1>2, <2>1, <2>2
<1> QED
  BY <1>4 DEF LogReal

LEMMA RealStatus ==
  ASSUME NEW j \in Logs, LogReal(device, j), NEW id, NEW status \in Statuses
  PROVE  LogReal(device, LogStatus(j, id, status))
<1>1. PICK p \in Projection :
        /\ LogStatus(j, id, status) = Append(j, p)
        /\ p.commands = SetStatus(Rebuilt(j).commands, id, status)
        /\ p.observed = Rebuilt(j).observed
        /\ p.revisions = Rebuilt(j).revisions
  BY LogStatusProperties
<1> QED
  BY <1>1, RealAppend

LEMMA RealCommand ==
  ASSUME NEW j \in Logs, LogReal(device, j), NEW id \in CommandIds, NEW c \in Command
  PROVE  LogReal(device, LogCommand(j, id, c))
<1>1. PICK p \in Projection :
        /\ LogCommand(j, id, c) = Append(j, p)
        /\ p.commands = Put(Rebuilt(j).commands, id, c)
        /\ p.observed = Rebuilt(j).observed
        /\ p.revisions = Rebuilt(j).revisions
  BY LogCommandProperties
<1> QED
  BY <1>1, RealAppend

LEMMA RealFlushed ==
  ASSUME NEW j \in Logs, LogReal(device, j)
  PROVE  LogReal(device, Flushed(j))
<1>1. Len(j) \in Nat \ {0} /\ Rebuilt(j) = j[Len(j)]
  BY LogProperties DEF Rebuilt
<1>2. Len(Flushed(j)) = 1 /\ Flushed(j)[1] = Rebuilt(j)
  BY FlushedProperties
<1>3. \A k \in 1..Len(Flushed(j)) : Flushed(j)[k] = j[Len(j)]
  BY <1>1, <1>2
<1> QED
  BY <1>1, <1>3 DEF LogReal

LEMMA RealObserved ==
  ASSUME NEW j \in Logs, LogReal(device, j), NEW t \in Targets,
         NEW value \in Values \cup {NoValue}, NEW revision \in Nat,
         Had(device, t, value, revision)
  PROVE  LogReal(device, LogObserved(j, t, value, revision))
<1>1. PICK p \in Projection :
        /\ LogObserved(j, t, value, revision) = Append(j, p)
        /\ p.commands = Rebuilt(j).commands
        /\ p.observed = [Rebuilt(j).observed EXCEPT ![t] = value]
        /\ p.revisions = [Rebuilt(j).revisions EXCEPT ![t] = revision]
  BY LogObservedProperties
<1>2. RealIn(device, Rebuilt(j)) /\ Rebuilt(j) \in Projection
  BY LogProperties DEF LogReal, Rebuilt
<1>3. /\ Rebuilt(j).observed \in [Targets -> Values \cup {NoValue}]
      /\ Rebuilt(j).revisions \in [Targets -> Nat]
  BY <1>2 DEF Projection
<1>4. RealIn(device, p)
  <2> SUFFICES ASSUME NEW u \in Targets
               PROVE  IF p.revisions[u] = 0 THEN p.observed[u] = NoValue
                      ELSE /\ p.revisions[u] \in 1..Len(device[u])
                           /\ p.observed[u] = device[u][p.revisions[u]]
    BY DEF RealIn
  <2>1. CASE u = t
    <3>1. p.revisions[t] = revision /\ p.observed[t] = value
      BY <1>1, <1>3
    <3>2. revision \in 1..Len(device[t]) /\ value = device[t][revision] /\ revision # 0
      BY DEF Had
    <3> QED
      BY <2>1, <3>1, <3>2
  <2>2. CASE u # t
    BY <1>1, <1>2, <1>3, <2>2 DEF RealIn
  <2> QED
    BY <2>1, <2>2
<1> QED
  BY <1>1, <1>4, RealAppend

\* commit_authoritative of a state the device had.
LEMMA RealCommit ==
  ASSUME TypeOK, NEW j \in Logs, LogReal(device, j), NEW t \in Targets, NEW value,
         NEW revision, Had(device, t, value, revision),
         CommitAuthoritative(j, t, value, revision)
  PROVE  LogReal(device, journal')
<1>1. device[t] \in Seq(Values)
  BY DEF TypeOK
<1>2. value \in Values \cup {NoValue} /\ revision \in Nat
  BY <1>1, ElementOfSeq, LenProperties DEF Had
<1> QED
  BY <1>2, RealObserved DEF CommitAuthoritative

\* A genuine report of success commits what the device had.
LEMMA RealReport ==
  ASSUME TypeInv, RecoveryInv, WriteAheadInv, RealInv, NEW r \in Report,
         r.status = "Applied" => r \in evidence, ApplyReport(r)
  PROVE  LogReal(device, journal')
<1> DEFINE id == r.command
           t == commands[id].target
           fresh == commands[id].status # "Superseded"
           logged == IF fresh THEN LogStatus(journal, id, r.status) ELSE journal
<1>1. journal \in Logs /\ commands \in CommandMaps /\ r.status \in Statuses
      /\ LogReal(device, journal) /\ TypeOK
  BY RecordedType DEF TypeInv, Report, RealInv
<1>2. CASE ~Acceptable(r)
  BY <1>1, <1>2 DEF ApplyReport
<1>3. CASE Acceptable(r)
  <2>1. \/ /\ CommitAuthoritative(logged, t, r.value, r.revision)
           /\ r.status = "Applied"
        \/ journal' = logged
    BY <1>3 DEF ApplyReport
  <2>2. t \in Targets /\ r.command \in DOMAIN commands
    BY <1>1, <1>3, MapElim DEF Acceptable, Command
  <2>3. logged \in Logs /\ LogReal(device, logged)
    BY <1>1, RebuiltStatus, RealStatus
  <2> HIDE DEF logged
  <2>4. CASE journal' = logged
    BY <2>3, <2>4
  <2>5. CASE CommitAuthoritative(logged, t, r.value, r.revision) /\ r.status = "Applied"
    <3>1. PICK s \in sent : /\ s.command = r.command
                            /\ r.revision \in 1..Len(device[s.target])
                            /\ r.value = device[s.target][r.revision]
      BY <2>5 DEF RealInv, Backed
    <3>2. s.target = t
      BY <2>2, <3>1, DeliveredRecorded
    <3>3. r.revision \in 1..Len(device[t]) /\ r.value = device[t][r.revision]
      BY <3>1, <3>2
    <3> HIDE DEF t
    <3> QED
      BY <1>1, <2>2, <2>3, <2>5, <3>3, RealCommit DEF Had
  <2> QED
    BY <2>1, <2>4, <2>5
<1> QED
  BY <1>2, <1>3

LEMMA GenuineSuccess ==
  ASSUME NEW ids, NEW r \in ReportsOf(ids), r.status = "Applied"
  PROVE  r \in evidence
BY PolicyAssumption DEF ReportsOf

LEMMA RealFrame ==
  ASSUME TypeInv, RecoveryInv, WriteAheadInv, RealInv, Frame
  PROVE  LogReal(device, journal')
<1>1. journal \in Logs /\ TypeOK /\ LogReal(device, journal)
  BY RecordedType DEF TypeInv, RealInv
<1>2. LogReal(device, Flushed(journal))
  BY <1>1, RealFlushed
<1>3. CASE BeginFrame \/ ReportsDrained \/ RunPhases \/ AdapterReceives
           \/ DispatchAccepted
  BY <1>1, <1>3 DEF BeginFrame, ReportsDrained, RunPhases, AdapterReceives,
                    DispatchAccepted
<1>4. CASE ReceiveDeferred
  <2>1. deferred \in Seq(Report) /\ deferred # <<>> /\ ApplyReport(Head(deferred))
    BY <1>1, <1>4 DEF ReceiveDeferred, TypeOK
  <2>2. Head(deferred) = deferred[1] /\ 1 \in DOMAIN deferred
    BY <2>1, EmptySeq, LenProperties
  <2>3. /\ Head(deferred) \in Report
        /\ Head(deferred).status = "Applied" => Head(deferred) \in evidence
    BY <2>1, <2>2, HeadTailProperties DEF RealInv
  <2> QED
    BY <2>1, <2>3, RealReport
<1>5. CASE ReceiveReport
  <2>1. {s.command : s \in sent} \in SUBSET CommandIds
    BY <1>1 DEF TypeOK, Delivery
  <2>2. PICK r \in ReportsOf({s.command : s \in sent}) : ApplyReport(r)
    BY <1>5 DEF ReceiveReport
  <2>3. r \in Report /\ (r.status = "Applied" => r \in evidence)
    BY <1>1, <2>1, ReportsOfType, GenuineSuccess
  <2> QED
    BY <2>2, <2>3, RealReport
<1>6. CASE ReceiveObservation
  <2>1. PICK t \in Targets : \E revision \in 1..Len(device[t]) :
          ApplyObservation(t, device[t][revision], revision)
    BY <1>6 DEF ReceiveObservation
  <2>2. PICK revision \in 1..Len(device[t]) :
          ApplyObservation(t, device[t][revision], revision)
    BY <2>1
  <2> QED
    BY <1>1, <2>2, RealCommit DEF ApplyObservation, Had
<1>7. CASE FrameThrows
  BY <1>1, <1>2, <1>7 DEF FrameThrows, FailFrame
<1>8. {"Superseded", "Rejected", "Failed", "Indeterminate", "TimedOut"} \subseteq Statuses
  BY DEF Statuses
<1>9. ASSUME NEW id, NEW status \in Statuses, Transition(id, status)
      PROVE  LogReal(device, journal')
  BY <1>1, <1>9, RealStatus DEF Transition
<1>10. ASSUME NEW t \in Targets,
              ClearDesire(t) \/ IssueUnneeded(t) \/ IssueAlreadyObserved(t)
              \/ Issue(t) \/ IssueThrows(t)
       PROVE  LogReal(device, journal')
  <2>1. SupersededJournal(t) \in Logs /\ LogReal(device, SupersededJournal(t))
    BY <1>1, <1>8, SupersededType, RealStatus DEF SupersededJournal
  <2>2. CASE ClearDesire(t)
    BY <1>8, <1>9, <2>2 DEF ClearDesire
  <2>3. CASE IssueUnneeded(t) \/ IssueAlreadyObserved(t)
    BY <1>1, <2>1, <2>3 DEF IssueUnneeded, IssueAlreadyObserved
  <2>4. CASE Issue(t)
    <3>1. PICK rest \in CommandMaps, c \in Command :
            /\ nextCommand \in CommandIds
            /\ journal' = LogCommand(SupersededJournal(t), nextCommand, c)
      BY <2>4, IssueEvolves
    <3> QED
      BY <2>1, <3>1, RealCommand
  <2>5. CASE IssueThrows(t)
    BY <2>1, <2>5, RealFlushed DEF IssueThrows, FailFrame
  <2> QED
    BY <1>10, <2>2, <2>3, <2>4, <2>5
<1>11. CASE RecordAttempt
  <2>1. pc = "attempt" /\ journal' = Flushed(LogAttempt(journal, current, Attempt))
    BY <1>11 DEF RecordAttempt
  <2>2. Attempt \in 1..(Len(RetryDelays) + 1)
    <3>1. commands[current] \in Command
      BY <1>1, <2>1, MapElim DEF TypeInv, CurrentIsRetained, TypeOK
    <3>2. commands[current].retryIndex \in 0..Len(RetryDelays)
          /\ Len(RetryDelays) \in Nat
      BY <3>1, PolicyAssumption DEF Command
    <3> QED
      BY <3>2 DEF Attempt
  <2> DEFINE a == Attempt
  <2>a. a \in 1..(Len(RetryDelays) + 1)
    BY <2>2
  <2> HIDE DEF a
  <2>b. \E p \in Projection :
          /\ LogAttempt(journal, current, a) = Append(journal, p)
          /\ DOMAIN p.commands = DOMAIN Rebuilt(journal).commands
          /\ \A x \in DOMAIN p.commands :
               p.commands[x] =
                 IF x = current /\ Rebuilt(journal).commands[x].retryIndex < a - 1
                 THEN [Rebuilt(journal).commands[x] EXCEPT !.retryIndex = a - 1]
                 ELSE Rebuilt(journal).commands[x]
          /\ p.observed = Rebuilt(journal).observed
          /\ p.revisions = Rebuilt(journal).revisions
    BY ONLY <1>1, <2>a, LogAttemptProperties
  <2>3. PICK p \in Projection :
          /\ LogAttempt(journal, current, Attempt) = Append(journal, p)
          /\ DOMAIN p.commands = DOMAIN Rebuilt(journal).commands
          /\ \A x \in DOMAIN p.commands :
               p.commands[x] =
                 IF x = current /\ Rebuilt(journal).commands[x].retryIndex < Attempt - 1
                 THEN [Rebuilt(journal).commands[x] EXCEPT !.retryIndex = Attempt - 1]
                 ELSE Rebuilt(journal).commands[x]
          /\ p.observed = Rebuilt(journal).observed
          /\ p.revisions = Rebuilt(journal).revisions
    BY <2>b, Zenon DEF a
  <2>4. LogReal(device, Append(journal, p)) /\ Append(journal, p) \in Logs
    BY <1>1, <2>3, RealAppend, AppendedProperties
  <2> QED
    BY <2>1, <2>3, <2>4, RealFlushed
<1>12. CASE DispatchRefused \/ DispatchThrows
  BY <1>1, <1>8, <1>9, <1>12 DEF DispatchRefused, DispatchThrows
<1>13. CASE DispatchReported
  <2>1. {current} \in SUBSET CommandIds
    <3>1. pc = "await"
      BY <1>13 DEF DispatchReported, DispatchReturns
    <3> QED
      BY <1>1, <3>1, MapElim DEF TypeInv, CurrentIsRetained, TypeOK
  <2>2. PICK r \in ReportsOf({current}) :
          \/ ApplyReport(r)
          \/ journal' = journal
          \/ Transition(current, "Indeterminate")
    BY <1>13 DEF DispatchReported
  <2>3. r \in Report /\ (r.status = "Applied" => r \in evidence)
    BY <1>1, <2>1, ReportsOfType, GenuineSuccess
  <2> QED
    BY <1>1, <1>8, <1>9, <2>2, <2>3, RealReport
<1>14. ASSUME NEW id \in DOMAIN commands, TimeOut(id) \/ Retry(id)
       PROVE  LogReal(device, journal')
  BY <1>1, <1>8, <1>9, <1>14 DEF TimeOut, Retry
<1>15. CASE CompleteFrame
  BY <1>2, <1>15 DEF CompleteFrame
<1> QED
  BY <1>3, <1>4, <1>5, <1>6, <1>7, <1>10, <1>11, <1>12, <1>13, <1>14, <1>15 DEF Frame

LEMMA RealHost ==
  ASSUME TypeInv, RealInv, Host, \A t \in Targets : ~Reconcile(t)
  PROVE  LogReal(device, journal')
<1>1. journal \in Logs /\ TypeOK /\ LogReal(device, journal)
  BY RecordedType DEF TypeInv, RealInv
<1>2. ASSUME NEW route \in Routes, RegisterAdapter(route)
      PROVE  LogReal(device, journal')
  <2>1. CASE journal' = journal
    BY <1>1, <2>1
  <2>2. ASSUME NEW p \in Projection, journal' = <<p>>,
               p.observed = Rebuilt(journal).observed,
               p.revisions = Rebuilt(journal).revisions
        PROVE  LogReal(device, journal')
    <3>1. RealIn(device, Rebuilt(journal))
      BY <1>1, LogProperties DEF LogReal, Rebuilt
    <3>2. RealIn(device, p)
      BY <2>2, <3>1 DEF RealIn
    <3>3. \A k \in 1..Len(journal') : journal'[k] = p
      BY <2>2
    <3> QED
      BY <3>2, <3>3 DEF LogReal
  <2> QED
    BY <1>1, <1>2, <2>1, <2>2, RegisterAdapterLog
<1>3. CASE ReconcileFlush \/ Checkpoint
  BY <1>1, <1>3, RealFlushed DEF ReconcileFlush, Checkpoint
<1>4. ASSUME NEW k \in 1..Len(journal), Restart(k)
      PROVE  LogReal(device, journal')
  <2>1. journal' = SubSeq(journal, 1, k)
    BY <1>4 DEF Restart
  <2>2. /\ Len(SubSeq(journal, 1, k)) = k
        /\ \A n \in 1..k : SubSeq(journal, 1, k)[n] = journal[n]
    BY <1>1, PrefixProperties
  <2>3. \A n \in 1..k : n \in 1..Len(journal)
    BY <1>1, LogProperties
  <2> QED
    BY <1>1, <2>1, <2>2, <2>3 DEF LogReal
<1> QED
  BY <1>2, <1>3, <1>4 DEF Host

\* A device's history only grows, and so does what adapters can report.
LEMMA RealEnvironment ==
  ASSUME TypeInv, RealInv, Environment
  PROVE  RealInv'
<1>1. UNCHANGED <<journal, deferred, sent>>
  BY DEF Environment, DeviceExecutes, AdapterLosesTrack, DeviceChanges, staging
<1>2. device \in [Targets -> Seq(Values)] /\ sent \subseteq Delivery
      /\ journal \in Logs
  BY RecordedType DEF TypeInv, TypeOK
<1>3. \/ UNCHANGED device
      \/ \E t \in Targets, v \in Values : device' = [device EXCEPT ![t] = Append(@, v)]
  BY <1>2 DEF Environment, DeviceExecutes, AdapterLosesTrack, DeviceChanges, Delivery
<1>4. ASSUME NEW u \in Targets
      PROVE  /\ 1..Len(device[u]) \subseteq 1..Len(device'[u])
             /\ \A n \in 1..Len(device[u]) : device'[u][n] = device[u][n]
  <2>1. device[u] \in Seq(Values) /\ Len(device[u]) \in Nat
    BY <1>2, LenProperties
  <2>0. CASE UNCHANGED device
    BY <2>0
  <2>a. SUFFICES ASSUME NEW t \in Targets, NEW v \in Values,
                        device' = [device EXCEPT ![t] = Append(@, v)]
                 PROVE  /\ 1..Len(device[u]) \subseteq 1..Len(device'[u])
                        /\ \A n \in 1..Len(device[u]) : device'[u][n] = device[u][n]
    BY <1>3, <2>0
  <2>2. CASE u = t
    <3>1. device'[u] = Append(device[u], v)
      BY <1>2, <2>a, <2>2
    <3>2. /\ Len(Append(device[u], v)) = Len(device[u]) + 1
          /\ \A n \in 1..Len(device[u]) : Append(device[u], v)[n] = device[u][n]
      BY <2>1, AppendProperties
    <3> QED
      BY <2>1, <3>1, <3>2
  <2>3. CASE u # t
    BY <1>2, <2>a, <2>3
  <2> QED
    BY <2>2, <2>3
<1>5. ASSUME NEW p, RealIn(device, p) PROVE RealIn(device', p)
  <2> SUFFICES ASSUME NEW u \in Targets, p.revisions[u] # 0
               PROVE  /\ p.revisions[u] \in 1..Len(device'[u])
                      /\ p.observed[u] = device'[u][p.revisions[u]]
    BY <1>5 DEF RealIn
  <2>1. /\ p.revisions[u] \in 1..Len(device[u])
        /\ p.observed[u] = device[u][p.revisions[u]]
    BY <1>5 DEF RealIn
  <2> QED
    BY <1>4, <2>1
<1>6. LogReal(device, journal)'
  BY <1>1, <1>5 DEF RealInv, LogReal
<1>7. ASSUME NEW e, Backed(device, e)
      PROVE  \E s \in sent : /\ s.command = e.command
                             /\ e.revision \in 1..Len(device'[s.target])
                             /\ e.value = device'[s.target][e.revision]
  <2>1. PICK s \in sent : /\ s.command = e.command
                          /\ e.revision \in 1..Len(device[s.target])
                          /\ e.value = device[s.target][e.revision]
    BY <1>7 DEF Backed
  <2>2. s.target \in Targets
    BY <1>2 DEF Delivery
  <2> QED
    BY <1>4, <2>1, <2>2
<1>8. ASSUME NEW e \in evidence' \ evidence, e.status = "Applied"
      PROVE  \E s \in sent : /\ s.command = e.command
                             /\ e.revision \in 1..Len(device'[s.target])
                             /\ e.value = device'[s.target][e.revision]
  <2>1. PICK s \in sent :
          /\ device' = [device EXCEPT ![s.target] = Append(@, s.value)]
          /\ e = [command |-> s.command, status |-> "Applied", value |-> s.value,
                  revision |-> Len(device[s.target]) + 1]
    <3>1. PICK s \in sent : DeviceExecutes(s) \/ AdapterLosesTrack(s)
      BY <1>8 DEF Environment, DeviceChanges
    <3>2. ~AdapterLosesTrack(s)
      <4> SUFFICES ASSUME AdapterLosesTrack(s) PROVE FALSE
        OBVIOUS
      <4>1. e = [command |-> s.command, status |-> "Indeterminate",
                 value |-> NoValue, revision |-> s.command]
        BY <1>8 DEF AdapterLosesTrack
      <4>2. e.status = "Indeterminate"
        BY <4>1
      <4> QED
        BY <1>8, <4>2
    <3> QED
      BY <1>8, <3>1, <3>2 DEF DeviceExecutes
  <2>2. s.target \in Targets /\ s.value \in Values
    BY <1>2 DEF Delivery
  <2>3. device[s.target] \in Seq(Values) /\ device'[s.target] = Append(device[s.target], s.value)
    BY <1>2, <2>1, <2>2
  <2>4. /\ Len(device[s.target]) \in Nat
        /\ Len(device'[s.target]) = Len(device[s.target]) + 1
        /\ device'[s.target][Len(device[s.target]) + 1] = s.value
    BY <2>2, <2>3, AppendProperties, LenProperties
  <2>5. /\ e.command = s.command /\ e.value = s.value
        /\ e.revision = Len(device[s.target]) + 1
    BY <2>1
  <2> QED
    BY <2>4, <2>5
<1>9. \A e \in evidence' : e.status = "Applied" => Backed(device, e)'
  BY <1>1, <1>7, <1>8 DEF RealInv, Backed
<1>10. evidence \subseteq evidence'
  BY DEF Environment, DeviceExecutes, AdapterLosesTrack, DeviceChanges
<1>11. \A i \in DOMAIN deferred' :
         deferred'[i].status = "Applied" => deferred'[i] \in evidence'
  BY <1>1, <1>10 DEF RealInv
<1> QED
  BY <1>6, <1>9, <1>11 DEF RealInv

\* Only dispatch() stages reports, and only ones that the adapter sent.
LEMMA StagedEvidence ==
  ASSUME TypeInv, RealInv, Frame \/ Host
  PROVE  \A i \in DOMAIN deferred' :
           deferred'[i].status = "Applied" => deferred'[i] \in evidence
<1>1. deferred \in Seq(Report)
      /\ \A i \in DOMAIN deferred : deferred[i].status = "Applied" => deferred[i] \in evidence
  BY DEF TypeInv, TypeOK, RealInv
<1>2. CASE deferred' = deferred
  BY <1>1, <1>2
<1>3. CASE ReceiveDeferred
  <2>1. deferred # <<>> /\ deferred' = Tail(deferred)
    BY <1>3 DEF ReceiveDeferred
  <2>2. /\ Len(deferred) \in Nat /\ DOMAIN deferred = 1..Len(deferred)
        /\ Len(deferred') = Len(deferred) - 1 /\ DOMAIN deferred' = 1..Len(deferred')
        /\ \A i \in 1..Len(deferred') : deferred'[i] = deferred[i + 1]
    BY <1>1, <2>1, HeadTailProperties, LenProperties
  <2>3. \A i \in DOMAIN deferred' : i + 1 \in DOMAIN deferred
                                   /\ deferred'[i] = deferred[i + 1]
    BY <2>2
  <2> QED
    BY <1>1, <2>3
<1>4. CASE DispatchReported
  <2>1. PICK r \in ReportsOf({current}) :
          deferred' = deferred \/ deferred' = Append(deferred, r)
    BY <1>4 DEF DispatchReported
  <2>2. CASE deferred' = Append(deferred, r)
    <3>1. r \in Report
      <4>1. pc = "await" /\ TypeOK
        BY <1>4 DEF DispatchReported, DispatchReturns, TypeInv
      <4>2. {current} \in SUBSET CommandIds
        BY <4>1, MapElim DEF TypeInv, CurrentIsRetained, TypeOK
      <4> QED
        BY <4>1, <4>2, ReportsOfType
    <3>2. /\ Len(deferred) \in Nat /\ DOMAIN deferred = 1..Len(deferred)
          /\ DOMAIN deferred' = 1..(Len(deferred) + 1)
          /\ \A i \in 1..Len(deferred) : deferred'[i] = deferred[i]
          /\ deferred'[Len(deferred) + 1] = r
      BY <1>1, <2>2, <3>1, AppendProperties, LenProperties
    <3>3. r.status = "Applied" => r \in evidence
      BY GenuineSuccess
    <3>4. \A i \in DOMAIN deferred' :
            \/ i \in DOMAIN deferred /\ deferred'[i] = deferred[i]
            \/ deferred'[i] = r
      BY <3>2
    <3> QED
      BY <1>1, <3>3, <3>4
  <2> QED
    BY <1>2, <2>1, <2>2
<1>5. CASE \E k \in 1..Len(journal) : Restart(k)
  <2>1. deferred' = <<>>
    BY <1>5 DEF Restart
  <2>2. DOMAIN deferred' = {}
    BY <2>1
  <2> QED
    BY <2>2
<1>6. \/ deferred' = deferred \/ ReceiveDeferred \/ DispatchReported
      \/ \E k \in 1..Len(journal) : Restart(k)
  <2>1. CASE Frame
    BY <2>1 DEF Frame, BeginFrame, ReceiveReport, ReportsDrained, ReceiveObservation,
                RunPhases, FrameThrows, ClearDesire, IssueUnneeded, IssueAlreadyObserved,
                Issue, IssueThrows, RecordAttempt, AdapterReceives, DispatchRefused,
                DispatchThrows, DispatchAccepted, TimeOut, Retry, CompleteFrame, staging
  <2>2. CASE Host
    BY <2>2 DEF Host, RegisterAdapter, Reconcile, ReconcileFlush, Checkpoint, staging
  <2> QED
    BY <2>1, <2>2
<1> QED
  BY <1>2, <1>3, <1>4, <1>5, <1>6

LEMMA RealStep ==
  ASSUME TypeInv, RecoveryInv, WriteAheadInv, RealInv, [Next]_vars,
         [\A t \in Targets : ~Reconcile(t)]_vars
  PROVE  RealInv'
<1>1. CASE UNCHANGED vars
  <2>1. UNCHANGED <<device, journal, evidence, deferred, sent>>
    BY <1>1 DEF vars, outside, staging
  <2> QED
    BY <2>1 DEF RealInv, LogReal, RealIn, Backed
<1>2. CASE Environment
  BY <1>2, RealEnvironment
<1>3. CASE (Frame \/ Host) /\ ~UNCHANGED vars
  <2>1. LogReal(device, journal')
    BY <1>3, RealFrame, RealHost
  <2>2. UNCHANGED <<device, evidence>> /\ sent \subseteq sent'
    <3>1. CASE Frame
      BY <3>1 DEF Frame, BeginFrame, ReceiveDeferred, ReceiveReport, ReportsDrained,
                  ReceiveObservation, RunPhases, FrameThrows, ClearDesire, IssueUnneeded,
                  IssueAlreadyObserved, Issue, IssueThrows, RecordAttempt, AdapterReceives,
                  DispatchRefused, DispatchThrows, DispatchAccepted, DispatchReported,
                  DispatchReturns, TimeOut, Retry, CompleteFrame, outside
    <3>2. CASE Host
      BY <3>2 DEF Host, RegisterAdapter, Reconcile, ReconcileFlush, Checkpoint, Restart,
                  outside
    <3> QED
      BY <1>3, <3>1, <3>2
  <2>3. \A i \in DOMAIN deferred' :
          deferred'[i].status = "Applied" => deferred'[i] \in evidence
    BY <1>3, StagedEvidence
  <2>4. LogReal(device, journal)'
    BY <2>1, <2>2
  <2>5. \A e \in evidence' : e.status = "Applied" => Backed(device, e)'
    BY <2>2 DEF RealInv, Backed
  <2> QED
    BY <2>2, <2>3, <2>4, <2>5 DEF RealInv
<1> QED
  BY <1>1, <1>2, <1>3 DEF Next

\* Where the host never calls reconcile_indeterminate, the observed value of a
\* target is the one its device had at the recorded revision, live and in every
\* state restore() can rebuild: neither late, repeated or reordered reports and
\* observations nor a restart mixes up targets, values or revisions.
THEOREM ObservationsAreReal ==
  Spec /\ [][\A t \in Targets : ~Reconcile(t)]_vars => []ObservedIsReal
<1> DEFINE Inv == TypeInv /\ RecoveryInv /\ WriteAheadInv /\ RealInv
<1>1. Init => Inv
  <2> SUFFICES ASSUME Init PROVE RealInv
    BY InitType, RecoveryInit, WriteAheadInit
  <2>1. /\ Len(journal) = 1 /\ journal[1].observed = [t \in Targets |-> NoValue]
        /\ journal[1].revisions = [t \in Targets |-> 0]
        /\ evidence = {} /\ deferred = <<>>
    BY DEF Init
  <2>2. \A k \in 1..Len(journal) : k = 1
    BY <2>1
  <2>3. RealIn(device, journal[1])
    BY <2>1 DEF RealIn
  <2>4. DOMAIN deferred = {}
    BY <2>1
  <2> QED
    BY <2>1, <2>2, <2>3, <2>4 DEF RealInv, LogReal
<1>2. Inv /\ [Next]_vars /\ [\A t \in Targets : ~Reconcile(t)]_vars => Inv'
  BY TypeStep, RecoveryStep, WriteAheadStep, RealStep
<1>3. Inv => ObservedIsReal
  <2> SUFFICES ASSUME Inv PROVE ObservedIsReal
    OBVIOUS
  <2>1. RealIn(device, Rebuilt(journal))
    BY RecordedType, LogProperties DEF RealInv, LogReal, Rebuilt, TypeInv
  <2>2. /\ observed = Rebuilt(journal).observed
        /\ observedRevisions = Rebuilt(journal).revisions
    BY DEF RecoveryInv, MirrorRecorded
  <2>3. \A t \in Targets : Len(device[t]) \in Nat
    BY LenProperties DEF TypeInv, TypeOK
  <2> QED
    BY <2>1, <2>2, <2>3 DEF RealIn, ObservedIsReal
<1> QED
  BY <1>1, <1>2, <1>3, PTL DEF Spec

=============================================================================
