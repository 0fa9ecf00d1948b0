-------------------------- MODULE AuthoringSession --------------------------
(***************************************************************************)
(* The authoring session: the host gives owners scopes over components of  *)
(* the world, callers discover what a scope offers and submit proposals    *)
(* under it, and proposals are evaluated. Everything retained is charged   *)
(* to one payload counter, an evaluation before it runs.                   *)
(*                                                                         *)
(* Each call makes its checks in order; the first that fails is the reply, *)
(* and the session is as it was. Calls come from the owner thread between  *)
(* frames, so one call is one step, except that evaluate lasts as long as  *)
(* its run. Sizes are in units: one for a record, a grant, an entry of a   *)
(* capture, and the size of a text or a value.                             *)
(***************************************************************************)
EXTENDS Evaluation

CONSTANTS
  Owners, Sources,       \* texts
  TextBytes,             \* the size of a text
  MalformedTexts,        \* texts with a NUL or that are not UTF-8
  Components,            \* components of the world, by name
  ScriptComponents,      \* those of the script-control type
  ValuesOf,              \* the values a component may have
  ValueBytes,            \* their sizes
  BadValues,             \* encode throws
  MismatchedValues,      \* outside the read schema
  GrantLists,            \* grants the host may ask for
  SuiteDefinitions,      \* suites the host may register
  MaxActiveScopes, MaxProposals, MaxEvaluations, MaxScopeCapabilities,
  MaxLabelBytes, MaxSourceBytes, MaxManifestBytes, LuaManifestMaxLogicalBytes,
  MaxEvaluationCases, MaxEvaluationFrames, MaxSessionPayloadBytes, MaxIdValue,
  MaxTime,               \* stands for the largest signed 64-bit time
  MaxScopeRevision, MaxSlot    \* bounds of the model

\* valid_limits: no limit is zero.
ASSUME AuthoringAssumption ==
  \A limit \in {MaxActiveScopes, MaxProposals, MaxEvaluations, MaxScopeCapabilities,
                MaxLabelBytes, MaxSourceBytes, MaxManifestBytes, MaxEvaluationCases,
                MaxEvaluationFrames, MaxEvaluationRecords, MaxEvaluationRecordBytes,
                MaxEvaluationResponseBytes, MaxSessionPayloadBytes, MaxIdValue} :
    limit \in Nat \ {0}

\* Texts and values have sizes, lists are finite, and every component has a
\* value that can be read.
ASSUME InputAssumption ==
  /\ \A text \in Owners \union Sources : TextBytes[text] \in Nat
  /\ \A c \in Components :
       /\ \A v \in ValuesOf[c] : ValueBytes[v] \in Nat
       /\ \E v \in ValuesOf[c] : v \notin BadValues \union MismatchedValues
  /\ \A grants \in GrantLists : grants \in Seq(Range(grants))
  /\ \A suite \in SuiteDefinitions :
       /\ suite.cases \in Seq(Range(suite.cases))
       /\ \A i \in DOMAIN suite.cases : suite.cases[i].frames \in Nat

VARIABLES
  slots, values,         \* the world
  lastNow, lastScope, lastProposal, lastEvaluation,
  scopes, proposals, suites, evaluations, sessionPayloadBytes

worldVars == <<slots, values>>
sessionVars == <<lastNow, lastScope, lastProposal, lastEvaluation, scopes, proposals,
                 suites, evaluations, sessionPayloadBytes>>
vars == <<worldVars, sessionVars, run>>

NoTime == -1

\* Nothing retained has a key that is not in its map.
Without(map, key) == [k \in DOMAIN map \ {key} |-> map[k]]
With(map, key, value) == [k \in DOMAIN map \union {key} |-> IF k = key THEN value ELSE map[k]]

--------------------------------------------------------------------------------
(* Checks. A check is Ok or the code of its error. *)

FirstError(checks) ==
  LET failed == {i \in DOMAIN checks : checks[i] # "Ok"}
  IN  IF failed = {} THEN "Ok" ELSE checks[Min(failed)]

Check(condition, code) == IF condition THEN "Ok" ELSE code

\* checked_next
HasNext(last) == last < MaxIdValue

CheckText(text, maxBytes) ==
  Check(TextBytes[text] \in 1..maxBytes /\ text \notin MalformedTexts, "InvalidInput")

CheckTime(now) == Check(now <= MaxTime /\ now >= lastNow, "InvalidInput")

CheckGrants(grants) ==
  FirstError(<<Check(grants # <<>>, "InvalidInput"),
               Check(Len(grants) <= MaxScopeCapabilities, "LimitExceeded")>>)

CheckCase(c) ==
  FirstError(<<Check(c.name \in 1..MaxLabelBytes /\ c.callbacks /\ c.frames > 0, "InvalidInput"),
               Check(c.frames <= MaxEvaluationFrames, "LimitExceeded"),
               Check(c.sorted, "InvalidInput")>>)

CheckSuite(cases) ==
  FirstError(<<Check(cases # <<>>, "InvalidInput"),
               Check(Len(cases) <= MaxEvaluationCases, "LimitExceeded"),
               FirstError([i \in DOMAIN cases |-> CheckCase(cases[i])])>>)

\* payload_fits: charge in place of what is released.
PayloadFits(released, charge) ==
  charge <= MaxSessionPayloadBytes - (sessionPayloadBytes - released)

--------------------------------------------------------------------------------
(* What the runner captures for a list of grants *)

Reads(grant) == grant.mode # "Write"

\* admit_grant: no target twice, and each is a live component.
AdmitGrant(grants, i) ==
  Check(/\ \A j \in 1..(i - 1) : grants[j].component # grants[i].component
        /\ grants[i].component \in Components
        /\ slots[grants[i].component].live, "InvalidGrant")

\* A readable grant has its value encoded and validated.
ReadGrant(grant) ==
  LET value == values[grant.component]
  IN  IF ~Reads(grant) THEN "Ok"
      ELSE IF value \in BadValues THEN "SnapshotUnavailable"
      ELSE Check(value \notin MismatchedValues, "SchemaMismatch")

GrantBytes(grant) ==
  1 + IF Reads(grant) /\ grant.component \in Components
      THEN ValueBytes[values[grant.component]] ELSE 0

\* The logical bytes that the builder has counted after adding grants.
ManifestBytes(grants) == SumFunction([i \in DOMAIN grants |-> GrantBytes(grants[i])])

\* scope_manifest: the error of the first grant that has one, the last being
\* that of Builder::add.
ScopeManifest(grants) ==
  FirstError([i \in DOMAIN grants |->
    LET admitted == AdmitGrant(grants, i)
        read == ReadGrant(grants[i])
    IN  IF admitted # "Ok" THEN admitted
        ELSE IF read # "Ok" THEN read
        ELSE Check(ManifestBytes(SubSeq(grants, 1, i)) <= LuaManifestMaxLogicalBytes,
                   "LimitExceeded")])

\* scope_targets: empty if one of the grants does not resolve.
ScopeTargets(grants) ==
  IF \E i \in DOMAIN grants : AdmitGrant(grants, i) # "Ok" THEN <<>>
  ELSE [i \in DOMAIN grants |-> [component |-> grants[i].component,
                                 slot |-> slots[grants[i].component].generation]]

\* capture_error
CaptureError(code, stage) ==
  CASE code \in {"Ok", "LimitExceeded"} -> code
    [] code = "InvalidGrant" -> IF stage = "Admission" THEN "InvalidInput" ELSE "StaleScope"
    [] code = "SchemaMismatch" -> IF stage = "Admission" THEN "InvalidInput" ELSE "HostError"
    [] OTHER -> "HostError"

\* admit; only when the capture succeeds are there bytes to count.
Admit(grants) ==
  LET captured == CaptureError(ScopeManifest(grants), "Admission")
  IN  IF captured # "Ok" THEN captured
      ELSE FirstError(<<
        Check(\A i \in DOMAIN grants : grants[i].component \notin ScriptComponents, "InvalidInput"),
        Check(ManifestBytes(grants) <= MaxManifestBytes, "LimitExceeded")>>)

\* recapture: the targets are compared before a value is read.
Recapture(record) ==
  LET captured == CaptureError(ScopeManifest(record.grants), "Recapture")
  IN  IF ScopeTargets(record.grants) # record.targets THEN "StaleScope"
      ELSE IF captured # "Ok" THEN captured
      ELSE Check(ManifestBytes(record.grants) <= MaxManifestBytes, "LimitExceeded")

\* capture_bytes, scope_charge and proposal_charge
CaptureBytes(targets) == 1 + Len(targets)
ScopeCharge(owner, grants) ==
  1 + TextBytes[owner] + 2 * Len(grants) + CaptureBytes(grants) + ManifestBytes(grants)
ProposalCharge(record) ==
  1 + TextBytes[record.source] + TextBytes[record.owner] + CaptureBytes(record.targets)

--------------------------------------------------------------------------------
(* Scopes *)

\* The reply is this code, and nothing has changed.
Refused(code) == code # "Ok" /\ UNCHANGED vars

CreateScope(owner, grants, now) ==
  LET checked == FirstError(<<
        CheckTime(now), CheckText(owner, MaxLabelBytes), CheckGrants(grants),
        Check(Cardinality(DOMAIN scopes) < MaxActiveScopes, "LimitExceeded"),
        Check(HasNext(lastScope), "LimitExceeded"), Admit(grants)>>)
      charge == ScopeCharge(owner, grants)
      record == [owner |-> owner, grants |-> grants, revision |-> 1,
                 targets |-> ScopeTargets(grants), payloadCharge |-> charge]
  IN  IF checked # "Ok" THEN Refused(checked)
      ELSE IF ~PayloadFits(0, charge) THEN Refused("LimitExceeded")
      ELSE /\ scopes' = With(scopes, lastScope + 1, record)
           /\ sessionPayloadBytes' = sessionPayloadBytes + charge
           /\ lastScope' = lastScope + 1
           /\ lastNow' = now
           /\ UNCHANGED <<worldVars, lastProposal, lastEvaluation, proposals, suites,
                          evaluations, run>>

\* Mutant of ReplacedPayload: the charge of the replaced scope stays.
ReplacedTwice(record, charge) == sessionPayloadBytes + charge

ReplacedPayload(record, charge) == sessionPayloadBytes - record.payloadCharge + charge

ReplaceScope(scope, expected, grants, now) ==
  IF scope \notin DOMAIN scopes THEN Refused("NotFound")
  ELSE
  LET record == scopes[scope]
      checked == FirstError(<<
        CheckTime(now), Check(record.revision = expected, "StaleScope"),
        CheckGrants(grants), Admit(grants)>>)
      charge == ScopeCharge(record.owner, grants)
      fits == PayloadFits(record.payloadCharge, charge)
  IN  IF checked # "Ok" THEN Refused(checked)
      ELSE IF ~fits THEN Refused("LimitExceeded")
      ELSE /\ record.revision < MaxScopeRevision
           /\ scopes' = [scopes EXCEPT ![scope] =
                [record EXCEPT !.grants = grants, !.revision = @ + 1,
                               !.targets = ScopeTargets(grants), !.payloadCharge = charge]]
           /\ sessionPayloadBytes' = ReplacedPayload(record, charge)
           /\ lastNow' = now
           /\ UNCHANGED <<worldVars, lastScope, lastProposal, lastEvaluation, proposals,
                          suites, evaluations, run>>

\* Proposals of the scope stay, with their charges.
RevokeScope(scope, expected) ==
  IF scope \notin DOMAIN scopes THEN Refused("NotFound")
  ELSE IF scopes[scope].revision # expected THEN Refused("StaleScope")
  ELSE /\ sessionPayloadBytes' = sessionPayloadBytes - scopes[scope].payloadCharge
       /\ scopes' = Without(scopes, scope)
       /\ UNCHANGED <<worldVars, lastNow, lastScope, lastProposal, lastEvaluation,
                      proposals, suites, evaluations, run>>

\* A caller with another session's id has no owner here.
OwnedScope(caller, scope) == scope \in DOMAIN scopes /\ scopes[scope].owner = caller

Discover(caller, scope, now) ==
  IF ~OwnedScope(caller, scope) THEN Refused("NotFound")
  ELSE LET checked == FirstError(<<CheckTime(now), Recapture(scopes[scope])>>)
       IN  IF checked # "Ok" THEN Refused(checked)
           ELSE /\ lastNow' = now
                /\ UNCHANGED <<worldVars, lastScope, lastProposal, lastEvaluation, scopes,
                               proposals, suites, evaluations, sessionPayloadBytes, run>>

--------------------------------------------------------------------------------
(* Proposals *)

\* managed: "none", "half" of the pair, or a pair; there is no managed behavior.
CheckManaged(managed) ==
  FirstError(<<Check(managed # "half", "InvalidInput"), Check(managed # "pair", "NotFound")>>)

Submit(caller, scope, expected, source, managed) ==
  IF ~OwnedScope(caller, scope) THEN Refused("NotFound")
  ELSE
  LET record == scopes[scope]
      candidate == [owner |-> record.owner, scope |-> scope, revision |-> record.revision,
                    source |-> source, targets |-> record.targets]
      checked == FirstError(<<
        Check(record.revision = expected, "StaleScope"), CheckText(source, MaxSourceBytes),
        CheckManaged(managed),
        Check(Cardinality(DOMAIN proposals) < MaxProposals, "LimitExceeded"),
        Check(HasNext(lastProposal), "LimitExceeded"),
        Check(PayloadFits(0, ProposalCharge(candidate)), "LimitExceeded"),
        Recapture(record)>>)
  IN  IF checked # "Ok" THEN Refused(checked)
      ELSE /\ proposals' = With(proposals, lastProposal + 1, candidate)
           /\ sessionPayloadBytes' = sessionPayloadBytes + ProposalCharge(candidate)
           /\ lastProposal' = lastProposal + 1
           /\ UNCHANGED <<worldVars, lastNow, lastScope, lastEvaluation, scopes, suites,
                          evaluations, run>>

\* Suites come before the first proposal, each id once.
RegisterEvaluationSuite(suite) ==
  LET checked == FirstError(<<
        Check(lastProposal = 0, "Unsupported"),
        Check(suite.id \notin DOMAIN suites, "InvalidInput"), CheckSuite(suite.cases)>>)
  IN  IF checked # "Ok" THEN Refused(checked)
      ELSE /\ suites' = With(suites, suite.id, suite.cases)
           /\ UNCHANGED <<worldVars, lastNow, lastScope, lastProposal, lastEvaluation,
                          scopes, proposals, evaluations, sessionPayloadBytes, run>>

--------------------------------------------------------------------------------
(* Evaluations *)

EntryBytes == 1

\* evaluation_reservation: the most that can be kept.
Reservation ==
  EntryBytes + HeaderBytes + MaxEvaluationResponseBytes + MaxEvaluationRecordBytes

CheckReservation ==
  FirstError(<<Check(Cardinality(DOMAIN evaluations) < MaxEvaluations, "LimitExceeded"),
               Check(HasNext(lastEvaluation), "LimitExceeded"),
               Check(PayloadFits(0, Reservation), "LimitExceeded")>>)

\* Mutant of ScopeIsCurrent: any scope with the proposal's id.
ScopeExists(proposal) == proposal.scope \in DOMAIN scopes

ScopeIsCurrent(proposal) ==
  proposal.scope \in DOMAIN scopes /\ scopes[proposal.scope].revision = proposal.revision

AdmitEvaluation(caller, proposal, fixture) ==
  IF proposal \notin DOMAIN proposals THEN "NotFound"
  ELSE IF proposals[proposal].owner # caller THEN "NotFound"
  ELSE IF fixture \notin DOMAIN suites THEN "NotFound"
  ELSE IF ~ScopeIsCurrent(proposals[proposal]) THEN "StaleScope"
  ELSE FirstError(<<CheckReservation, Recapture(scopes[proposals[proposal].scope])>>)

\* The manifest of a scope, with what the comparison looks at.
ManifestOf(grants) == [limits |-> "RunnerLimits", capabilities |-> grants]

\* evaluate until its first callback: the id is used and the reservation made.
\* targets is what the grants named when the run was admitted.
Evaluate(caller, proposal, fixture) ==
  LET checked == AdmitEvaluation(caller, proposal, fixture)
  IN  IF checked # "Ok" THEN Refused(checked)
      ELSE LET grants == scopes[proposals[proposal].scope].grants
               ticket == [id |-> lastEvaluation + 1, proposal |-> proposal,
                          reservation |-> Reservation, targets |-> ScopeTargets(grants)]
           IN  /\ lastEvaluation' = lastEvaluation + 1
               /\ sessionPayloadBytes' = sessionPayloadBytes + Reservation
               /\ run' = NewRun(ticket, suites[fixture], ManifestOf(grants))
               /\ UNCHANGED <<worldVars, lastNow, lastScope, lastProposal, scopes,
                              proposals, suites, evaluations>>

\* The entry kept of an outcome, whose store used these bytes.
Entry(ticket, outcome) ==
  LET bound == BoundResponse(outcome.status, outcome.results)
  IN  [proposal |-> ticket.proposal, targets |-> ticket.targets, status |-> bound.status,
       complete |-> bound.complete, cases |-> bound.cases, trace |-> outcome.trace,
       truth |-> outcome.truth, lost |-> outcome.lost]

EntryCharge(entry) == EntryBytes + RecordBytes(entry.cases) + BatchBytes(entry.trace)

\* keep_evaluation: the entry is kept and the rest of the reservation released.
Keep(outcome) ==
  LET entry == Entry(run.ticket, outcome)
  IN  /\ evaluations' = With(evaluations, run.ticket.id, entry)
      /\ sessionPayloadBytes' =
           sessionPayloadBytes - (run.ticket.reservation - EntryCharge(entry))
      /\ run' = Idle
      /\ UNCHANGED <<worldVars, lastNow, lastScope, lastProposal, lastEvaluation, scopes,
                     proposals, suites>>

KeepEvaluation == run.phase = "done" /\ Keep(run)

\* The run itself throws, out of memory: an outcome without cases and trace.
AbandonEvaluation ==
  /\ run.phase # "idle"
  /\ Keep([run EXCEPT !.status = "HostError", !.results = <<>>, !.trace = <<>>])

\* The entry cannot be kept: all of the reservation is released.
DropEvaluation ==
  /\ run.phase # "idle"
  /\ sessionPayloadBytes' = sessionPayloadBytes - run.ticket.reservation
  /\ run' = Idle
  /\ UNCHANGED <<worldVars, lastNow, lastScope, lastProposal, lastEvaluation, scopes,
                 proposals, suites, evaluations>>

EvaluationProceeds ==
  /\ run.phase \notin {"idle", "done"}
  /\ EvaluationStep
  /\ UNCHANGED <<worldVars, sessionVars>>

--------------------------------------------------------------------------------
(* The world between calls *)

\* A component at its last generation, MaxSlot, stays.

\* The value that stands for none, and that a component starts with.
Plain(c) == CHOOSE v \in ValuesOf[c] : v \notin BadValues \union MismatchedValues

AddComponent(c, v) ==
  /\ ~slots[c].live
  /\ slots' = [slots EXCEPT ![c] = [live |-> TRUE, generation |-> @.generation + 1]]
  /\ values' = [values EXCEPT ![c] = v]
  /\ UNCHANGED <<sessionVars, run>>

RemoveComponent(c) ==
  /\ slots[c].live /\ slots[c].generation < MaxSlot[c]
  /\ slots' = [slots EXCEPT ![c].live = FALSE]
  /\ values' = [values EXCEPT ![c] = Plain(c)]
  /\ UNCHANGED <<sessionVars, run>>

SetValue(c, v) ==
  /\ slots[c].live
  /\ values' = [values EXCEPT ![c] = v]
  /\ UNCHANGED <<slots, sessionVars, run>>

Init ==
  /\ slots = [c \in Components |-> [live |-> TRUE, generation |-> 1]]
  /\ values = [c \in Components |-> Plain(c)]
  /\ lastNow = NoTime
  /\ lastScope = 0 /\ lastProposal = 0 /\ lastEvaluation = 0
  /\ scopes = <<>> /\ proposals = <<>> /\ suites = <<>> /\ evaluations = <<>>
  /\ sessionPayloadBytes = 0
  /\ run = Idle

Ids == 1..MaxIdValue

ScopeCall ==
  \/ \E now \in 0..(MaxTime + 1), grants \in GrantLists :
       \/ \E owner \in Owners : CreateScope(owner, grants, now)
       \/ \E scope \in Ids, expected \in 1..MaxScopeRevision :
            ReplaceScope(scope, expected, grants, now)
  \/ \E scope \in Ids, expected \in 1..MaxScopeRevision : RevokeScope(scope, expected)
  \/ \E caller \in Owners, scope \in Ids, now \in 0..(MaxTime + 1) : Discover(caller, scope, now)

ProposalCall ==
  \/ \E caller \in Owners, scope \in Ids, expected \in 1..MaxScopeRevision,
        source \in Sources, managed \in {"none", "half", "pair"} :
       Submit(caller, scope, expected, source, managed)
  \/ \E suite \in SuiteDefinitions : RegisterEvaluationSuite(suite)
  \/ \E caller \in Owners, proposal \in Ids, fixture \in {s.id : s \in SuiteDefinitions} :
       Evaluate(caller, proposal, fixture)

WorldStep ==
  \E c \in Components :
    RemoveComponent(c) \/ \E v \in ValuesOf[c] : AddComponent(c, v) \/ SetValue(c, v)

Next ==
  \/ run.phase = "idle" /\ (ScopeCall \/ ProposalCall \/ WorldStep)
  \/ EvaluationProceeds \/ KeepEvaluation \/ AbandonEvaluation \/ DropEvaluation

Spec == Init /\ [][Next]_vars

--------------------------------------------------------------------------------
(* Properties *)

Charges(map, charge(_)) == SumFunction([k \in DOMAIN map |-> charge(map[k])])

\* The session payload counter is the sum of what is retained: the charge each
\* scope was admitted with, every proposal, every kept evaluation at its own
\* size, and the reservation of the one that runs; and it is within the ceiling
\* (sessionPayloadBytes of AuthoringSession::Impl). Calls that charge and calls
\* that release have to agree, also when a run throws or cannot be kept.
PayloadIsSum ==
  /\ sessionPayloadBytes =
       Charges(scopes, LAMBDA s : s.payloadCharge)
         + Charges(proposals, ProposalCharge) + Charges(evaluations, EntryCharge)
         + IF run.phase = "idle" THEN 0 ELSE run.ticket.reservation
  /\ sessionPayloadBytes <= MaxSessionPayloadBytes

\* A proposal is evaluated against the components it was submitted for, never
\* against a component that took the name of one of them, and never under the
\* grants of a later revision of its scope (admit_evaluation and recapture).
EvaluatedAsProposed ==
  /\ \A id \in DOMAIN evaluations :
       evaluations[id].targets = proposals[evaluations[id].proposal].targets
  /\ run.phase # "idle" => run.ticket.targets = proposals[run.ticket.proposal].targets

\* An evaluation that is reported as Passed passed completely: it has all of its
\* evidence, and every case ran every frame it has scheduled, with the lifecycle
\* succeeding and the assertion holding in each, and with its final state
\* (run_evaluation, stop and bound_response).
PassedMeansEverything ==
  \A id \in DOMAIN evaluations :
    LET kept == evaluations[id]
    IN  kept.status = "Passed" =>
          /\ kept.complete /\ ~kept.lost
          /\ kept.cases # <<>>
          /\ \A i \in DOMAIN kept.cases :
               LET result == kept.cases[i]
               IN  /\ result.status = "Passed"
                   /\ result.finalState = Len(kept.targets)
                   /\ result.framesRun = result.framesScheduled
                   /\ Len(result.frames) = result.framesScheduled
                   /\ \A f \in DOMAIN result.frames :
                        /\ result.frames[f].completed /\ result.frames[f].asserted
                        /\ result.frames[f].lifecycle = "Success"
                        /\ result.frames[f].commands <= kept.truth[i][f].commands

\* Totals that call themselves complete are the truth: no record of a frame or
\* of a case's setup was refused, and for every case they list every frame that
\* ran with the commands, reports and observations it had (world_totals).
TotalsAreTrue ==
  \A id \in DOMAIN evaluations :
    LET kept == evaluations[id]
    IN  TotalsComplete(kept.cases, kept.trace) =>
          /\ ~kept.lost
          /\ \A i \in DOMAIN kept.cases : CaseTotals(kept.trace, i) = kept.truth[i]
=============================================================================
