----------------------------- MODULE Evaluation -----------------------------
(***************************************************************************)
(* One admitted evaluation of a proposal: the cases of a suite run one     *)
(* after the other, each in a world of its own, frame by frame, with the   *)
(* callbacks of the host in between. All cases share one budget for the    *)
(* records of their event stores, and what is kept of the run has a bound  *)
(* too. run is the evaluation in progress.                                 *)
(*                                                                         *)
(* Callbacks do not call the session: the contract has them non-reentrant. *)
(* They return, they throw, or they tamper with the world, which the code  *)
(* looks for. A frame is one step, as run_frame is one call on the owner   *)
(* thread; its work is the list of events it has to record.                *)
(***************************************************************************)
EXTENDS Integers, SequencesExt, FiniteSetsExt

CONSTANTS
  MaxEvaluationRecords, MaxEvaluationRecordBytes, MaxEvaluationResponseBytes,
  Work,                  \* lists of events a frame may have to record
  LifecycleStatuses      \* what the lifecycle may report of the candidate

VARIABLE run

\* The records that start and end a frame.
Marks == {"FrameStarted", "FrameCompleted", "FrameFailed"}

\* run_frame records these itself; the other records of a frame are its work.
ASSUME WorkAssumption ==
  \A work \in Work :
    /\ work \in Seq(Range(work))
    /\ \A i \in DOMAIN work : work[i].type \notin Marks

Idle == [phase |-> "idle"]

--------------------------------------------------------------------------------
(* The run budget and the case store *)

\* Payload and header of a record; commands carry a payload.
EventBytes(type) == IF type = "CommandIssued" THEN 2 ELSE 1

BatchBytes(batch) == SumFunction([i \in DOMAIN batch |-> EventBytes(batch[i].type)])

Fits(r, batch) ==
  /\ Len(batch) <= MaxEvaluationRecords - r.records
  /\ BatchBytes(batch) <= MaxEvaluationRecordBytes - r.bytes

\* Mutant of Admits: a record that fits is stored, also after a refusal.
AdmitsWhatFits(r, batch) == Fits(r, batch)

Admits(r, batch) == ~r.exhausted /\ Fits(r, batch)

\* A record is an entry of the normalized trace.
Traced(r, event) ==
  [case |-> r.case, type |-> event.type, accepted |-> event.accepted,
   component |-> event.component]

\* append and append_batch: all of the batch, or none and the budget is spent.
Store(r, batch) ==
  IF Admits(r, batch)
  THEN [r EXCEPT !.records = @ + Len(batch), !.bytes = @ + BatchBytes(batch),
                 !.trace = @ \o [i \in DOMAIN batch |-> Traced(r, batch[i])]]
  ELSE [r EXCEPT !.exhausted = TRUE]

Event(type) == [type |-> type, accepted |-> TRUE, component |-> "None"]

--------------------------------------------------------------------------------
(* The result of a case *)

\* lifecycle_case_status
LifecycleCaseStatus(status) ==
  CASE status = "Success" -> "Passed"
    [] status \in {"InvalidBehavior", "SyntaxError", "RuntimeError", "InvalidProposal",
                   "CommitFailed"} -> "Failed"
    [] status \in {"SourceLimitExceeded", "InstructionLimitExceeded",
                   "MemoryLimitExceeded", "IntentLimitExceeded"} -> "LimitExceeded"
    [] OTHER -> "HostError"

RecordStatus(status) == IF status = "NotRun" THEN "HostError" ELSE status

NewResult(testCase, status) ==
  [name |-> testCase.name, status |-> status, framesScheduled |-> testCase.frames,
   framesRun |-> 0, frames |-> <<>>, finalState |-> 0]

\* stop: the first status stays, and a spent budget is always the reason.
Stop(r, status) ==
  IF r.result.status # "Passed" THEN r
  ELSE [r EXCEPT !.result.status = IF r.exhausted THEN "LimitExceeded" ELSE status]

TestCase(r) == r.suite[r.case]

AddSummary(r, summary) ==
  [r EXCEPT !.result.frames = Append(@, summary), !.result.framesRun = @ + 1]

\* The case ends: its result is kept and gives the status of the run.
CaseEnds(r) == [r EXCEPT !.results = Append(@, r.result), !.status = RecordStatus(r.result.status)]

BeginCase(r, index) ==
  [r EXCEPT !.case = index, !.frame = 1, !.granted = {}, !.phase = "prepare",
            !.result = NewResult(r.suite[index], "Passed"), !.truth = Append(@, <<>>)]

\* Mutant of NextCase: the cases after one that failed run as well.
RunEveryCase(r) ==
  IF r.case = Len(r.suite) THEN [r EXCEPT !.phase = "done"] ELSE BeginCase(r, r.case + 1)

\* The loop of run_evaluation: after a case that did not pass, none is run.
NextCase(r) ==
  LET rest == SubSeq(r.suite, r.case + 1, Len(r.suite))
      skipped == [i \in DOMAIN rest |-> NewResult(rest[i], "NotRun")]
  IN  IF rest # <<>> /\ r.status = "Passed" THEN BeginCase(r, r.case + 1)
      ELSE [r EXCEPT !.phase = "done", !.results = @ \o skipped,
                     !.truth = @ \o [i \in DOMAIN rest |-> <<>>]]

EndCase(r) == NextCase(CaseEnds(r))

\* A run of suite for what was captured: manifest has the capabilities, and
\* truth and lost follow what the frames had to record.
NewRun(ticket, suite, manifest) ==
  BeginCase([phase |-> "prepare", ticket |-> ticket, suite |-> suite,
             manifest |-> manifest, case |-> 1, frame |-> 1, granted |-> {},
             result |-> NewResult(suite[1], "Passed"), results |-> <<>>,
             status |-> "Passed", records |-> 0, bytes |-> 0, exhausted |-> FALSE,
             trace |-> <<>>, lifecycle |-> "None", work |-> <<>>, truth |-> <<>>, lost |-> FALSE], 1)

--------------------------------------------------------------------------------
(* The world of a case *)

\* Semantic comparison: neither the order nor the values and handles count.
ManifestMismatch(scope, isolated) ==
  \/ isolated.limits # scope.limits
  \/ Len(isolated.capabilities) # Len(scope.capabilities)
  \/ ToSet(isolated.capabilities) # ToSet(scope.capabilities)

\* Manifests of worlds that a factory may build for scope: the same one in
\* another order, with other limits, one capability short, or in another mode.
Isolations(scope) ==
  LET capabilities == scope.capabilities
      first == capabilities[1]
      other == IF first.mode = "Read" THEN "ReadWrite" ELSE "Read"
  IN  {[scope EXCEPT !.capabilities = Reverse(capabilities)],
       [scope EXCEPT !.limits = "OtherLimits"],
       [scope EXCEPT !.capabilities = Tail(capabilities)],
       [scope EXCEPT !.capabilities = <<[first EXCEPT !.mode = other]>> \o Tail(capabilities)]}

\* Each address names a captured grant, its component and its target once.
EffectsFit(scope, addresses) ==
  /\ \A i \in DOMAIN addresses : \E k \in ToSet(scope.capabilities) :
       k.component = addresses[i].component
  /\ \A i, j \in DOMAIN addresses :
       i # j => /\ addresses[i].component # addresses[j].component
                /\ addresses[i].target # addresses[j].target

\* Addresses a factory may declare: none, all, a foreign one, or one twice.
Declarations(scope) ==
  LET address(c, t) == [component |-> c, target |-> t]
      all == [i \in DOMAIN scope.capabilities |-> address(scope.capabilities[i].component, i)]
  IN  {<<>>, all, all \o <<address("Foreign", 0)>>, all \o <<address(all[1].component, 0)>>,
       all \o <<address("Foreign", 1)>>}

\* What the factory made: nothing (it threw, or returned no world), or a world
\* that deviates in its manifest or in its addresses, if at all.
Preparations(scope) ==
  [made : {"throws", "nothing"}, isolated : {scope}, addresses : {<<>>}]
  \union [made : {"world"}, isolated : Isolations(scope), addresses : {<<>>}]
  \union [made : {"world"}, isolated : {scope}, addresses : Declarations(scope)]

\* prepare, check_manifest and check_granted_effects. The new runtime records
\* the start of its session; a refusal throws out of the factory, unless the
\* factory catches it.
PrepareCase ==
  /\ run.phase = "prepare"
  /\ \E p \in Preparations(run.manifest), caught \in BOOLEAN :
       LET started == Store(run, <<Event("SessionStarted")>>)
           opened == [started EXCEPT !.lost = @ \/ started.exhausted]
       IN  /\ caught => opened.exhausted
           /\ run' =
                CASE opened.exhausted /\ ~caught -> EndCase(Stop(opened, "HostError"))
                  [] p.made # "world" -> EndCase(Stop(opened, "HostError"))
                  [] ManifestMismatch(run.manifest, p.isolated) -> EndCase(Stop(opened, "HostError"))
                  [] ~EffectsFit(run.manifest, p.addresses) -> EndCase(Stop(opened, "HostError"))
                  [] OTHER -> [opened EXCEPT !.phase = "input",
                                             !.granted = {a.component : a \in ToSet(p.addresses)}]

--------------------------------------------------------------------------------
(* Frames *)

\* The input action, then the adapters deliver what is due.
ApplyInput ==
  /\ run.phase = "input"
  /\ \E outcome \in {"returns", "throws", "changedFrame", "nullAdapter"} :
       run' = IF outcome = "returns" THEN [run EXCEPT !.phase = "advance"]
              ELSE [Stop(run, "HostError") EXCEPT !.phase = "final"]

NumberOf(events, Test(_)) == Cardinality({i \in DOMAIN events : Test(events[i])})

\* What really happened in a frame with this work.
Happened(work) ==
  [commands |-> NumberOf(work, LAMBDA e : e.type = "CommandIssued"),
   reports |-> NumberOf(work, LAMBDA e : e.type = "ReportReceived" /\ e.accepted),
   observations |-> NumberOf(work, LAMBDA e :
                      e.type = "ExternalObservationReceived" /\ e.accepted)]

\* run_frame records its start, its work and its end; a failure records that
\* the frame failed, if the store still takes it.
FrameRecords(work, failed) ==
  <<Event("FrameStarted")>> \o work
    \o <<Event(IF failed THEN "FrameFailed" ELSE "FrameCompleted")>>

RecordFrame(r, work, failed) ==
  FoldLeft(LAMBDA acc, e : Store(acc, <<e>>), r, FrameRecords(work, failed))

FailedFrame == [completed |-> FALSE, lifecycle |-> "None", commands |-> 0, asserted |-> FALSE]

\* advance: a frame that throws is a summary of its own. The runtime refuses a
\* frame before it records anything, if it has no effects.
Advance ==
  /\ run.phase = "advance"
  /\ \/ run' = [Stop(AddSummary(run, FailedFrame), "HostError") EXCEPT !.phase = "final"]
     \/ \E work \in Work, failed \in BOOLEAN :
          LET recorded == RecordFrame(run, work, failed)
              after == [recorded EXCEPT !.truth[run.case] = Append(@, Happened(work)),
                                        !.lost = @ \/ recorded.exhausted]
          IN  run' = IF failed \/ after.exhausted
                     THEN [Stop(AddSummary(after, FailedFrame), "HostError") EXCEPT !.phase = "final"]
                     ELSE [after EXCEPT !.phase = "observe", !.work = work]

\* summarize: only effects on the declared addresses.
Summary(r, lifecycle) ==
  [completed |-> TRUE, lifecycle |-> lifecycle, asserted |-> FALSE,
   commands |-> NumberOf(r.work, LAMBDA e :
                  e.type = "CommandIssued" /\ e.component \in r.granted)]

\* check_frame: the budget, then the frame, then the candidate.
FrameStatus(r, lifecycle) ==
  IF r.exhausted THEN "LimitExceeded"
  ELSE IF lifecycle = "None" THEN "HostError"
  ELSE LifecycleCaseStatus(lifecycle)

\* observe; reading the evidence throws when the candidate is gone.
Observe ==
  /\ run.phase = "observe"
  /\ \/ run' = [Stop(run, "HostError") EXCEPT !.phase = "final", !.work = <<>>]
     \/ \E lifecycle \in LifecycleStatuses :
          LET seen == [AddSummary(run, Summary(run, lifecycle)) EXCEPT !.work = <<>>]
              status == FrameStatus(run, lifecycle)
          IN  run' = IF status = "Passed" THEN [seen EXCEPT !.phase = "expect"]
                     ELSE [Stop(seen, status) EXCEPT !.phase = "final"]

\* expect: the assertion of the host; then the next frame, or the end.
Expect ==
  /\ run.phase = "expect"
  /\ LET last == Len(run.result.frames)
         next == IF run.frame < TestCase(run).frames
                 THEN [run EXCEPT !.phase = "input", !.frame = @ + 1]
                 ELSE [run EXCEPT !.phase = "final"]
     IN  \/ run' = [next EXCEPT !.result.frames[last].asserted = TRUE]
         \/ \E status \in {"Failed", "HostError"} :
              run' = [Stop(run, status) EXCEPT !.phase = "final"]

\* capture_final_state: a summary of each grant, or none if a readable one
\* cannot be read any more. It is skipped when a callback took the runtime away,
\* which has stopped the case before.
CaptureFinalState ==
  /\ run.phase = "final"
  /\ LET grants == Len(run.manifest.capabilities)
         readable == \E k \in ToSet(run.manifest.capabilities) : k.mode # "Write"
     IN  \/ run' = EndCase([run EXCEPT !.result.finalState = grants])
         \/ /\ readable \/ run.result.status # "Passed"
            /\ run' = EndCase(Stop(run, "HostError"))

EvaluationStep ==
  PrepareCase \/ ApplyInput \/ Advance \/ Observe \/ Expect \/ CaptureFinalState

--------------------------------------------------------------------------------
(* What is kept *)

\* Every field and element costs, in units: a case its name, frames and state.
CaseBytes(result) == 1 + result.name + Len(result.frames) + result.finalState

HeaderBytes == 1

RecordBytes(cases) == HeaderBytes + SumFunction([i \in DOMAIN cases |-> CaseBytes(cases[i])])

\* bound_response: evidence goes first, then every case; never a pass.
BoundResponse(status, cases) ==
  LET bare == [i \in DOMAIN cases |-> [cases[i] EXCEPT !.frames = <<>>, !.finalState = 0]]
  IN  IF RecordBytes(cases) <= MaxEvaluationResponseBytes
      THEN [status |-> status, complete |-> TRUE, cases |-> cases]
      ELSE [status |-> "LimitExceeded", complete |-> FALSE,
            cases |-> IF RecordBytes(bare) <= MaxEvaluationResponseBytes THEN bare ELSE <<>>]

\* Where the frames of case start.
Frames(trace, case) ==
  {p \in DOMAIN trace : trace[p].case = case /\ trace[p].type = "FrameStarted"}

\* The records of the frame that starts at p, up to its end or the next start.
FrameAt(trace, p) ==
  LET ends == {q \in p + 1 .. Len(trace) : trace[q].case # trace[p].case
                 \/ trace[q].type \in Marks}
  IN  SubSeq(trace, p + 1, IF ends = {} THEN Len(trace) ELSE Min(ends) - 1)

\* A frame of case has started and neither completed nor failed.
Open(trace, case) ==
  \E p \in Frames(trace, case) : \A q \in p + 1 .. Len(trace) :
    ~(trace[q].case = case /\ trace[q].type \in Marks)

CaseTotals(trace, case) ==
  LET starts == Frames(trace, case)
      At(n) == CHOOSE p \in starts : Cardinality({q \in starts : q <= p}) = n
  IN  [n \in 1..Cardinality(starts) |-> Happened(FrameAt(trace, At(n)))]

\* world_totals.complete, for the cases and the trace that were kept.
TotalsComplete(cases, trace) ==
  /\ cases # <<>>
  /\ \A i \in DOMAIN trace : trace[i].case \in DOMAIN cases
  /\ \A i \in DOMAIN cases :
       /\ ~Open(trace, i)
       /\ Cardinality(Frames(trace, i)) = cases[i].framesRun
       /\ ~(cases[i].status = "LimitExceeded" /\ cases[i].framesRun = 0)

=============================================================================
