------------------------------- MODULE Replay -------------------------------
(***************************************************************************)
(* The replay projector: what a sequence of event records stands for. A    *)
(* record has its logical sequence number and a body. Bodies of kind Set   *)
(* and Erase change keyed entries (topology, components, intents,          *)
(* commands, observed state, configuration); a Checkpoint carries a whole  *)
(* projection; every other kind is kept, with its number, in the history   *)
(* the projection embeds. Fail stands for an EventStoreError.              *)
(***************************************************************************)
EXTENDS Naturals, Sequences

CONSTANT Fail

NoEntries == [key \in {} |-> Fail]
Start == [position |-> 0, entries |-> NoEntries, events |-> <<>>]

\* An error is not mistaken for the projection of no records.
ASSUME FailAssumption == Fail # Start

IsCheckpoint(record) == record.body.kind = "Checkpoint"

\* validate_checkpoint_anchor: the payload was projected just before.
Anchored(record) == record.body.state.position = record.sequence - 1

\* The record at index makes project() throw: a gap, or a checkpoint other
\* than the projection it follows. The leading record has nothing before it.
Rejects(state, record, index) ==
  \/ index > 1 /\ record.sequence # state.position + 1
  \/ /\ IsCheckpoint(record)
     /\ \/ ~Anchored(record)
        \/ index > 1 /\ record.body.state # state

\* The switch of project(). A checkpoint replaces the whole state.
Applied(state, record) ==
  LET body == record.body
  IN CASE body.kind = "Set" ->
            [state EXCEPT !.entries =
               [key \in DOMAIN @ \cup {body.key} |->
                  IF key = body.key THEN body.value ELSE @[key]]]
       [] body.kind = "Erase" ->
            [state EXCEPT !.entries =
               [key \in DOMAIN @ \ {body.key} |-> @[key]]]
       [] body.kind = "Checkpoint" -> body.state
       [] OTHER -> [state EXCEPT !.events = Append(@, record)]

Project(records) ==
  LET after[n \in 0..Len(records)] ==
        IF n = 0 THEN Start
        ELSE IF after[n - 1] = Fail THEN Fail
        ELSE IF Rejects(after[n - 1], records[n], n) THEN Fail
        ELSE [Applied(after[n - 1], records[n])
                EXCEPT !.position = records[n].sequence]
  IN after[Len(records)]
=============================================================================
