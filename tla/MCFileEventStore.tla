-------------------------- MODULE MCFileEventStore --------------------------
(* Small instances of FileEventStore: an entry that is set and erased. The *)
(* recovery and retention records are the history of the projections.      *)
EXTENDS FileEventStore

SetOrErase == {[kind |-> "Set", key |-> "x", value |-> 1],
               [kind |-> "Erase", key |-> "x"]}
=============================================================================
