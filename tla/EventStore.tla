----------------------------- MODULE EventStore -----------------------------
(***************************************************************************)
(* What the runtime relies on of an event store: an append-only log whose  *)
(* records keep their sequence numbers for ever. Appending, recovery and   *)
(* retention extend it, a flush promises what has been appended, and a     *)
(* crash takes a suffix that was not promised.                             *)
(***************************************************************************)
EXTENDS Naturals, Sequences

VARIABLES log,      \* every record of the session, pruned ones included
          durable   \* how many of them are promised

Init == log = <<>> /\ durable = 0

Extend ==
  /\ Len(log') > Len(log)
  /\ SubSeq(log', 1, Len(log)) = log
  /\ \A i \in (Len(log) + 1)..Len(log') : log'[i].sequence = i
  /\ durable' \in {durable, Len(log')}

Promise == durable' = Len(log) /\ UNCHANGED log

Lose ==
  /\ \E n \in durable..Len(log) : log' = SubSeq(log, 1, n)
  /\ UNCHANGED durable

Next == Extend \/ Promise \/ Lose

Spec == Init /\ [][Next]_<<log, durable>>
=============================================================================
