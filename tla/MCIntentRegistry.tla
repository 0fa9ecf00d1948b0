-------------------------- MODULE MCIntentRegistry --------------------------
(* Small instances of IntentRegistry. *)
EXTENDS IntentRegistry

CONSTANTS o1, o2

AnyOwner == Permutations({o1, o2})
=============================================================================
