----------------------- MODULE MCIdempotentDispatcher -----------------------
(* Small instances of IdempotentDispatcher: c1 and d1 share the key k1. *)
EXTENDS IdempotentDispatcher, TLC

CONSTANTS c1, d1, c2, k1, k2

OneEach == (c1 :> k1 @@ c2 :> k2)
ReusedKey == (c1 :> k1 @@ d1 :> k1 @@ c2 :> k2)
AnyThread == Permutations(Threads)
=============================================================================
