--------------------------- MODULE MCRuntimeEffects ---------------------------
(* Small instances of RuntimeEffects. *)
EXTENDS RuntimeEffects, TLC

CONSTANTS t1, t2, a, b, r1

OneTarget == {t1}
TwoTargets == {t1, t2}
OneRoute == [t \in {t1} |-> r1]
SharedRoute == [t \in {t1, t2} |-> r1]
OneDelay == <<1>>
NoDelay == <<>>
AnyValue == Permutations({a, b})
==============================================================================
