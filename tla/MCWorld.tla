------------------------------ MODULE MCWorld ------------------------------
(* TLC instance of World: components of one type go by interchangeable names. *)
EXTENDS World, TLC

AnyName == Permutations(Names)
============================================================================
