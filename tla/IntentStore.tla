---------------------------- MODULE IntentStore ----------------------------
(***************************************************************************)
(* What scripts and systems rely on of the intent registry: a set of live  *)
(* intents in which an owner uses a name once, whose members come and go   *)
(* one at a time, go together, or are exchanged for others of the same     *)
(* owner in one step, and whose handles are never handed out again.        *)
(***************************************************************************)
EXTENDS Naturals

CONSTANT NoName

VARIABLES live,     \* the live intents
          issued    \* every handle that was ever handed out

Handles(intents) == {i.id : i \in intents}

NamesUnique(intents) ==
  \A i, j \in intents :
    i.owner = j.owner /\ i.name = j.name /\ i.name # NoName => i = j

Init == live = {} /\ issued = {}

\* The step that removes gone and adds new intents under fresh handles.
Exchange(gone, new) ==
  /\ gone \subseteq live
  /\ live' = (live \ gone) \union new
  /\ issued' = issued \union Handles(new)
  /\ Handles(new) \intersect issued = {}
  /\ \A i, j \in new : i.id = j.id => i = j
  /\ NamesUnique(live')

Add == \E i \in live' : Exchange({}, {i})
Drop == Exchange(live \ live', {})
Bundle ==
  /\ Exchange(live \ live', live' \ live)
  /\ \E o \in {i.owner : i \in live \union live'} :
       \A i \in (live \ live') \union (live' \ live) : i.owner = o

Next == Add \/ Drop \/ Bundle

Spec == Init /\ [][Next]_<<live, issued>>
=============================================================================
