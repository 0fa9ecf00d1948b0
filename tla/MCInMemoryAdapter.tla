-------------------------- MODULE MCInMemoryAdapter --------------------------
(* TLC instance of InMemoryAdapter. *)
EXTENDS InMemoryAdapter

\* The device makes high of everything above it.
MCNormalize == [low |-> "low", high |-> "high", over |-> "high"]

Plain == [latency |-> 0, outcome |-> "Applied", duplicates |-> 0, silent |-> FALSE,
          reverse |-> FALSE, crash |-> FALSE]

\* Duplicates at once, and late in reverse order; a device that crashes before
\* it executes, one that refuses, and one that is silent; and a behavior with more duplicates than
\* the adapter allows.
MCBehaviors ==
  { [Plain EXCEPT !.duplicates = 2],
    [Plain EXCEPT !.latency = 1, !.duplicates = 1, !.reverse = TRUE],
    [Plain EXCEPT !.crash = TRUE],
    [Plain EXCEPT !.silent = TRUE],
    [Plain EXCEPT !.latency = 1, !.outcome = "Rejected"],
    [Plain EXCEPT !.duplicates = 3] }
==============================================================================
