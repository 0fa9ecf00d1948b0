------------------------- MODULE MCAuthoringSession -------------------------
(* TLC instance of AuthoringSession. *)
EXTENDS AuthoringSession

MCTextBytes == [ann |-> 1, huge |-> 7, code |-> 1, long |-> 3]

MCValuesOf == [c |-> {"low", "large", "bad", "odd"}, d |-> {"low"}, s |-> {"script"}]
MCValueBytes == [low |-> 1, large |-> 3, bad |-> 1, odd |-> 1, script |-> 1]
MCMaxSlot == [c |-> 2, d |-> 1, s |-> 1]

Grant(c, m) == [component |-> c, mode |-> m]

\* Lists that are admitted in some worlds, and one for each way to refuse one.
MCGrantLists ==
  { <<Grant("c", "ReadWrite")>>,
    <<Grant("d", "Read"), Grant("c", "Write")>>,
    <<Grant("c", "Read"), Grant("c", "Write")>>,
    <<Grant("d", "Read"), Grant("s", "Write")>>,
    <<Grant("c", "Read"), Grant("d", "Read"), Grant("s", "Read")>>,
    <<>> }

TestCaseOf(name, frames) ==
  [name |-> name, frames |-> frames, callbacks |-> TRUE, sorted |-> TRUE]

\* One case of two frames, two cases of one, and a case whose name alone is more
\* than a response may have; then some that are refused.
MCSuites ==
  { [id |-> 1, cases |-> <<TestCaseOf(1, 2)>>],
    [id |-> 2, cases |-> <<TestCaseOf(1, 1), TestCaseOf(1, 1)>>],
    [id |-> 1, cases |-> <<TestCaseOf(6, 1)>>],
    [id |-> 1, cases |-> <<>>],
    [id |-> 1, cases |-> <<TestCaseOf(1, 3)>>],
    [id |-> 1, cases |-> <<[TestCaseOf(1, 2) EXCEPT !.sorted = FALSE]>>] }

Effect(type, accepted, c) == [type |-> type, accepted |-> accepted, component |-> c]

\* A granted command, and a foreign one after feedback that is not accepted.
MCWork ==
  { <<Effect("CommandIssued", TRUE, "c")>>,
    <<Effect("ReportReceived", FALSE, "c"), Effect("CommandIssued", TRUE, "Foreign")>> }
=============================================================================
