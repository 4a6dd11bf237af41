-------------------------- MODULE MCPromiseLedger --------------------------
(* Small instances of PromiseLedger. *)
EXTENDS PromiseLedger, TLC

CONSTANTS r1, r2, q1, q2
MCRuns == {r1, r2}
MCQuotes == {q1, q2}
Symmetry == Permutations(MCRuns) \cup Permutations(MCQuotes)

Row(key, required) == [NewRow(key) EXCEPT !.required = required]
Scenario(table, edits, faults) == [rows |-> table, bounds |-> [edits |-> edits, faults |-> faults]]
\* No row, an edit and a fault; a promise to keep once, or excluded, and an edit; a promise
\* to keep twice and faults, or an edit.
Excluded == [Row(1, 1) EXCEPT !.status = "excluded", !.version = 2]
MCScenarios == {
  Scenario(<<>>, 1, 1),
  Scenario(<<Row(1, 1)>>, 1, 0),
  Scenario(<<Excluded>>, 1, 0),
  Scenario(<<Row(1, 2)>>, 0, 2),
  Scenario(<<Row(1, 2)>>, 1, 0)}
=============================================================================
