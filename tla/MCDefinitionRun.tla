---------------------------- MODULE MCDefinitionRun ----------------------------
(* Small instances of DefinitionRun. *)
EXTENDS DefinitionRun

MCOrder == <<"write", "export">>
Scenario(exceeding, controls, faults, slow, deletes) ==
  [over |-> exceeding, bounds |-> [controls |-> controls, faults |-> faults, slow |-> slow,
                                   deletes |-> deletes]]

\* Requests and one fault, faults and slow handlers, a definition deleted, a budget
\* too small.
MCScenarios == {
  Scenario({}, 2, 1, 0, 0),
  Scenario({}, 0, 1, 1, 0),
  Scenario({}, 2, 0, 1, 0),
  Scenario({}, 1, 0, 0, 1),
  Scenario({"export"}, 3, 0, 0, 0)}
=============================================================================
