----------------------------- MODULE MCNovelRun -----------------------------
(* Small instances of NovelRun. *)
EXTENDS NovelRun

Scenario(enough, controls, faults, slow) ==
  [budget |-> enough, bounds |-> [controls |-> controls, faults |-> faults, slow |-> slow]]
\* Requests, a fault and a request, a slow task and a request, faults, a small budget.
MCScenarios == {
  Scenario(TRUE, 3, 0, 0),
  Scenario(TRUE, 1, 1, 0),
  Scenario(TRUE, 1, 0, 1),
  Scenario(TRUE, 0, 2, 1),
  Scenario(FALSE, 1, 0, 0)}
=============================================================================
