-------------------------- MODULE MCChapterMemory ---------------------------
(* Small instances of ChapterMemory. *)
EXTENDS ChapterMemory

Scenario(engine, llm, who, edits, faults, saves, recomputes) ==
  [embedding |-> engine, model |-> llm, clients |-> who,
   bounds |-> [edits |-> edits, faults |-> faults, saves |-> saves, recomputes |-> recomputes]]

\* Each stresses one part: the indexer (twice), the recaps and their indexing, a recap made
\* again, its recomputation, the settings, the writers (twice).  It takes three changes and
\* a worker that dies for a re-armed job to end between two later ones.
MCScenarios == {
  Scenario(TRUE, FALSE, {"put"}, 3, 1, 0, 0),
  Scenario(TRUE, FALSE, {"put"}, 1, 2, 0, 0),
  Scenario(TRUE, TRUE, {"put"}, 2, 0, 0, 0),
  Scenario(TRUE, TRUE, {"writeback"}, 2, 0, 0, 1),
  Scenario(FALSE, TRUE, {"put"}, 2, 0, 0, 1),
  Scenario(FALSE, TRUE, {"writeback"}, 1, 1, 1, 0),
  Scenario(FALSE, FALSE, {"approve", "writeback"}, 2, 1, 0, 0),
  Scenario(FALSE, FALSE, {"edit"}, 2, 0, 0, 0)}
=============================================================================
