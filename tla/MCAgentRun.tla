----------------------------- MODULE MCAgentRun -----------------------------
(* AgentRun on small graphs.                                               *)
EXTENDS AgentRun, TLC

CONSTANTS e1, e2, c1, c2, Graph

\* "chain": one review, merge, rewrite, recheck; "join": two tasks and one
\* that needs both; "single": one task.
MCNTasks == CASE Graph = "chain" -> 4 [] Graph = "join" -> 3 [] OTHER -> 1
MCDeps ==
    IF Graph = "join" THEN [t \in 1..3 |-> IF t = 3 THEN {1, 2} ELSE {}]
    ELSE [t \in 1..MCNTasks |-> IF t = 1 THEN {} ELSE {t - 1}]
IsChain == Graph = "chain"
MCReviews   == IF IsChain THEN {1} ELSE {}
MCMerge     == IF IsChain THEN 2 ELSE 0
MCRewrite   == IF IsChain THEN 3 ELSE 0
MCRecheck   == IF IsChain THEN 4 ELSE 0
MCSkippable == IF IsChain THEN {2, 3, 4} ELSE {}
\* The first task is free, so that a batch can be won before one exceeds.
MCTaskBudget == [t \in 1..MCNTasks |-> IF t = 1 THEN 0 ELSE 1]
\* Worker slots are interchangeable (for the runs without liveness).
ExecutorSymmetry == Permutations(Executors)
\* Two disturbances at most: crashes, duplicates or lost leases, and requests.
FewDisturbances == crashes + duplicates + controls <= 2
=============================================================================
