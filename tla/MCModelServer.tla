---------------------------- MODULE MCModelServer ----------------------------
(* Two processes that share one model, and a few faults of every kind. *)
EXTENDS ModelServer

NoFaults == [f \in Faults |-> 0]
MCScenarios ==
    {NoFaults}
    \cup {[NoFaults EXCEPT ![f] = 1] : f \in Faults}
    \cup {[NoFaults EXCEPT ![f] = 1, !["crash"] = 1] : f \in Faults}
    \cup {[NoFaults EXCEPT ![f] = 2] : f \in {"crash", "slow"}}

=============================================================================
