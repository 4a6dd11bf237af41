---------------------------- MODULE SerialChain ----------------------------
(***************************************************************************)
(* What the batch dispatcher promises (application/agents/batch_dispatch.  *)
(* py, lines 1-26): chapters are begun once each, in order, the next one   *)
(* only after the one before has reached a terminal status, and the batch  *)
(* is completed only when its last chapter has settled.                    *)
(***************************************************************************)
EXTENDS Integers

CONSTANT NChapters

VARIABLES begun,    \* chapters begun so far
          settled,  \* chapters that reached a terminal status at least once
          completed \* has the batch been completed?

vars == <<begun, settled, completed>>

Init == begun = {} /\ settled = {} /\ completed = FALSE

\* A chapter is begun once, after all the chapters before it have settled.
Begin(k) ==
    /\ k \notin begun /\ 1..(k - 1) \subseteq settled
    /\ begun' = begun \cup {k}
    /\ UNCHANGED <<settled, completed>>

\* A chapter may settle again when the user retries it.
Settle(k) ==
    /\ k \in begun
    /\ settled' = settled \cup {k}
    /\ UNCHANGED <<begun, completed>>

Complete ==
    /\ settled = 1..NChapters
    /\ completed' = TRUE
    /\ UNCHANGED <<begun, settled>>

Next == (\E k \in 1..NChapters : Begin(k) \/ Settle(k)) \/ Complete

Spec == Init /\ [][Next]_vars
=============================================================================
