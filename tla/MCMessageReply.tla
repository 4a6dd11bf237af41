--------------------------- MODULE MCMessageReply ---------------------------
(* Small instances of MessageReply. *)
EXTENDS MessageReply, TLC

CONSTANTS w1, w2, q1, p1, p2, c1

Symmetric == Permutations(Workers) \cup Permutations(Writers)

\* The safety run stops where a write relied on a row that had changed: from there
\* on its properties promise nothing.
Informed == blind = {}
=============================================================================
