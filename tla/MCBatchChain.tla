---------------------------- MODULE MCBatchChain ----------------------------
(* BatchChain with two handlers: a chapter's executor and the sweeper, or  *)
(* the executors of two chapters.                                          *)
EXTENDS BatchChain

CONSTANT u1
=============================================================================
