-------------------------- MODULE MCLocalTaskQueue --------------------------
(* LocalTaskQueue on a small instance: two jobs, the two workers of the    *)
(* default native_worker_concurrency, two attempts.                        *)
EXTENDS LocalTaskQueue, TLC

CONSTANTS w0, w1

MCWorkers == {w0, w1}
=============================================================================
