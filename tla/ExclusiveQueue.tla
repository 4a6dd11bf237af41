--------------------------- MODULE ExclusiveQueue ---------------------------
(***************************************************************************)
(* What a task queue with deadlines promises, whatever it is built on: a   *)
(* job is open until one worker takes it, at most one worker has it, only  *)
(* that worker closes it or gives it back, and a job that is overdue may   *)
(* be reopened or written off, its worker gone or not: the worker has it   *)
(* no longer.  A broken job is one the implementation gives no promise for.*)
(***************************************************************************)
CONSTANTS
    Jobs, Workers,
    Nobody          \* not a worker

VARIABLES
    state,   \* per job: "unborn", "open", "taken", "overdue", "done", "failed",
             \* "withdrawn" or "broken"
    owner    \* per job: the worker that has it, or Nobody

vars == <<state, owner>>

Init ==
    /\ state = [j \in Jobs |-> "unborn"]
    /\ owner = [j \in Jobs |-> Nobody]

Submit(j) ==
    /\ state[j] = "unborn"
    /\ state' = [state EXCEPT ![j] = "open"]
    /\ UNCHANGED owner

Withdraw(j) ==
    /\ state[j] = "open"
    /\ state' = [state EXCEPT ![j] = "withdrawn"]
    /\ UNCHANGED owner

\* A worker takes one job at a time.
Take(w, j) ==
    /\ state[j] = "open"
    /\ \A i \in Jobs : owner[i] # w
    /\ state' = [state EXCEPT ![j] = "taken"]
    /\ owner' = [owner EXCEPT ![j] = w]

\* The deadline passes: the worker still has the job.
Lapse(j) ==
    /\ state[j] = "taken"
    /\ state' = [state EXCEPT ![j] = "overdue"]
    /\ UNCHANGED owner

\* The owner closes its job or gives it back, overdue or not.
Settle(w, j) ==
    /\ state[j] \in {"taken", "overdue"} /\ owner[j] = w
    /\ \E s \in {"open", "done", "failed"} : state' = [state EXCEPT ![j] = s]
    /\ owner' = [owner EXCEPT ![j] = Nobody]

\* Workers vanish; their jobs stay taken.
Vanish(gone) ==
    /\ gone # {}
    /\ owner' = [j \in Jobs |-> IF owner[j] \in gone THEN Nobody ELSE owner[j]]
    /\ UNCHANGED state

\* Overdue jobs are taken from whoever has them and are reopened or written off;
\* other jobs may break.
Reclaim(reopened, failed, broken) ==
    /\ reopened \cup failed \cup broken # {}
    /\ reopened \cap failed = {} /\ (reopened \cup failed) \cap broken = {}
    /\ \A j \in reopened \cup failed : state[j] = "overdue"
    /\ state' = [j \in Jobs |-> IF j \in reopened THEN "open"
                                ELSE IF j \in failed THEN "failed"
                                ELSE IF j \in broken THEN "broken"
                                ELSE state[j]]
    /\ owner' = [j \in Jobs |-> IF j \in reopened \cup failed \cup broken
                                THEN Nobody ELSE owner[j]]

Next ==
    \/ \E j \in Jobs : Submit(j) \/ Withdraw(j) \/ Lapse(j)
    \/ \E w \in Workers, j \in Jobs : Take(w, j) \/ Settle(w, j)
    \/ \E gone \in SUBSET Workers : Vanish(gone)
    \/ \E reopened, failed, broken \in SUBSET Jobs : Reclaim(reopened, failed, broken)

Spec == Init /\ [][Next]_vars
=============================================================================
