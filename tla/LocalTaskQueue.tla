--------------------------- MODULE LocalTaskQueue ---------------------------
(***************************************************************************)
(* The durable queue of the native profile: the rows of task_jobs          *)
(* (infrastructure/tasks/local.py) and the asyncio worker pool that claims *)
(* them (infrastructure/tasks/worker.py).  Every action is one database    *)
(* transaction, or one step of a worker between two of them.               *)
(*                                                                         *)
(* Time is abstract: a lease is "live" until ExpireLease, a job in back-off*)
(* is not due until BackoffElapses.  Jobs are numbered in creation order,  *)
(* which is the order claim() serves them in.                              *)
(***************************************************************************)
EXTENDS Naturals, FiniteSets

CONSTANTS
    NJobs,        \* jobs 1..NJobs may be enqueued
    Workers,      \* the asyncio tasks of LocalQueueWorker
    Sweeper,      \* worker 0, the one that also runs recover_expired
    MaxAttempts,  \* DEFAULT_MAX_ATTEMPTS
    MaxFaults     \* bound: graceful stops, process deaths, database errors that
                  \* escape to the worker loop, and leases that run out under
                  \* a living worker, all together

ASSUME JobsAssumption == NJobs \in Nat \ {0}
ASSUME WorkersAssumption == Sweeper \in Workers /\ 0 \notin Workers
ASSUME AttemptsAssumption == MaxAttempts \in Nat \ {0}
ASSUME BoundsAssumption == MaxFaults \in Nat

VARIABLES
    status,    \* task_jobs.status; "ABSENT" before the row exists
    attempts,  \* task_jobs.attempts
    token,     \* task_jobs.lease_token
    lease,     \* task_jobs.lease_expires_at: "none", "live" or "expired"
    due,       \* available_at <= now
    pc,        \* where each worker is in _run_loop
    held,      \* the job id a worker selected or runs (0: none)
    fence,     \* ClaimedJob.lease_token as the worker read it
    seen,      \* recover_expired: attempts of each row it read (0: not read)
    active,    \* _active_jobs: job -> token, 0 when the key is missing
    mode,      \* "up", "stopping", "cancelling" or "down"
    faults,    \* counts what MaxFaults bounds
    earned,    \* history: jobs whose handler, run for the last claim, returned
    releases,  \* history: accepted release() calls per job
    torn       \* history: jobs for which claim() or recover_expired() was
               \* overtaken between its two statements (Outrun, Overtaken)

rows    == <<status, attempts, token, lease, due>>
procs   == <<pc, held, fence, seen, active>>
history == <<earned, releases, torn>>
vars    == <<rows, procs, mode, faults, history>>

Jobs     == 1..NJobs
Terminal == {"SUCCEEDED", "FAILED", "CANCELLED"}
Statuses == {"ABSENT", "PENDING", "RUNNING"} \cup Terminal

\* A worker past its claim: it believes the job is its own.
Holding == {"committed", "running", "returned", "raised"}
Busy    == {"selected"} \cup Holding
PCs     == {"idle", "sweeping", "swept", "exited"} \cup Busy

Holds(w, j) == pc[w] \in Holding /\ held[w] = j
Live        == mode \in {"up", "stopping"}
-----------------------------------------------------------------------------
TypeOK ==
    /\ status \in [Jobs -> Statuses]
    /\ attempts \in [Jobs -> Nat]
    /\ token \in [Jobs -> Nat]
    /\ lease \in [Jobs -> {"none", "live", "expired"}]
    /\ due \in [Jobs -> BOOLEAN]
    /\ pc \in [Workers -> PCs]
    /\ held \in [Workers -> Jobs \cup {0}]
    /\ fence \in [Workers -> Nat]
    /\ seen \in [Jobs -> Nat]
    /\ active \in [Jobs -> Nat]
    /\ mode \in {"up", "stopping", "cancelling", "down"}
    /\ faults \in Nat
    /\ earned \subseteq Jobs
    /\ releases \in [Jobs -> Nat]
    /\ torn \subseteq Jobs

\* A worker names a job exactly while it is selecting or holding one.
HeldWhileBusy == \A w \in Workers : held[w] # 0 <=> pc[w] \in Busy

NothingRead == [j \in Jobs |-> 0]

\* One more of the events that MaxFaults bounds.
Fault == faults < MaxFaults /\ faults' = faults + 1

Init ==
    /\ status = [j \in Jobs |-> "ABSENT"]
    /\ attempts = [j \in Jobs |-> 0]
    /\ token = [j \in Jobs |-> 0]
    /\ lease = [j \in Jobs |-> "none"]
    /\ due = [j \in Jobs |-> FALSE]
    /\ pc = [w \in Workers |-> "idle"]
    /\ held = [w \in Workers |-> 0]
    /\ fence = [w \in Workers |-> 0]
    /\ seen = NothingRead
    /\ active = [j \in Jobs |-> 0]
    /\ mode = "up"
    /\ faults = 0
    /\ earned = {}
    /\ releases = [j \in Jobs |-> 0]
    /\ torn = {}
-----------------------------------------------------------------------------
(* Clients of the queue.                                                   *)

\* enqueue(): a fresh row, due at once.  Rows are created in job order.
Enqueue(j) ==
    /\ status[j] = "ABSENT"
    /\ \A i \in Jobs : i < j => status[i] # "ABSENT"
    /\ status' = [status EXCEPT ![j] = "PENDING"]
    /\ due' = [due EXCEPT ![j] = TRUE]
    /\ UNCHANGED <<attempts, token, lease, procs, mode, faults, history>>

\* Mutant of Cancel: the UPDATE without its status guard.
CancelAnyStatus(j) ==
    /\ status[j] # "ABSENT"
    /\ status' = [status EXCEPT ![j] = "CANCELLED"]
    /\ UNCHANGED <<attempts, token, lease, due, procs, mode, faults, history>>

\* cancel(): UPDATE ... WHERE status = 'PENDING'.
Cancel(j) ==
    /\ status[j] = "PENDING"
    /\ status' = [status EXCEPT ![j] = "CANCELLED"]
    /\ UNCHANGED <<attempts, token, lease, due, procs, mode, faults, history>>
-----------------------------------------------------------------------------
(* recover_expired(), run by worker 0 at the top of each round.  The SELECT*)
(* and the flush of the changed rows are two statements: the UPDATE names  *)
(* the primary key only, so it lands on whatever the row has become.       *)

\* Mutants of Expired: the lease is not looked at; exhausted rows are skipped.
ExpiredAnyLease == {j \in Jobs : status[j] = "RUNNING"}
ExpiredRetryable == {j \in Jobs : /\ status[j] = "RUNNING" /\ lease[j] = "expired"
                                  /\ attempts[j] < MaxAttempts}

Expired == {j \in Jobs : status[j] = "RUNNING" /\ lease[j] = "expired"}

SweepRead ==
    /\ Live /\ pc[Sweeper] = "idle" /\ mode = "up"
    /\ seen' = [j \in Jobs |-> IF j \in Expired THEN attempts[j] ELSE 0]
    /\ pc' = [pc EXCEPT ![Sweeper] = IF Expired = {} THEN "swept" ELSE "sweeping"]
    /\ UNCHANGED <<rows, held, fence, active, mode, faults, history>>

\* The jobs whose row is no longer what the sweep read: a worker that was only
\* slow has closed it or given it back, or another has claimed it since (H1).
Overtaken == {j \in Jobs : seen[j] # 0 /\ ~(j \in Expired /\ attempts[j] = seen[j])}

SweepWrite ==
    LET exhausted == {j \in Jobs : seen[j] >= MaxAttempts}
        reopened  == {j \in Jobs : seen[j] # 0} \ exhausted
    IN  /\ Live /\ pc[Sweeper] = "sweeping"
        /\ status' = [j \in Jobs |-> IF j \in exhausted THEN "FAILED"
                                     ELSE IF j \in reopened THEN "PENDING"
                                     ELSE status[j]]
        /\ lease' = [j \in Jobs |-> IF j \in reopened THEN "none" ELSE lease[j]]
        /\ due' = [j \in Jobs |-> IF j \in reopened THEN FALSE ELSE due[j]]
        /\ seen' = NothingRead
        /\ pc' = [pc EXCEPT ![Sweeper] = "swept"]
        /\ torn' = torn \cup Overtaken
        /\ UNCHANGED <<attempts, token, held, fence, active, mode, faults,
                       earned, releases>>
-----------------------------------------------------------------------------
(* claim(): SELECT the oldest due PENDING row, conditional UPDATE, COMMIT, *)
(* and then a second read of the row outside any transaction.              *)

Claimable == {j \in Jobs : status[j] = "PENDING" /\ due[j]}

\* The while condition is read at the top of a round; worker 0 sweeps first.
MayClaim(w) ==
    IF w = Sweeper THEN pc[w] = "swept" ELSE pc[w] = "idle" /\ mode = "up"

ClaimSelect(w) ==
    /\ Live /\ MayClaim(w)
    /\ \E j \in Claimable :
        /\ \A i \in Claimable : j <= i
        /\ held' = [held EXCEPT ![w] = j]
    /\ pc' = [pc EXCEPT ![w] = "selected"]
    /\ UNCHANGED <<rows, fence, seen, active, mode, faults, history>>

\* Nothing due: wait for the next poll (only worker 0 has moved).
ClaimNothing(w) ==
    /\ Live /\ pc[w] = "swept" /\ Claimable = {}
    /\ pc' = [pc EXCEPT ![w] = "idle"]
    /\ UNCHANGED <<rows, held, fence, seen, active, mode, faults, history>>

ClaimCommit(w) ==
    /\ Live /\ pc[w] = "selected" /\ status[held[w]] = "PENDING"
    /\ status' = [status EXCEPT ![held[w]] = "RUNNING"]
    /\ attempts' = [attempts EXCEPT ![held[w]] = @ + 1]
    /\ token' = [token EXCEPT ![held[w]] = @ + 1]
    /\ lease' = [lease EXCEPT ![held[w]] = "live"]
    /\ pc' = [pc EXCEPT ![w] = "committed"]
    /\ earned' = earned \ {held[w]}
    /\ UNCHANGED <<due, held, fence, seen, active, mode, faults, releases, torn>>

\* rowcount = 0: not claimed this round.
ClaimLost(w) ==
    /\ Live /\ pc[w] = "selected" /\ status[held[w]] # "PENDING"
    /\ pc' = [pc EXCEPT ![w] = "idle"]
    /\ held' = [held EXCEPT ![w] = 0]
    /\ UNCHANGED <<rows, fence, seen, active, mode, faults, history>>

\* The second read, and the registration in _active_jobs.
ClaimRead(w) ==
    /\ Live /\ pc[w] = "committed"
    /\ IF status[held[w]] = "RUNNING"
       THEN /\ fence' = [fence EXCEPT ![w] = token[held[w]]]
            /\ active' = [active EXCEPT ![held[w]] = token[held[w]]]
            /\ pc' = [pc EXCEPT ![w] = "running"]
            /\ UNCHANGED held
       ELSE /\ pc' = [pc EXCEPT ![w] = "idle"]
            /\ held' = [held EXCEPT ![w] = 0]
            /\ UNCHANGED <<fence, active>>
    /\ UNCHANGED <<rows, seen, mode, faults, history>>
-----------------------------------------------------------------------------
(* The handler and the three ways a worker gives the job back.  Each UPDATE*)
(* is guarded by status = 'RUNNING' and the lease token.                   *)

HandlerReturns(w) ==
    /\ Live /\ pc[w] = "running"
    /\ pc' = [pc EXCEPT ![w] = "returned"]
    /\ earned' = IF fence[w] = token[held[w]] THEN earned \cup {held[w]} ELSE earned
    /\ UNCHANGED <<rows, held, fence, seen, active, mode, faults, releases, torn>>

\* The handler raises, or no handler is registered (KeyError).
HandlerRaises(w) ==
    /\ Live /\ pc[w] = "running"
    /\ pc' = [pc EXCEPT ![w] = "raised"]
    /\ UNCHANGED <<rows, held, fence, seen, active, mode, faults, history>>

\* Mutant of Accepted: no fencing token.
AcceptedUnfenced(w) == status[held[w]] = "RUNNING"

Accepted(w) == status[held[w]] = "RUNNING" /\ token[held[w]] = fence[w]

\* Mutant of LeaveJob: the entry of _active_jobs stays.
LeaveJobRegistered(w, next) ==
    /\ pc' = [pc EXCEPT ![w] = next]
    /\ held' = [held EXCEPT ![w] = 0]
    /\ fence' = [fence EXCEPT ![w] = 0]
    /\ UNCHANGED <<active, seen>>

\* The finally clause: forget the job, whoever registered it last.
LeaveJob(w, next) ==
    /\ active' = [active EXCEPT ![held[w]] = 0]
    /\ pc' = [pc EXCEPT ![w] = next]
    /\ held' = [held EXCEPT ![w] = 0]
    /\ fence' = [fence EXCEPT ![w] = 0]
    /\ UNCHANGED seen

\* complete() -> _finish(SUCCEEDED).
Complete(w) ==
    /\ Live /\ pc[w] = "returned"
    /\ IF Accepted(w)
       THEN /\ status' = [status EXCEPT ![held[w]] = "SUCCEEDED"]
            /\ lease' = [lease EXCEPT ![held[w]] = "none"]
       ELSE UNCHANGED <<status, lease>>
    /\ LeaveJob(w, "idle")
    /\ UNCHANGED <<attempts, token, due, mode, faults, history>>

\* retry(): FAILED at the attempt limit, otherwise PENDING with back-off.
Retry(w) ==
    /\ Live /\ pc[w] = "raised"
    /\ IF Accepted(w)
       THEN LET exhausted == attempts[held[w]] >= MaxAttempts
            IN  /\ status' = [status EXCEPT ![held[w]] =
                                IF exhausted THEN "FAILED" ELSE "PENDING"]
                /\ lease' = [lease EXCEPT ![held[w]] = "none"]
                /\ due' = [due EXCEPT ![held[w]] = exhausted /\ @]
       ELSE UNCHANGED <<status, lease, due>>
    /\ LeaveJob(w, "idle")
    /\ UNCHANGED <<attempts, token, mode, faults, history>>

\* SQLITE_BUSY inside claim()'s or recover_expired()'s transaction is caught:
\* the statement had no effect and the loop goes on.
BusyStatement(w) ==
    /\ Live /\ Fault
    /\ \/ /\ pc[w] = "selected"
          /\ pc' = [pc EXCEPT ![w] = "idle"]
          /\ held' = [held EXCEPT ![w] = 0]
          /\ UNCHANGED seen
       \/ /\ pc[w] = "sweeping"
          /\ pc' = [pc EXCEPT ![w] = "swept"]
          /\ seen' = NothingRead
          /\ UNCHANGED held
    /\ UNCHANGED <<rows, fence, active, mode, history>>

\* A database error in complete(), in retry() or in the second read of claim()
\* is caught nowhere: finally runs, and the worker task is dead.
WorkerDies(w) ==
    /\ Live /\ Fault
    /\ \/ /\ pc[w] \in {"returned", "raised"}
          /\ LeaveJob(w, "exited")
       \/ /\ pc[w] = "committed"
          /\ pc' = [pc EXCEPT ![w] = "exited"]
          /\ held' = [held EXCEPT ![w] = 0]
          /\ UNCHANGED <<fence, seen, active>>
    /\ UNCHANGED <<rows, mode, history>>
-----------------------------------------------------------------------------
(* stop(): no new rounds, a grace period, then cancellation.               *)

StopBegin ==
    /\ mode = "up" /\ Fault
    /\ mode' = "stopping"
    /\ UNCHANGED <<rows, procs, history>>

\* The while condition, or the poll wait woken by the stop event.
LeaveLoop(w) ==
    /\ mode = "stopping" /\ pc[w] = "idle"
    /\ pc' = [pc EXCEPT ![w] = "exited"]
    /\ UNCHANGED <<rows, held, fence, seen, active, mode, faults, history>>

GraceTimeout ==
    /\ mode = "stopping" /\ \E w \in Workers : pc[w] # "exited"
    /\ mode' = "cancelling"
    /\ UNCHANGED <<rows, procs, faults, history>>

\* CancelledError inside the handler: release() the lease, then re-raise.
Release(w) ==
    /\ mode = "cancelling" /\ pc[w] = "running"
    /\ IF Accepted(w)
       THEN /\ status' = [status EXCEPT ![held[w]] = "PENDING"]
            /\ lease' = [lease EXCEPT ![held[w]] = "none"]
            /\ releases' = [releases EXCEPT ![held[w]] = @ + 1]
       ELSE UNCHANGED <<status, lease, releases>>
    /\ LeaveJob(w, "exited")
    /\ UNCHANGED <<attempts, token, due, mode, faults, earned, torn>>

\* CancelledError anywhere else (an await in the sweep, in claim(), in
\* complete() or retry()) only unwinds the loop: nothing is released.
Unwind(w) ==
    /\ mode = "cancelling" /\ pc[w] \notin {"running", "exited"}
    /\ IF pc[w] \in {"returned", "raised"}
       THEN LeaveJob(w, "exited")
       ELSE /\ pc' = [pc EXCEPT ![w] = "exited"]
            /\ held' = [held EXCEPT ![w] = 0]
            /\ seen' = IF w = Sweeper THEN NothingRead ELSE seen
            /\ UNCHANGED <<fence, active>>
    /\ UNCHANGED <<rows, mode, faults, history>>

\* After gather(): release whatever is still in _active_jobs.
Leftover == {j \in Jobs : /\ active[j] # 0 /\ status[j] = "RUNNING"
                          /\ token[j] = active[j]}

StopEnd ==
    /\ mode \in {"stopping", "cancelling"}
    /\ \A w \in Workers : pc[w] = "exited"
    /\ mode' = "down"
    /\ status' = [j \in Jobs |-> IF j \in Leftover THEN "PENDING" ELSE status[j]]
    /\ lease' = [j \in Jobs |-> IF j \in Leftover THEN "none" ELSE lease[j]]
    /\ releases' = [j \in Jobs |-> releases[j] + IF j \in Leftover THEN 1 ELSE 0]
    /\ active' = [j \in Jobs |-> 0]
    /\ UNCHANGED <<attempts, token, due, pc, held, fence, seen, faults,
                   earned, torn>>
-----------------------------------------------------------------------------
(* Process death and start, and the passage of time.                       *)

FreshWorkers(state) ==
    /\ pc' = [w \in Workers |-> state]
    /\ held' = [w \in Workers |-> 0]
    /\ fence' = [w \in Workers |-> 0]
    /\ seen' = NothingRead
    /\ active' = [j \in Jobs |-> 0]

Crash ==
    /\ mode # "down" /\ Fault
    /\ mode' = "down"
    /\ FreshWorkers("exited")
    /\ UNCHANGED <<rows, history>>

Start ==
    /\ mode = "down"
    /\ mode' = "up"
    /\ FreshWorkers("idle")
    /\ UNCHANGED <<rows, faults, history>>

\* A claim whose lease runs out before claim() has read the row back: the
\* read may then return the claim of somebody else (H2).
Outrun(j) == \E w \in Workers : pc[w] = "committed" /\ held[w] = j

\* Nothing renews a lease: it runs out under a dead worker and, in the model as
\* a bounded fault, under one that is only slow.
ExpireLease(j) ==
    /\ status[j] = "RUNNING" /\ lease[j] = "live"
    /\ IF \E w \in Workers : Holds(w, j) THEN Fault ELSE UNCHANGED faults
    /\ lease' = [lease EXCEPT ![j] = "expired"]
    /\ torn' = IF Outrun(j) THEN torn \cup {j} ELSE torn
    /\ UNCHANGED <<status, attempts, token, due, procs, mode, earned, releases>>

BackoffElapses(j) ==
    /\ status[j] = "PENDING" /\ ~due[j]
    /\ due' = [due EXCEPT ![j] = TRUE]
    /\ UNCHANGED <<status, attempts, token, lease, procs, mode, faults, history>>
-----------------------------------------------------------------------------
WorkerStep(w) ==
    \/ ClaimSelect(w) \/ ClaimNothing(w) \/ ClaimCommit(w) \/ ClaimLost(w)
    \/ ClaimRead(w) \/ Complete(w) \/ Retry(w)

HandlerEnds(w) == HandlerReturns(w) \/ HandlerRaises(w)
Shutdown(w)    == LeaveLoop(w) \/ Release(w) \/ Unwind(w)
Sweep          == SweepRead \/ SweepWrite
Clock(j)       == ExpireLease(j) \/ BackoffElapses(j)
StopStep       == GraceTimeout \/ StopEnd

Next ==
    \/ \E j \in Jobs : Enqueue(j) \/ Cancel(j) \/ Clock(j)
    \/ \E w \in Workers : \/ WorkerStep(w) \/ HandlerEnds(w)
                          \/ Shutdown(w) \/ BusyStatement(w) \/ WorkerDies(w)
    \/ Sweep \/ StopBegin \/ StopStep \/ Crash \/ Start

Spec == Init /\ [][Next]_vars

\* The event loop runs every ready task, handlers return, time passes, a
\* stop runs to its end and a stopped service is started again.  Nothing is
\* assumed of clients, crashes or database errors.
Fairness ==
    /\ \A w \in Workers : /\ WF_vars(WorkerStep(w))
                          /\ WF_vars(HandlerEnds(w))
                          /\ WF_vars(Shutdown(w))
    /\ \A j \in Jobs : WF_vars(Clock(j))
    /\ WF_vars(Sweep) /\ WF_vars(StopStep) /\ WF_vars(Start)

FairSpec == Spec /\ Fairness
-----------------------------------------------------------------------------
(* What holds whatever the timing.                                         *)

\* A job is SUCCEEDED only if the handler run of its last claim returned
\* normally: a worker whose lease was taken over cannot close the job with
\* the result of an earlier claim (_finish, the lease_token guard).
SuccessWasEarned ==
    \A j \in Jobs : status[j] = "SUCCEEDED" => j \in earned

\* _active_jobs never names a job that no worker holds, so that a stop leaves
\* no entry behind and the fallback loop of stop() has nothing to release.
RegisteredIsHeld ==
    \A j \in Jobs : active[j] # 0 => \E w \in Workers : Holds(w, j)

\* A closed job (SUCCEEDED, FAILED, CANCELLED) changes status in one way only:
\* by a recover_expired() that had read its row before it was closed.
ClosedChangesOnlyBySweep ==
    [][ \A j \in Jobs :
            (status[j] \in Terminal /\ status'[j] # status[j])
                => (pc[Sweeper] = "sweeping" /\ seen[j] # 0) ]_vars
-----------------------------------------------------------------------------
(* What holds of every job that is not torn, handlers that outlast their   *)
(* lease included.  A torn job is one that claim() or recover_expired()    *)
(* read, and somebody changed before the statement that follows the read.  *)

\* The worker whose claim of j is the last one: its result will be accepted.
Owns(w, j) ==
    /\ Holds(w, j) /\ status[j] = "RUNNING"
    /\ pc[w] = "committed" \/ fence[w] = token[j]

\* claim() is only-one: of the workers that believe to have a job, the slow ones
\* with a lapsed lease among them, at most one can still close it or give it back.
OneOwner ==
    \A j \in Jobs \ torn : \A v, w \in Workers : Owns(v, j) /\ Owns(w, j) => v = w

\* A closed job is closed for good, whichever workers come late.
ClosedIsFinal ==
    [][ \A j \in Jobs : (status[j] \in Terminal /\ j \notin torn')
                            => status'[j] = status[j] ]_vars

\* A handler is run at most MaxAttempts times, plus once for each time a
\* graceful stop gave the job back (release() does not undo the attempt).
AttemptsBounded ==
    \A j \in Jobs \ torn : attempts[j] <= MaxAttempts + releases[j]

\* Only the first worker of the pool recovers expired leases (_run_loop), and
\* nobody replaces a worker task that a database error has ended.
SweeperIsDead == mode = "up" /\ pc[Sweeper] = "exited"

\* Every job that was enqueued is closed in the end, through crashes,
\* restarts, failing handlers, back-off and workers that die of a database
\* error, unless the one that recovers leases does.
EventuallyClosed ==
    \A j \in Jobs : status[j] = "PENDING" ~> (status[j] \in Terminal \/ SweeperIsDead)
-----------------------------------------------------------------------------
(* The queue as ExclusiveQueue sees it: a job belongs to the worker whose  *)
(* claim is the last one, until it gives the job back or a sweep takes it. *)
Nobody == 0

AbstractState == [j \in Jobs |->
    IF j \in torn THEN "broken"
    ELSE IF status[j] = "ABSENT" THEN "unborn"
    ELSE IF status[j] = "PENDING" THEN "open"
    ELSE IF status[j] = "RUNNING" THEN (IF lease[j] = "expired" THEN "overdue" ELSE "taken")
    ELSE IF status[j] = "SUCCEEDED" THEN "done"
    ELSE IF status[j] = "FAILED" THEN "failed"
    ELSE "withdrawn"]

OwnerOf(j) ==
    IF j \notin torn /\ \E w \in Workers : Owns(w, j)
    THEN CHOOSE w \in Workers : Owns(w, j)
    ELSE Nobody

Abstract == INSTANCE ExclusiveQueue
    WITH state <- AbstractState, owner <- [j \in Jobs |-> OwnerOf(j)]

\* The table, its tokens and its sweeps implement an exclusive queue with
\* deadlines: only a job that is overdue is taken from its worker, and what the
\* worker it was taken from reports later changes nothing.
ImplementsExclusiveQueue == Abstract!Spec
=============================================================================
