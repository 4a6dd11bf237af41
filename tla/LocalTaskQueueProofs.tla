------------------------ MODULE LocalTaskQueueProofs ------------------------
(***************************************************************************)
(* Proofs about LocalTaskQueue, for any number of jobs, any set of workers *)
(* and any attempt limit, leases that run out under living workers         *)
(* included.                                                               *)
(***************************************************************************)
EXTENDS LocalTaskQueue, TLAPS

\* Every action of Next keeps the rows, the workers and the counters in their
\* types.
LEMMA TypeStep == TypeOK /\ HeldWhileBusy /\ [Next]_vars => TypeOK'
<1> USE DEF TypeOK, HeldWhileBusy, Statuses, Terminal, PCs, Busy, Holding, rows, procs,
            history, Fault
<1>1. ASSUME TypeOK, NEW j \in Jobs, Enqueue(j) \/ Cancel(j) \/ Clock(j)
      PROVE  TypeOK'
  <2>1. CASE Enqueue(j) \/ Cancel(j) \/ BackoffElapses(j)
    BY <1>1, <2>1 DEF Enqueue, Cancel, BackoffElapses
  <2>2. CASE ExpireLease(j)
    <3>1. faults' \in Nat
      BY <1>1, <2>2 DEF ExpireLease
    <3> QED BY <1>1, <2>2, <3>1 DEF ExpireLease
  <2> QED BY <1>1, <2>1, <2>2 DEF Clock
<1>2. ASSUME TypeOK, HeldWhileBusy, NEW w \in Workers, WorkerStep(w) PROVE TypeOK'
  <2>1. ASSUME ClaimSelect(w) PROVE TypeOK'
    BY <1>2, <2>1 DEF ClaimSelect, Claimable
  <2>2. ASSUME ClaimNothing(w) PROVE TypeOK'
    BY <1>2, <2>2 DEF ClaimNothing
  <2>3. ASSUME ClaimCommit(w) PROVE TypeOK'
    BY <1>2, <2>3 DEF ClaimCommit
  <2>4. ASSUME ClaimLost(w) PROVE TypeOK'
    BY <1>2, <2>4 DEF ClaimLost
  <2>5. ASSUME ClaimRead(w) PROVE TypeOK'
    BY <1>2, <2>5 DEF ClaimRead
  <2>6. ASSUME Complete(w) PROVE TypeOK'
    BY <1>2, <2>6 DEF Complete, LeaveJob
  <2>7. ASSUME Retry(w) PROVE TypeOK'
    <3>1. status' \in [Jobs -> Statuses] /\ lease' \in [Jobs -> {"none", "live", "expired"}]
      BY <1>2, <2>7 DEF Retry
    <3>2. due' \in [Jobs -> BOOLEAN]
      BY <1>2, <2>7 DEF Retry
    <3> QED BY <1>2, <2>7, <3>1, <3>2 DEF Retry, LeaveJob
  <2> QED BY <1>2, <2>1, <2>2, <2>3, <2>4, <2>5, <2>6, <2>7 DEF WorkerStep
<1>3. ASSUME TypeOK, HeldWhileBusy, NEW w \in Workers, HandlerEnds(w) PROVE TypeOK'
  BY <1>3 DEF HandlerEnds, HandlerReturns, HandlerRaises
<1>4. ASSUME TypeOK, HeldWhileBusy, NEW w \in Workers, Shutdown(w) PROVE TypeOK'
  <2>1. ASSUME LeaveLoop(w) PROVE TypeOK'
    BY <1>4, <2>1 DEF LeaveLoop
  <2>2. ASSUME Release(w) PROVE TypeOK'
    BY <1>4, <2>2 DEF Release, LeaveJob
  <2>3. ASSUME Unwind(w) PROVE TypeOK'
    BY <1>4, <2>3 DEF Unwind, LeaveJob, NothingRead
  <2> QED BY <1>4, <2>1, <2>2, <2>3 DEF Shutdown
<1>5. ASSUME TypeOK, HeldWhileBusy, NEW w \in Workers, BusyStatement(w) PROVE TypeOK'
  BY <1>5 DEF BusyStatement, NothingRead
<1>6. ASSUME TypeOK, HeldWhileBusy, NEW w \in Workers, WorkerDies(w) PROVE TypeOK'
  BY <1>6 DEF WorkerDies, LeaveJob
<1>7. ASSUME TypeOK, Sweep PROVE TypeOK'
  <2>1. ASSUME SweepRead PROVE TypeOK'
    BY <1>7, <2>1 DEF SweepRead
  <2>2. ASSUME SweepWrite PROVE TypeOK'
    BY <1>7, <2>2 DEF SweepWrite, Overtaken, NothingRead
  <2> QED BY <1>7, <2>1, <2>2 DEF Sweep
<1>8. ASSUME TypeOK, StopBegin \/ GraceTimeout PROVE TypeOK'
  BY <1>8 DEF StopBegin, GraceTimeout
<1>9. ASSUME TypeOK, StopEnd PROVE TypeOK'
  BY <1>9 DEF StopEnd
<1>10. ASSUME TypeOK, Crash \/ Start PROVE TypeOK'
  BY <1>10 DEF Crash, Start, FreshWorkers, NothingRead
<1>11. ASSUME TypeOK, UNCHANGED vars PROVE TypeOK'
  BY <1>11 DEF vars
<1> HIDE DEF TypeOK, HeldWhileBusy
<1> QED
  BY <1>1, <1>2, <1>3, <1>4, <1>5, <1>6, <1>7, <1>8, <1>9, <1>10, <1>11
     DEF Next, StopStep

\* A worker's pc and the job it names change together.
LEMMA HeldStep == TypeOK /\ HeldWhileBusy /\ [Next]_vars => HeldWhileBusy'
<1> USE DEF TypeOK, HeldWhileBusy, PCs, Busy, Holding, procs
<1>1. ASSUME NEW j \in Jobs, Enqueue(j) \/ Cancel(j) \/ Clock(j), HeldWhileBusy
      PROVE  HeldWhileBusy'
  BY <1>1 DEF Enqueue, Cancel, Clock, ExpireLease, BackoffElapses
<1>2. ASSUME TypeOK, HeldWhileBusy, NEW w \in Workers, WorkerStep(w)
      PROVE  HeldWhileBusy'
  <2>1. ASSUME ClaimSelect(w) PROVE HeldWhileBusy'
    BY <1>2, <2>1, JobsAssumption DEF ClaimSelect, Claimable, Jobs
  <2>2. ASSUME ClaimNothing(w) \/ ClaimLost(w) PROVE HeldWhileBusy'
    BY <1>2, <2>2 DEF ClaimNothing, ClaimLost
  <2>3. ASSUME ClaimCommit(w) PROVE HeldWhileBusy'
    BY <1>2, <2>3 DEF ClaimCommit
  <2>4. ASSUME ClaimRead(w) PROVE HeldWhileBusy'
    BY <1>2, <2>4 DEF ClaimRead
  <2>5. ASSUME Complete(w) \/ Retry(w) PROVE HeldWhileBusy'
    BY <1>2, <2>5 DEF Complete, Retry, LeaveJob
  <2> QED BY <1>2, <2>1, <2>2, <2>3, <2>4, <2>5 DEF WorkerStep
<1>3. ASSUME TypeOK, HeldWhileBusy, NEW w \in Workers, HandlerEnds(w)
      PROVE  HeldWhileBusy'
  BY <1>3 DEF HandlerEnds, HandlerReturns, HandlerRaises
<1>4. ASSUME TypeOK, HeldWhileBusy, NEW w \in Workers, Shutdown(w)
      PROVE  HeldWhileBusy'
  <2>1. CASE LeaveLoop(w)
    BY <1>4, <2>1 DEF LeaveLoop
  <2>2. CASE Release(w)
    BY <1>4, <2>2 DEF Release, LeaveJob
  <2>3. CASE Unwind(w)
    BY <1>4, <2>3 DEF Unwind, LeaveJob
  <2> QED BY <1>4, <2>1, <2>2, <2>3 DEF Shutdown
<1>5. ASSUME TypeOK, HeldWhileBusy, NEW w \in Workers,
             BusyStatement(w) \/ WorkerDies(w)
      PROVE  HeldWhileBusy'
  BY <1>5 DEF BusyStatement, WorkerDies, LeaveJob
<1>6. ASSUME TypeOK, HeldWhileBusy, Sweep PROVE HeldWhileBusy'
  <2>1. PICK p \in {"swept", "sweeping"} :
           /\ pc' = [pc EXCEPT ![Sweeper] = p] /\ UNCHANGED held
           /\ pc[Sweeper] \in {"idle", "sweeping"}
    BY <1>6 DEF Sweep, SweepRead, SweepWrite
  <2> QED BY <1>6, <2>1, WorkersAssumption
<1>7. ASSUME HeldWhileBusy, StopBegin \/ StopStep PROVE HeldWhileBusy'
  BY <1>7 DEF StopBegin, StopStep, GraceTimeout, StopEnd
<1>8. ASSUME Crash \/ Start PROVE HeldWhileBusy'
  BY <1>8 DEF Crash, Start, FreshWorkers
<1>9. ASSUME HeldWhileBusy, UNCHANGED vars PROVE HeldWhileBusy'
  BY <1>9 DEF vars
<1> HIDE DEF TypeOK, HeldWhileBusy
<1> QED BY <1>1, <1>2, <1>3, <1>4, <1>5, <1>6, <1>7, <1>8, <1>9 DEF Next

\* The type invariant of LocalTaskQueue, with the coupling it needs.
THEOREM TypeCorrect == Spec => [](TypeOK /\ HeldWhileBusy)
<1>1. Init => TypeOK /\ HeldWhileBusy
  BY DEF Init, TypeOK, HeldWhileBusy, Statuses, PCs, Busy, Holding, NothingRead
<1> QED BY <1>1, TypeStep, HeldStep, PTL DEF Spec
-----------------------------------------------------------------------------
(* Whatever the timing: the inductive invariant behind SuccessWasEarned and*)
(* RegisteredIsHeld.                                                       *)

\* What the worker of the last claim is about to report has happened.
ReturnedIsLogged ==
    \A w \in Workers :
        pc[w] = "returned" /\ fence[w] = token[held[w]] => held[w] \in earned

\* A worker's token is that of its own claim or of an earlier one.
FenceBelow ==
    \A w \in Workers :
        pc[w] \in {"running", "returned", "raised"} => fence[w] <= token[held[w]]

\* Every entry of _active_jobs has a worker between its ClaimRead and its
\* finally clause.
RegisteredIsRun ==
    \A j \in Jobs : active[j] # 0 =>
        \E w \in Workers : /\ pc[w] \in {"running", "returned", "raised"}
                           /\ held[w] = j

AnyTimingInv ==
    ReturnedIsLogged /\ FenceBelow /\ RegisteredIsRun /\ SuccessWasEarned

\* The invariant survives every action: what is returned, registered or
\* SUCCEEDED changes in ClaimRead, HandlerReturns, Complete and LeaveJob.
LEMMA AnyTimingStep ==
    TypeOK /\ HeldWhileBusy /\ AnyTimingInv /\ [Next]_vars => AnyTimingInv'
<1> DEFINE Pre == TypeOK /\ HeldWhileBusy /\ AnyTimingInv
<1> USE DEF AnyTimingInv, ReturnedIsLogged, FenceBelow, RegisteredIsRun,
            SuccessWasEarned
<1>1. ASSUME Pre, NEW j \in Jobs, Enqueue(j) \/ Cancel(j) \/ Clock(j)
      PROVE  AnyTimingInv'
  BY <1>1 DEF Enqueue, Cancel, Clock, ExpireLease, BackoffElapses, TypeOK,
              procs, history
<1>2. ASSUME Pre, NEW w \in Workers, WorkerStep(w) PROVE AnyTimingInv'
  <2>1. ASSUME ClaimSelect(w) PROVE AnyTimingInv'
    BY <1>2, <2>1 DEF ClaimSelect, MayClaim, TypeOK, rows, history
  <2>2. ASSUME ClaimNothing(w) PROVE AnyTimingInv'
    BY <1>2, <2>2 DEF ClaimNothing, TypeOK, rows, history
  <2>3. ASSUME ClaimCommit(w) PROVE AnyTimingInv'
    BY <1>2, <2>3 DEF ClaimCommit, TypeOK, HeldWhileBusy, Busy, Holding, history
  <2>4. ASSUME ClaimLost(w) PROVE AnyTimingInv'
    BY <1>2, <2>4 DEF ClaimLost, TypeOK, rows, history
  <2>5. ASSUME ClaimRead(w) PROVE AnyTimingInv'
    BY <1>2, <2>5 DEF ClaimRead, TypeOK, HeldWhileBusy, Busy, Holding, rows, history
  <2>6. ASSUME Complete(w) PROVE AnyTimingInv'
    BY <1>2, <2>6 DEF Complete, Accepted, LeaveJob, TypeOK, HeldWhileBusy, Busy,
                      Holding, history
  <2>7. ASSUME Retry(w) PROVE AnyTimingInv'
    BY <1>2, <2>7 DEF Retry, LeaveJob, TypeOK, HeldWhileBusy, Busy, Holding, history
  <2> QED BY <1>2, <2>1, <2>2, <2>3, <2>4, <2>5, <2>6, <2>7 DEF WorkerStep
<1>3. ASSUME Pre, NEW w \in Workers, HandlerEnds(w) PROVE AnyTimingInv'
  BY <1>3 DEF HandlerEnds, HandlerReturns, HandlerRaises, TypeOK, rows, history
<1>4. ASSUME Pre, NEW w \in Workers, Shutdown(w) PROVE AnyTimingInv'
  <2>1. ASSUME LeaveLoop(w) PROVE AnyTimingInv'
    BY <1>4, <2>1 DEF LeaveLoop, TypeOK, rows, history
  <2>2. ASSUME Release(w) PROVE AnyTimingInv'
    BY <1>4, <2>2 DEF Release, LeaveJob, TypeOK, HeldWhileBusy, Busy, Holding
  <2>3. ASSUME Unwind(w) PROVE AnyTimingInv'
    BY <1>4, <2>3 DEF Unwind, LeaveJob, TypeOK, HeldWhileBusy, Busy, Holding,
                      rows, history
  <2> QED BY <1>4, <2>1, <2>2, <2>3 DEF Shutdown
<1>5. ASSUME Pre, NEW w \in Workers, BusyStatement(w) PROVE AnyTimingInv'
  BY <1>5 DEF BusyStatement, TypeOK, rows, history
<1>6. ASSUME Pre, NEW w \in Workers, WorkerDies(w) PROVE AnyTimingInv'
  BY <1>6 DEF WorkerDies, LeaveJob, TypeOK, HeldWhileBusy, Busy, Holding, rows, history
<1>7. ASSUME Pre, Sweep PROVE AnyTimingInv'
  <2>1. ASSUME SweepRead PROVE AnyTimingInv'
    BY <1>7, <2>1, WorkersAssumption DEF SweepRead, TypeOK, rows, history
  <2>2. ASSUME SweepWrite PROVE AnyTimingInv'
    BY <1>7, <2>2, WorkersAssumption DEF SweepWrite, TypeOK, history
  <2> QED BY <1>7, <2>1, <2>2 DEF Sweep
<1>8. ASSUME Pre, StopBegin \/ GraceTimeout PROVE AnyTimingInv'
  BY <1>8 DEF StopBegin, GraceTimeout, rows, procs, history
<1>9. ASSUME Pre, StopEnd PROVE AnyTimingInv'
  BY <1>9 DEF StopEnd, TypeOK
<1>10. ASSUME Pre, Crash \/ Start PROVE AnyTimingInv'
  BY <1>10 DEF Crash, Start, FreshWorkers, TypeOK, rows, history
<1>11. ASSUME Pre, UNCHANGED vars PROVE AnyTimingInv'
  BY <1>11 DEF vars, rows, procs, history
<1> HIDE DEF AnyTimingInv
<1> QED
  BY <1>1, <1>2, <1>3, <1>4, <1>5, <1>6, <1>7, <1>8, <1>9, <1>10, <1>11
     DEF Next, StopStep


\* A SUCCEEDED row is always the result of the last claim, and _active_jobs
\* never outlives the workers: both hold for any number of lease overruns,
\* crashes, stops and database errors.
THEOREM ResultsAreEarned == Spec => [](SuccessWasEarned /\ RegisteredIsHeld)
<1>1. Init => AnyTimingInv
  BY DEF Init, AnyTimingInv, ReturnedIsLogged, FenceBelow, RegisteredIsRun,
         SuccessWasEarned
<1>2. AnyTimingInv => SuccessWasEarned /\ RegisteredIsHeld
  BY DEF AnyTimingInv, RegisteredIsRun, RegisteredIsHeld, Holds, Holding
<1> QED BY <1>1, <1>2, AnyTimingStep, TypeCorrect, PTL DEF Spec

\* Only the delayed UPDATE of recover_expired() can touch a closed job.
LEMMA ClosedStep ==
    ASSUME TypeOK, HeldWhileBusy, [Next]_vars, NEW j \in Jobs,
           status[j] \in Terminal, status'[j] # status[j]
    PROVE  SweepWrite /\ pc[Sweeper] = "sweeping" /\ seen[j] # 0
<1> USE DEF TypeOK, Terminal
<1>1. CASE Sweep
  <2>1. SweepWrite
    BY <1>1 DEF Sweep, SweepRead, rows
  <2>2. pc[Sweeper] = "sweeping" /\ (seen[j] >= MaxAttempts \/ seen[j] # 0)
    BY <2>1 DEF SweepWrite
  <2> QED BY <2>1, <2>2, AttemptsAssumption
<1>2. ASSUME NEW i \in Jobs, Enqueue(i) \/ Cancel(i) \/ Clock(i) PROVE FALSE
  BY <1>2 DEF Enqueue, Cancel, Clock, ExpireLease, BackoffElapses
<1>3. ASSUME NEW w \in Workers, WorkerStep(w) PROVE FALSE
  BY <1>3 DEF WorkerStep, ClaimSelect, ClaimNothing, ClaimCommit, ClaimLost,
              ClaimRead, Complete, Retry, Accepted, rows
<1>4. ASSUME NEW w \in Workers,
             HandlerEnds(w) \/ Shutdown(w) \/ BusyStatement(w) \/ WorkerDies(w)
      PROVE  FALSE
  BY <1>4 DEF HandlerEnds, HandlerReturns, HandlerRaises, Shutdown, LeaveLoop,
              Release, Accepted, Unwind, BusyStatement, WorkerDies, rows
<1>5. CASE StopBegin \/ GraceTimeout \/ Crash \/ Start \/ UNCHANGED vars
  BY <1>5 DEF StopBegin, GraceTimeout, Crash, Start, vars, rows
<1>6. CASE StopEnd
  BY <1>6 DEF StopEnd, Leftover
<1> QED BY <1>1, <1>2, <1>3, <1>4, <1>5, <1>6 DEF Next, StopStep

THEOREM ClosedJobs == Spec => ClosedChangesOnlyBySweep
<1>1. TypeOK /\ HeldWhileBusy /\ [Next]_vars =>
        [ \A j \in Jobs :
            (status[j] \in Terminal /\ status'[j] # status[j])
                => (pc[Sweeper] = "sweeping" /\ seen[j] # 0) ]_vars
  BY ClosedStep
<1> QED BY <1>1, TypeCorrect, PTL DEF Spec, ClosedChangesOnlyBySweep
-----------------------------------------------------------------------------
(* Jobs that are not torn: the inductive invariant behind OneOwner and     *)
(* AttemptsBounded.                                                        *)

\* Until claim() has read its row back, the row is as it left it.
CommittedIsLeased ==
    \A w \in Workers : \A j \in Jobs \ torn :
        (pc[w] = "committed" /\ held[w] = j) => status[j] = "RUNNING" /\ lease[j] = "live"

\* A job that can be claimed again has an attempt left.
AttemptsLeft ==
    \A j \in Jobs \ torn :
        /\ attempts[j] <= MaxAttempts + releases[j]
        /\ status[j] \in {"ABSENT", "PENDING"} => attempts[j] < MaxAttempts + releases[j]

UntornInv == CommittedIsLeased /\ OneOwner /\ AttemptsLeft

Sound == TypeOK /\ HeldWhileBusy /\ AnyTimingInv /\ UntornInv

\* A step that leaves the rows alone, and whose workers keep or lose what they
\* held, keeps the invariant.
LEMMA QuietStep ==
    ASSUME Sound, UNCHANGED <<status, attempts, token, lease, releases, torn>>,
           \A w \in Workers, j \in Jobs :
              /\ Owns(w, j)' => Owns(w, j)
              /\ (pc[w] = "committed" /\ held[w] = j)'
                    => (pc[w] = "committed" /\ held[w] = j)
    PROVE  UntornInv'
<1>1. CommittedIsLeased'
  BY DEF Sound, UntornInv, CommittedIsLeased
<1>2. OneOwner'
  BY DEF Sound, UntornInv, OneOwner
<1>3. AttemptsLeft'
  BY DEF Sound, UntornInv, AttemptsLeft
<1> QED BY <1>1, <1>2, <1>3 DEF UntornInv

\* The three ways to settle a claim.  Only the owner's is accepted, and
\* nobody owns the job afterwards.
LEMMA SettleStep ==
    ASSUME Sound, NEW w \in Workers, Complete(w) \/ Retry(w) \/ Release(w)
    PROVE  UntornInv'
<1> DEFINE j == held[w]
<1>1. TypeOK /\ CommittedIsLeased /\ OneOwner /\ AttemptsLeft /\ j \in Jobs
  BY DEF Sound, UntornInv, HeldWhileBusy, Busy, Holding, TypeOK, Complete, Retry, Release
<1>2. /\ pc[w] \in {"running", "returned", "raised"}
      /\ pc' = [pc EXCEPT ![w] = "idle"] \/ pc' = [pc EXCEPT ![w] = "exited"]
      /\ held' = [held EXCEPT ![w] = 0] /\ fence' = [fence EXCEPT ![w] = 0]
      /\ UNCHANGED <<attempts, token, torn>>
  BY DEF Complete, Retry, Release, LeaveJob, history
<1>3. \A i \in Jobs : status[i] = status'[i] \/ (i = j /\ Accepted(w))
  BY <1>1 DEF Complete, Retry, Release, TypeOK
<1>4. \A i \in Jobs : lease[i] = lease'[i] \/ (i = j /\ Accepted(w))
  BY <1>1 DEF Complete, Retry, Release, TypeOK
<1>5. Accepted(w) => Owns(w, j) /\ status'[j] # "RUNNING"
  BY <1>1, <1>2 DEF Accepted, Owns, Holds, Holding, Complete, Retry, Release, TypeOK
<1>6. \A v \in Workers, i \in Jobs : Owns(v, i)' => Owns(v, i)
  BY <1>1, <1>2, <1>3, <1>5 DEF Owns, Holds, Holding, TypeOK
<1>7. OneOwner'
  BY <1>1, <1>2, <1>6 DEF OneOwner
<1>8. CommittedIsLeased'
  <2> SUFFICES ASSUME NEW v \in Workers, NEW i \in Jobs \ torn',
                      pc'[v] = "committed", held'[v] = i
               PROVE  status'[i] = "RUNNING" /\ lease'[i] = "live"
    BY DEF CommittedIsLeased
  <2>1. v # w /\ pc[v] = "committed" /\ held[v] = i /\ i \notin torn
    BY <1>1, <1>2 DEF TypeOK
  <2>2. status[i] = "RUNNING" /\ lease[i] = "live"
    BY <1>1, <2>1 DEF CommittedIsLeased
  <2>3. ~(i = j /\ Accepted(w))
    BY <1>1, <1>5, <2>1, <2>2 DEF OneOwner, Owns, Holds, Holding
  <2> QED BY <1>3, <1>4, <2>2, <2>3
<1>9. AttemptsLeft'
  <2>1. CASE Complete(w)
    BY <1>1, <2>1 DEF Complete, history, AttemptsLeft, TypeOK
  <2>2. CASE Retry(w)
    BY <1>1, <2>2, AttemptsAssumption DEF Retry, Accepted, history, AttemptsLeft, TypeOK
  <2>3. CASE Release(w)
    BY <1>1, <2>3, AttemptsAssumption DEF Release, AttemptsLeft, TypeOK
  <2> QED BY <2>1, <2>2, <2>3
<1> QED BY <1>7, <1>8, <1>9 DEF UntornInv

\* The conditional UPDATE of claim(): the new token is nobody else's.
LEMMA CommitStep ==
    ASSUME Sound, NEW w \in Workers, ClaimCommit(w)
    PROVE  UntornInv'
<1> DEFINE j == held[w]
<1>1. TypeOK /\ CommittedIsLeased /\ OneOwner /\ AttemptsLeft /\ FenceBelow /\ j \in Jobs
  BY DEF Sound, UntornInv, AnyTimingInv, HeldWhileBusy, Busy, TypeOK, ClaimCommit
<1>2. /\ pc[w] = "selected" /\ status[j] = "PENDING"
      /\ pc' = [pc EXCEPT ![w] = "committed"] /\ UNCHANGED <<held, fence, torn, releases>>
      /\ status' = [status EXCEPT ![j] = "RUNNING"]
      /\ token' = [token EXCEPT ![j] = @ + 1] /\ attempts' = [attempts EXCEPT ![j] = @ + 1]
      /\ lease' = [lease EXCEPT ![j] = "live"]
  BY DEF ClaimCommit
<1>3. ASSUME NEW v \in Workers \ {w}, NEW i \in Jobs \ {j} PROVE Owns(v, i)' <=> Owns(v, i)
  BY <1>1, <1>2, <1>3 DEF Owns, Holds, TypeOK
<1>4. ASSUME NEW v \in Workers \ {w}, j \notin torn PROVE ~Owns(v, j)'
  <2>1. CASE pc[v] = "committed"
    BY <1>1, <1>2, <1>4, <2>1 DEF CommittedIsLeased, Owns, Holds, TypeOK
  <2>2. CASE pc[v] # "committed"
    <3>1. Holds(v, j) => fence[v] <= token[j]
      BY <1>1, <2>2 DEF FenceBelow, Holds, Holding
    <3>2. token'[j] = token[j] + 1 /\ token[j] \in Nat /\ fence[v] \in Nat
      BY <1>1, <1>2 DEF TypeOK
    <3> QED BY <1>1, <1>2, <2>2, <3>1, <3>2 DEF Owns, Holds, TypeOK
  <2> QED BY <2>1, <2>2
<1>5. OneOwner'
  BY <1>1, <1>2, <1>3, <1>4 DEF OneOwner, Owns, Holds, Holding, TypeOK
<1>6. CommittedIsLeased'
  BY <1>1, <1>2 DEF CommittedIsLeased, TypeOK
<1>7. AttemptsLeft'
  BY <1>1, <1>2, AttemptsAssumption DEF AttemptsLeft, TypeOK
<1> QED BY <1>2, <1>5, <1>6, <1>7 DEF UntornInv

\* A sweep that finds its rows as it read them takes overdue jobs from their
\* workers; on any other row it leaves its mark in torn.
LEMMA SweepStep ==
    ASSUME Sound, SweepWrite
    PROVE  UntornInv'
<1>1. TypeOK /\ CommittedIsLeased /\ OneOwner /\ AttemptsLeft
  BY DEF Sound, UntornInv
<1>2. torn' = torn \cup Overtaken /\ UNCHANGED <<attempts, token, held, fence, releases>>
  BY DEF SweepWrite
<1>3. pc' = [pc EXCEPT ![Sweeper] = "swept"] /\ pc[Sweeper] = "sweeping"
  BY DEF SweepWrite
<1>4. ASSUME NEW i \in Jobs \ torn'
      PROVE  \/ status'[i] = status[i] /\ lease'[i] = lease[i]
             \/ /\ status'[i] = "FAILED" \/ (status'[i] = "PENDING" /\ attempts[i] < MaxAttempts)
                /\ lease[i] = "expired"
  <2>1. i \in Jobs /\ seen[i] \in Nat /\ attempts[i] \in Nat
    BY <1>1, <1>4 DEF TypeOK
  <2>2. seen[i] # 0 => lease[i] = "expired" /\ seen[i] = attempts[i]
    BY <1>2, <1>4 DEF Overtaken, Expired
  <2>3. CASE seen[i] = 0
    BY <2>1, <2>3, AttemptsAssumption DEF SweepWrite
  <2>4. CASE seen[i] # 0
    BY <2>1, <2>2, <2>4, AttemptsAssumption DEF SweepWrite
  <2> QED BY <2>3, <2>4
<1>5. \A v \in Workers, i \in Jobs \ torn' : Owns(v, i)' => Owns(v, i)
  BY <1>1, <1>2, <1>3, <1>4, WorkersAssumption DEF Owns, Holds, Holding, TypeOK
<1>6. OneOwner'
  BY <1>1, <1>2, <1>5 DEF OneOwner
<1>7. CommittedIsLeased'
  BY <1>1, <1>2, <1>3, <1>4, WorkersAssumption DEF CommittedIsLeased, TypeOK
<1>8. AttemptsLeft'
  <2> SUFFICES ASSUME NEW i \in Jobs \ torn'
               PROVE  /\ attempts'[i] <= MaxAttempts + releases'[i]
                      /\ status'[i] \in {"ABSENT", "PENDING"} =>
                            attempts'[i] < MaxAttempts + releases'[i]
    BY DEF AttemptsLeft
  <2>1. attempts[i] \in Nat /\ releases[i] \in Nat /\ i \notin torn
    BY <1>1, <1>2 DEF TypeOK
  <2> QED BY <1>1, <1>2, <1>4, <2>1, AttemptsAssumption DEF AttemptsLeft
<1> QED BY <1>6, <1>7, <1>8 DEF UntornInv

\* The read after the claim returns the claim of its own worker.
LEMMA ReadStep ==
    ASSUME Sound, NEW w \in Workers, ClaimRead(w)
    PROVE  /\ UntornInv'
           /\ \A v \in Workers, i \in Jobs \ torn : Owns(v, i)' <=> Owns(v, i)
<1>1. TypeOK /\ CommittedIsLeased /\ OneOwner /\ AttemptsLeft /\ held[w] \in Jobs
  BY DEF Sound, UntornInv, HeldWhileBusy, Busy, Holding, TypeOK, ClaimRead
<1>2. pc[w] = "committed" /\ UNCHANGED <<status, attempts, token, lease, releases, torn>>
  BY DEF ClaimRead, rows, history
<1>3. ASSUME NEW v \in Workers, NEW i \in Jobs \ torn
      PROVE  Owns(v, i)' <=> Owns(v, i)
  <2>1. CASE v # w
    BY <1>1, <1>2, <2>1 DEF ClaimRead, Owns, Holds, Holding, TypeOK
  <2>2. CASE v = w /\ held[w] # i
    BY <1>1, <1>2, <2>2, JobsAssumption DEF ClaimRead, Owns, Holds, Holding, TypeOK, Jobs
  <2>3. CASE v = w /\ held[w] = i
    <3>1. status[i] = "RUNNING"
      BY <1>1, <1>2, <1>3, <2>3 DEF CommittedIsLeased
    <3>2. pc'[w] = "running" /\ fence'[w] = token[i] /\ held'[w] = i
      BY <1>1, <1>2, <2>3, <3>1 DEF ClaimRead, TypeOK
    <3> QED BY <1>2, <2>3, <3>1, <3>2 DEF Owns, Holds, Holding
  <2> QED BY <2>1, <2>2, <2>3
<1>4. CommittedIsLeased'
  BY <1>1, <1>2 DEF CommittedIsLeased, ClaimRead, TypeOK
<1>5. OneOwner'
  BY <1>1, <1>2, <1>3 DEF OneOwner
<1>6. AttemptsLeft'
  BY <1>1, <1>2 DEF AttemptsLeft
<1> QED BY <1>3, <1>4, <1>5, <1>6 DEF UntornInv

\* A lease that runs out before the read has taken place tears the job.
LEMMA ExpireStep ==
    ASSUME Sound, NEW j \in Jobs, ExpireLease(j)
    PROVE  UntornInv'
<1>1. TypeOK /\ CommittedIsLeased /\ OneOwner /\ AttemptsLeft
  BY DEF Sound, UntornInv
<1>2. /\ lease' = [lease EXCEPT ![j] = "expired"] /\ torn \subseteq torn'
      /\ UNCHANGED <<status, attempts, token, pc, held, fence, releases>>
      /\ Outrun(j) => j \in torn'
  BY DEF ExpireLease, procs
<1>3. CommittedIsLeased'
  BY <1>1, <1>2 DEF CommittedIsLeased, Outrun, TypeOK
<1>4. OneOwner'
  BY <1>1, <1>2 DEF OneOwner, Owns, Holds
<1>5. AttemptsLeft'
  BY <1>1, <1>2 DEF AttemptsLeft
<1> QED BY <1>3, <1>4, <1>5 DEF UntornInv

\* No worker is left to hold anything: nothing in _active_jobs to release.
LEMMA NoLeftover == Sound /\ StopEnd => Leftover = {} /\ UNCHANGED <<status, lease, releases>>
<1> SUFFICES ASSUME Sound, StopEnd PROVE Leftover = {} /\ UNCHANGED <<status, lease, releases>>
  OBVIOUS
<1>1. \A j \in Jobs : active[j] = 0
  BY DEF StopEnd, Sound, AnyTimingInv, RegisteredIsRun
<1>2. Leftover = {}
  BY <1>1 DEF Leftover
<1> QED BY <1>2 DEF StopEnd, Sound, TypeOK

\* What a step that is none of those above may do to the owners: nothing, or
\* take workers away.
Bystander ==
    \/ \E j \in Jobs : BackoffElapses(j)
    \/ \E w \in Workers : ClaimSelect(w) \/ ClaimNothing(w) \/ ClaimLost(w) \/ HandlerEnds(w)
                          \/ BusyStatement(w)
    \/ SweepRead \/ StopBegin \/ StopStep \/ UNCHANGED vars

LEMMA BystanderStep ==
    ASSUME Sound, Bystander
    PROVE  /\ UNCHANGED <<status, attempts, token, lease, releases, torn>>
           /\ \A w \in Workers, j \in Jobs :
                 /\ Owns(w, j)' <=> Owns(w, j)
                 /\ (pc[w] = "committed" /\ held[w] = j)'
                       <=> (pc[w] = "committed" /\ held[w] = j)
<1> DEFINE Q == /\ UNCHANGED <<status, attempts, token, lease, releases, torn>>
                /\ \A w \in Workers, j \in Jobs :
                     /\ Owns(w, j)' <=> Owns(w, j)
                     /\ (pc[w] = "committed" /\ held[w] = j)'
                           <=> (pc[w] = "committed" /\ held[w] = j)
<1>1. TypeOK /\ HeldWhileBusy
  BY DEF Sound
<1>2. ASSUME NEW i \in Jobs, BackoffElapses(i) PROVE Q
  BY <1>2 DEF BackoffElapses, procs, history, Owns, Holds
<1>3. ASSUME NEW v \in Workers,
             ClaimSelect(v) \/ ClaimNothing(v) \/ ClaimLost(v) \/ BusyStatement(v)
      PROVE  Q
  <2>1. UNCHANGED <<status, attempts, token, lease, releases, torn, fence>>
    BY <1>3 DEF ClaimSelect, ClaimNothing, ClaimLost, BusyStatement, rows, history
  <2>2. ~(pc[v] \in Holding) /\ ~(pc'[v] \in Holding)
    BY <1>1, <1>3, WorkersAssumption
       DEF ClaimSelect, MayClaim, ClaimNothing, ClaimLost, BusyStatement, Holding, TypeOK
  <2>3. \A w \in Workers \ {v} : pc'[w] = pc[w] /\ held'[w] = held[w]
    BY <1>1, <1>3 DEF ClaimSelect, ClaimNothing, ClaimLost, BusyStatement, TypeOK
  <2> QED BY <2>1, <2>2, <2>3 DEF Owns, Holds, Holding
<1>4. ASSUME NEW v \in Workers, HandlerEnds(v) PROVE Q
  <2>1. /\ UNCHANGED <<status, attempts, token, lease, releases, torn, held, fence>>
        /\ pc[v] = "running"
        /\ \E p \in {"returned", "raised"} : pc' = [pc EXCEPT ![v] = p]
    BY <1>4 DEF HandlerEnds, HandlerReturns, HandlerRaises, rows, history
  <2> QED BY <1>1, <2>1 DEF Owns, Holds, Holding, TypeOK
<1>5. CASE SweepRead
  <2>1. /\ UNCHANGED <<status, attempts, token, lease, releases, torn, held, fence>>
        /\ pc[Sweeper] = "idle"
        /\ \E p \in {"swept", "sweeping"} : pc' = [pc EXCEPT ![Sweeper] = p]
    BY <1>5 DEF SweepRead, rows, history
  <2> QED BY <1>1, <2>1, WorkersAssumption DEF Owns, Holds, Holding, TypeOK
<1>6. CASE StopBegin \/ GraceTimeout \/ UNCHANGED vars
  BY <1>6 DEF StopBegin, GraceTimeout, vars, rows, procs, history, Owns, Holds
<1>7. CASE StopEnd
  BY <1>7, NoLeftover DEF StopEnd, Owns, Holds
<1> QED BY <1>2, <1>3, <1>4, <1>5, <1>6, <1>7 DEF Bystander, StopStep

\* Workers that leave: a dead worker task, a cancelled one, a dead process.
Departure ==
    \/ \E w \in Workers : LeaveLoop(w) \/ Unwind(w) \/ WorkerDies(w)
    \/ Crash \/ Start

LEMMA DepartureStep ==
    ASSUME Sound, Departure
    PROVE  /\ UNCHANGED <<status, attempts, token, lease, releases, torn>>
           /\ \E gone \in SUBSET Workers :
                 /\ gone # {}
                 /\ \A w \in Workers, j \in Jobs :
                       /\ Owns(w, j)' <=> Owns(w, j) /\ w \notin gone
                       /\ (pc[w] = "committed" /\ held[w] = j)'
                             => (pc[w] = "committed" /\ held[w] = j)
<1>1. TypeOK
  BY DEF Sound
<1>2. ASSUME NEW v \in Workers, LeaveLoop(v) \/ Unwind(v) \/ WorkerDies(v)
      PROVE  /\ UNCHANGED <<status, attempts, token, lease, releases, torn>>
             /\ \A w \in Workers, j \in Jobs :
                   /\ Owns(w, j)' <=> Owns(w, j) /\ w \notin {v}
                   /\ (pc[w] = "committed" /\ held[w] = j)'
                         => (pc[w] = "committed" /\ held[w] = j)
  <2>1. UNCHANGED <<status, attempts, token, lease, releases, torn>>
    BY <1>2 DEF LeaveLoop, Unwind, WorkerDies, rows, history
  <2>2. /\ pc' = [pc EXCEPT ![v] = "exited"]
        /\ held' = [held EXCEPT ![v] = 0] \/ UNCHANGED held
        /\ fence' = [fence EXCEPT ![v] = 0] \/ UNCHANGED fence
    BY <1>2 DEF LeaveLoop, Unwind, WorkerDies, LeaveJob
  <2> QED BY <1>1, <2>1, <2>2 DEF Owns, Holds, Holding, TypeOK
<1>3. CASE Crash \/ Start
  <2>1. UNCHANGED <<status, attempts, token, lease, releases, torn>>
    BY <1>3 DEF Crash, Start, rows, history
  <2>2. \A w \in Workers : pc'[w] \in {"exited", "idle"}
    BY <1>3 DEF Crash, Start, FreshWorkers
  <2>3. \A w \in Workers, j \in Jobs : ~Owns(w, j)' /\ pc'[w] # "committed"
    BY <2>2 DEF Owns, Holds, Holding
  <2>4. Workers \in SUBSET Workers /\ Workers # {}
    BY WorkersAssumption
  <2> QED BY <2>1, <2>3, <2>4
<1>4. ASSUME NEW v \in Workers PROVE {v} \in SUBSET Workers /\ {v} # {}
  OBVIOUS
<1> QED BY <1>2, <1>3, <1>4 DEF Departure

LEMMA ClientStep ==
    ASSUME Sound, NEW j \in Jobs, Enqueue(j) \/ Cancel(j)
    PROVE  UntornInv'
<1>1. TypeOK /\ CommittedIsLeased /\ OneOwner /\ AttemptsLeft
  BY DEF Sound, UntornInv
<1>2. /\ UNCHANGED <<attempts, token, lease, procs, history>>
      /\ \E s \in {"PENDING", "CANCELLED"} : status' = [status EXCEPT ![j] = s]
      /\ status[j] \in {"ABSENT", "PENDING"}
  BY DEF Enqueue, Cancel
<1>3. CommittedIsLeased'
  BY <1>1, <1>2 DEF CommittedIsLeased, procs, history, TypeOK
<1>4. OneOwner'
  BY <1>1, <1>2 DEF OneOwner, Owns, Holds, procs, history, TypeOK
<1>5. AttemptsLeft'
  BY <1>1, <1>2 DEF AttemptsLeft, history, TypeOK
<1> QED BY <1>3, <1>4, <1>5 DEF UntornInv

\* Every step of the queue, sorted by what it does to the owners.
LEMMA StepKinds ==
    ASSUME [Next]_vars
    PROVE  \/ \E j \in Jobs : Enqueue(j) \/ Cancel(j) \/ ExpireLease(j)
           \/ \E w \in Workers : ClaimCommit(w) \/ ClaimRead(w)
           \/ \E w \in Workers : Complete(w) \/ Retry(w) \/ Release(w)
           \/ SweepWrite \/ Bystander \/ Departure
  BY DEF Next, Clock, WorkerStep, Shutdown, Sweep, Bystander, Departure

LEMMA UntornStep ==
    ASSUME Sound, [Next]_vars
    PROVE  UntornInv'
<1>1. ASSUME Bystander \/ Departure PROVE UntornInv'
  BY <1>1, BystanderStep, DepartureStep, QuietStep
<1> QED
  BY <1>1, StepKinds, ClientStep, ExpireStep, CommitStep, ReadStep, SettleStep, SweepStep

LEMMA UntornInit == Init => UntornInv
  BY AttemptsAssumption
     DEF Init, UntornInv, CommittedIsLeased, OneOwner, AttemptsLeft, Owns, Holds, Holding

LEMMA SoundAlways == Spec => []Sound
<1>1. Init => AnyTimingInv
  BY DEF Init, AnyTimingInv, ReturnedIsLogged, FenceBelow, RegisteredIsRun,
         SuccessWasEarned
<1>2. TypeOK /\ HeldWhileBusy /\ AnyTimingInv /\ UntornInv /\ [Next]_vars => UntornInv'
  BY UntornStep DEF Sound
<1> QED BY <1>1, <1>2, AnyTimingStep, UntornInit, TypeCorrect, PTL DEF Spec, Sound

\* For every job that is not torn, and however late its workers are: at most
\* one worker can still close it, and it is claimed no more often than the
\* limit and the graceful releases allow.
THEOREM ExclusiveClaims == Spec => [](OneOwner /\ AttemptsBounded)
<1>1. Sound => OneOwner /\ AttemptsBounded
  BY DEF Sound, UntornInv, AttemptsLeft, AttemptsBounded
<1> QED BY <1>1, SoundAlways, PTL

\* A job that was closed is closed for good: only a sweep that was overtaken,
\* which is written down in torn, changes it.
THEOREM ClosedForGood == Spec => ClosedIsFinal
<1>1. ASSUME Sound, [Next]_vars, NEW j \in Jobs, status[j] \in Terminal, j \notin torn'
      PROVE  status'[j] = status[j]
  <2>1. SUFFICES ASSUME status'[j] # status[j] PROVE FALSE
    OBVIOUS
  <2>2. pc[Sweeper] = "sweeping" /\ seen[j] # 0 /\ SweepWrite
    BY <1>1, <2>1, ClosedStep DEF Sound
  <2>3. j \in Overtaken
    BY <1>1, <2>2 DEF Overtaken, Expired, Terminal
  <2> QED BY <1>1, <2>2, <2>3 DEF SweepWrite
<1>2. Sound /\ [Next]_vars =>
        [ \A j \in Jobs : (status[j] \in Terminal /\ j \notin torn')
                            => status'[j] = status[j] ]_vars
  BY <1>1
<1> QED BY <1>2, SoundAlways, PTL DEF Spec, ClosedIsFinal
-----------------------------------------------------------------------------
(***************************************************************************)
(* LocalTaskQueue implements ExclusiveQueue, for any number of jobs, any   *)
(* set of workers and any limits.  A claim is a Take; complete(), retry()  *)
(* and release() are a Settle when the token is still the worker's, and    *)
(* nothing otherwise; a sweep is a Reclaim, of jobs whose worker may well  *)
(* be alive; all other steps change neither the state of a job as the      *)
(* abstract queue sees it, nor who has it, or let workers vanish.          *)
(***************************************************************************)

\* OneOwner, as the fact about OwnerOf that the steps use.
LEMMA OwnerIs ==
    ASSUME OneOwner, NEW w \in Workers, NEW j \in Jobs, j \notin torn, Owns(w, j)
    PROVE  OwnerOf(j) = w
  BY DEF OwnerOf, OneOwner

LEMMA OwnerIsNext ==
    ASSUME OneOwner', NEW w \in Workers, NEW j \in Jobs, j \notin torn', Owns(w, j)'
    PROVE  OwnerOf(j)' = w
  BY DEF OwnerOf, OneOwner

\* When the workers of a set let go of a job, and nobody else does, they vanish
\* from its owners.
LEMMA Gone ==
    ASSUME OneOwner, OneOwner', NEW gone \in SUBSET Workers, NEW j \in Jobs,
           torn' = torn,
           \A w \in Workers : Owns(w, j)' <=> Owns(w, j) /\ w \notin gone
    PROVE  OwnerOf(j)' = IF OwnerOf(j) \in gone THEN Nobody ELSE OwnerOf(j)
<1>0. Nobody \notin gone
  BY WorkersAssumption DEF Nobody
<1>1. CASE j \in torn
  BY <1>0, <1>1 DEF OwnerOf
<1>2. CASE j \notin torn /\ \E w \in Workers : Owns(w, j)
  <2>1. PICK w \in Workers : Owns(w, j)
    BY <1>2
  <2>2. OwnerOf(j) = w
    BY <1>2, <2>1, OwnerIs
  <2>3. CASE w \in gone
    <3>1. \A v \in Workers : ~Owns(v, j)'
      BY <1>2, <2>1, <2>3 DEF OneOwner
    <3> QED BY <2>2, <2>3, <3>1 DEF OwnerOf
  <2>4. CASE w \notin gone
    BY <1>2, <2>1, <2>2, <2>4, OwnerIsNext
  <2> QED BY <2>3, <2>4
<1>3. CASE ~\E w \in Workers : Owns(w, j)
  <2>1. OwnerOf(j) = Nobody /\ OwnerOf(j)' = Nobody
    BY <1>3 DEF OwnerOf
  <2> QED BY <1>0, <2>1
<1> QED BY <1>1, <1>2, <1>3

LEMMA SameOwner ==
    ASSUME OneOwner, OneOwner', NEW j \in Jobs, torn' = torn,
           \A w \in Workers : Owns(w, j)' <=> Owns(w, j)
    PROVE  OwnerOf(j)' = OwnerOf(j)
<1>1. {} \in SUBSET Workers /\ \A w \in Workers : Owns(w, j)' <=> Owns(w, j) /\ w \notin {}
  OBVIOUS
<1> QED BY <1>1, Gone

\* Rows and owners as they are: a stutter of the abstract queue.
LEMMA Stutters ==
    ASSUME Sound, Sound', UNCHANGED <<status, lease, torn>>,
           \A j \in Jobs \ torn, w \in Workers : Owns(w, j)' <=> Owns(w, j)
    PROVE  UNCHANGED Abstract!vars
<1>1. OneOwner /\ OneOwner'
  BY DEF Sound, UntornInv
<1>2. ASSUME NEW j \in Jobs PROVE OwnerOf(j)' = OwnerOf(j)
  <2>1. CASE j \in torn
    BY <2>1 DEF OwnerOf
  <2>2. CASE j \notin torn
    BY <1>1, <2>2, SameOwner
  <2> QED BY <2>1, <2>2
<1>3. UNCHANGED AbstractState
  BY DEF AbstractState
<1> QED BY <1>2, <1>3 DEF Abstract!vars
-----------------------------------------------------------------------------
(* Step by step.                                                           *)

\* enqueue() and cancel() of a job nobody has.
LEMMA ClientRefines ==
    ASSUME Sound, Sound', NEW j \in Jobs, Enqueue(j) \/ Cancel(j)
    PROVE  Abstract!Submit(j) \/ Abstract!Withdraw(j) \/ UNCHANGED Abstract!vars
<1>1. OneOwner /\ OneOwner' /\ TypeOK
  BY DEF Sound, UntornInv
<1>2. UNCHANGED <<lease, torn>> /\ \A i \in Jobs, w \in Workers : Owns(w, i)' <=> Owns(w, i)
  BY <1>1 DEF Enqueue, Cancel, procs, history, Owns, Holds, TypeOK
<1>3. \A i \in Jobs : OwnerOf(i)' = OwnerOf(i)
  BY <1>1, <1>2, SameOwner
<1>4. CASE j \in torn
  <2>1. UNCHANGED AbstractState
    BY <1>1, <1>2, <1>4 DEF Enqueue, Cancel, AbstractState, TypeOK
  <2> QED BY <1>3, <2>1 DEF Abstract!vars
<1>5. CASE Enqueue(j) /\ j \notin torn
  <2>1. AbstractState[j] = "unborn" /\ AbstractState' = [AbstractState EXCEPT ![j] = "open"]
    BY <1>1, <1>2, <1>5 DEF Enqueue, AbstractState, TypeOK
  <2> QED BY <1>3, <2>1 DEF Abstract!Submit
<1>6. CASE Cancel(j) /\ j \notin torn
  <2>1. AbstractState[j] = "open" /\ AbstractState' = [AbstractState EXCEPT ![j] = "withdrawn"]
    BY <1>1, <1>2, <1>6 DEF Cancel, AbstractState, TypeOK
  <2> QED BY <1>3, <2>1 DEF Abstract!Withdraw
<1> QED BY <1>4, <1>5, <1>6

\* The conditional UPDATE of claim() takes the job for a worker that has none.
LEMMA ClaimTakes ==
    ASSUME Sound, Sound', NEW w \in Workers, NEW j \in Jobs, held[w] = j, ClaimCommit(w)
    PROVE  Abstract!Take(w, j) \/ UNCHANGED Abstract!vars
<1>1. OneOwner /\ OneOwner' /\ TypeOK /\ HeldWhileBusy
  BY DEF Sound, UntornInv
<1>2. pc[w] = "selected" /\ status[j] = "PENDING" /\ torn' = torn
  BY DEF ClaimCommit
<1>3. \A i \in Jobs : ~Owns(w, i)
  BY <1>2 DEF Owns, Holds, Holding
<1>4. Owns(w, j)'
  BY <1>1, <1>2 DEF ClaimCommit, Owns, Holds, Holding, TypeOK
<1>5. ASSUME NEW i \in Jobs \ {j}, NEW v \in Workers PROVE Owns(v, i)' <=> Owns(v, i)
  BY <1>1, <1>2, <1>5 DEF ClaimCommit, Owns, Holds, Holding, TypeOK
<1>6. \A i \in Jobs \ {j} : OwnerOf(i)' = OwnerOf(i)
  BY <1>1, <1>2, <1>5, SameOwner
<1>7. CASE j \in torn
  <2>1. OwnerOf(j)' = OwnerOf(j)
    BY <1>2, <1>7 DEF OwnerOf
  <2>2. UNCHANGED AbstractState
    BY <1>1, <1>2, <1>7 DEF ClaimCommit, AbstractState, TypeOK
  <2> QED BY <1>6, <2>1, <2>2 DEF Abstract!vars
<1>8. CASE j \notin torn
  <2>1. OwnerOf(j)' = w
    BY <1>1, <1>2, <1>4, <1>8, OwnerIsNext
  <2>2. \A i \in Jobs : OwnerOf(i) # w
    BY <1>3, WorkersAssumption DEF OwnerOf, Nobody
  <2>3. AbstractState[j] = "open" /\ AbstractState' = [AbstractState EXCEPT ![j] = "taken"]
    BY <1>1, <1>2, <1>8 DEF ClaimCommit, AbstractState, TypeOK
  <2>4. [i \in Jobs |-> OwnerOf(i)]' = [[i \in Jobs |-> OwnerOf(i)] EXCEPT ![j] = w]
    BY <1>6, <2>1
  <2> QED BY <1>2, <2>2, <2>3, <2>4 DEF Abstract!Take
<1> QED BY <1>7, <1>8

\* complete(), retry() and release() settle the job if their worker still owns it; what
\* a worker reports whose lease was taken over is refused.
LEMMA OwnerSettles ==
    ASSUME Sound, Sound', NEW w \in Workers, NEW j \in Jobs, held[w] = j,
           Complete(w) \/ Retry(w) \/ Release(w)
    PROVE  Abstract!Settle(w, j) \/ UNCHANGED Abstract!vars
<1>1. OneOwner /\ OneOwner' /\ TypeOK /\ HeldWhileBusy
  BY DEF Sound, UntornInv
<1>2. /\ pc[w] \in {"running", "returned", "raised"} /\ torn' = torn /\ token' = token
      /\ pc' = [pc EXCEPT ![w] = "idle"] \/ pc' = [pc EXCEPT ![w] = "exited"]
      /\ held' = [held EXCEPT ![w] = 0] /\ fence' = [fence EXCEPT ![w] = 0]
  BY DEF Complete, Retry, Release, LeaveJob, history
<1>3. Accepted(w) <=> Owns(w, j)
  BY <1>2 DEF Accepted, Owns, Holds, Holding
<1>4. CASE ~Accepted(w)
  <2>1. UNCHANGED <<status, lease>>
    BY <1>4 DEF Complete, Retry, Release
  <2>2. ~Owns(w, j)' /\ \A i \in Jobs \ {j} : ~Owns(w, i) /\ ~Owns(w, i)'
    BY <1>1, <1>2, JobsAssumption DEF Owns, Holds, Holding, TypeOK, Jobs
  <2>3. \A v \in Workers \ {w}, i \in Jobs : Owns(v, i)' <=> Owns(v, i)
    BY <1>1, <1>2, <2>1 DEF Owns, Holds, TypeOK
  <2> QED BY <1>2, <1>3, <1>4, <2>1, <2>2, <2>3, Stutters
<1>5. CASE Accepted(w)
  <2>1. PICK s \in {"PENDING", "SUCCEEDED", "FAILED"} :
            status' = [status EXCEPT ![j] = s] /\ lease' = [lease EXCEPT ![j] = "none"]
    BY <1>5 DEF Complete, Retry, Release
  <2>2. \A v \in Workers : ~Owns(v, j)'
    BY <1>1, <2>1 DEF Owns, TypeOK
  <2>3. \A i \in Jobs \ {j}, v \in Workers : Owns(v, i)' <=> Owns(v, i)
    <3>1. 0 \notin Jobs
      BY JobsAssumption DEF Jobs
    <3> QED BY <1>1, <1>2, <2>1, <3>1 DEF Owns, Holds, Holding, TypeOK
  <2>4. \A i \in Jobs \ {j} : OwnerOf(i)' = OwnerOf(i)
    BY <1>1, <1>2, <2>3, SameOwner
  <2>5. CASE j \in torn
    <3>1. UNCHANGED AbstractState
      BY <1>1, <1>2, <2>1, <2>5 DEF AbstractState, TypeOK
    <3>2. OwnerOf(j)' = OwnerOf(j)
      BY <1>2, <2>5 DEF OwnerOf
    <3> QED BY <2>4, <3>1, <3>2 DEF Abstract!vars
  <2>6. CASE j \notin torn
    <3>1. OwnerOf(j) = w /\ OwnerOf(j)' = Nobody
      BY <1>1, <1>3, <1>5, <2>2, <2>6, OwnerIs DEF OwnerOf
    <3>2. [i \in Jobs |-> OwnerOf(i)]' = [[i \in Jobs |-> OwnerOf(i)] EXCEPT ![j] = Nobody]
      BY <2>4, <3>1
    <3>3. AbstractState[j] \in {"taken", "overdue"}
      BY <1>5, <2>6 DEF AbstractState, Accepted
    <3>4. \E a \in {"open", "done", "failed"} : AbstractState' = [AbstractState EXCEPT ![j] = a]
      <4>1. CASE s = "PENDING"
        <5>1. AbstractState' = [AbstractState EXCEPT ![j] = "open"]
          BY <1>1, <1>2, <2>1, <2>6, <4>1 DEF AbstractState, TypeOK
        <5> QED BY <5>1
      <4>2. CASE s = "SUCCEEDED"
        <5>1. AbstractState' = [AbstractState EXCEPT ![j] = "done"]
          BY <1>1, <1>2, <2>1, <2>6, <4>2 DEF AbstractState, TypeOK
        <5> QED BY <5>1
      <4>3. CASE s = "FAILED"
        <5>1. AbstractState' = [AbstractState EXCEPT ![j] = "failed"]
          BY <1>1, <1>2, <2>1, <2>6, <4>3 DEF AbstractState, TypeOK
        <5> QED BY <5>1
      <4> QED BY <2>1, <4>1, <4>2, <4>3
    <3> QED BY <3>1, <3>2, <3>3, <3>4 DEF Abstract!Settle
  <2> QED BY <2>5, <2>6
<1> QED BY <1>4, <1>5

\* A lease runs out: the worker keeps the job, overdue now, unless claim() was outrun.
LEMMA ExpireRefines ==
    ASSUME Sound, Sound', NEW j \in Jobs, ExpireLease(j)
    PROVE  [Abstract!Next]_(Abstract!vars)
<1>1. OneOwner /\ OneOwner' /\ TypeOK
  BY DEF Sound, UntornInv
<1>2. /\ status[j] = "RUNNING" /\ lease[j] = "live" /\ lease' = [lease EXCEPT ![j] = "expired"]
      /\ UNCHANGED <<status, token, pc, held, fence>>
      /\ torn' = IF Outrun(j) THEN torn \cup {j} ELSE torn
  BY DEF ExpireLease, procs
<1>3. \A v \in Workers, i \in Jobs : Owns(v, i)' <=> Owns(v, i)
  BY <1>2 DEF Owns, Holds
<1>4. CASE torn' = torn
  <2>1. \A i \in Jobs : OwnerOf(i)' = OwnerOf(i)
    BY <1>1, <1>3, <1>4, SameOwner
  <2>2. CASE j \in torn
    <3>1. UNCHANGED AbstractState
      BY <1>1, <1>2, <1>4, <2>2 DEF AbstractState, TypeOK
    <3> QED BY <2>1, <3>1 DEF Abstract!vars
  <2>3. CASE j \notin torn
    <3>1. AbstractState[j] = "taken" /\ AbstractState' = [AbstractState EXCEPT ![j] = "overdue"]
      BY <1>1, <1>2, <1>4, <2>3 DEF AbstractState, TypeOK
    <3>2. Abstract!Lapse(j)
      BY <2>1, <3>1 DEF Abstract!Lapse
    <3> QED BY <3>2 DEF Abstract!Next
  <2> QED BY <2>2, <2>3
<1>5. CASE torn' # torn
  <2>1. torn' = torn \cup {j} /\ j \notin torn
    BY <1>2, <1>5
  <2>2. \A i \in Jobs \ {j} : OwnerOf(i)' = OwnerOf(i)
    BY <1>1, <1>3, <2>1 DEF OwnerOf, OneOwner
  <2>3. OwnerOf(j)' = Nobody
    BY <2>1 DEF OwnerOf
  <2>4. AbstractState' = [AbstractState EXCEPT ![j] = "broken"]
    BY <1>1, <1>2, <2>1 DEF AbstractState, TypeOK
  <2>5. Abstract!Reclaim({}, {}, {j})
    BY <2>2, <2>3, <2>4 DEF Abstract!Reclaim, AbstractState
  <2>6. {} \in SUBSET Jobs /\ {j} \in SUBSET Jobs
    OBVIOUS
  <2> QED BY <2>5, <2>6 DEF Abstract!Next
<1> QED BY <1>4, <1>5

\* recover_expired() takes overdue jobs from whoever has them, and breaks those that are
\* no longer as it read them.
LEMMA SweepReclaims ==
    ASSUME Sound, Sound', SweepWrite
    PROVE  [Abstract!Next]_(Abstract!vars)
<1> DEFINE hit == {j \in Jobs : seen[j] # 0 /\ j \notin torn'}
           failed == {j \in hit : seen[j] >= MaxAttempts}
           reopened == hit \ failed
           broken == torn' \ torn
<1>1. OneOwner /\ OneOwner' /\ TypeOK
  BY DEF Sound, UntornInv
<1>2. torn' = torn \cup Overtaken /\ UNCHANGED <<token, held, fence>>
      /\ pc' = [pc EXCEPT ![Sweeper] = "swept"] /\ pc[Sweeper] = "sweeping"
  BY DEF SweepWrite
<1>3. \A j \in hit : status[j] = "RUNNING" /\ lease[j] = "expired" /\ j \notin torn
  BY <1>2 DEF Overtaken, Expired
<1>4. \A j \in failed : status'[j] = "FAILED"
  BY DEF SweepWrite
<1>5. \A j \in reopened : status'[j] = "PENDING"
  BY DEF SweepWrite
<1>6. ASSUME NEW j \in Jobs \ hit, j \notin torn'
      PROVE  status'[j] = status[j] /\ lease'[j] = lease[j]
  <2>1. seen[j] = 0
    BY <1>6
  <2> QED BY <1>1, <2>1, AttemptsAssumption DEF SweepWrite, TypeOK
<1>7. AbstractState' = [j \in Jobs |-> IF j \in reopened THEN "open"
                                       ELSE IF j \in failed THEN "failed"
                                       ELSE IF j \in broken THEN "broken"
                                       ELSE AbstractState[j]]
  <2> SUFFICES ASSUME NEW j \in Jobs
               PROVE  AbstractState'[j] = IF j \in reopened THEN "open"
                                          ELSE IF j \in failed THEN "failed"
                                          ELSE IF j \in broken THEN "broken"
                                          ELSE AbstractState[j]
    BY DEF AbstractState
  <2>1. CASE j \in hit
    BY <1>4, <1>5, <2>1 DEF AbstractState
  <2>2. CASE j \in torn'
    BY <2>2 DEF AbstractState
  <2>3. CASE j \notin hit /\ j \notin torn'
    BY <1>2, <1>6, <2>3 DEF AbstractState
  <2> QED BY <2>1, <2>2, <2>3
<1>8. ASSUME NEW j \in Jobs
      PROVE  OwnerOf(j)' = IF j \in reopened \cup failed \cup broken THEN Nobody
                           ELSE OwnerOf(j)
  <2>1. CASE j \in hit
    BY <1>4, <1>5, <2>1 DEF OwnerOf, Owns
  <2>2. CASE j \in torn'
    BY <1>2, <2>2 DEF OwnerOf
  <2>3. CASE j \notin hit /\ j \notin torn'
    <3>1. \A v \in Workers : Owns(v, j)' <=> Owns(v, j)
      BY <1>1, <1>2, <1>6, <2>3, WorkersAssumption DEF Owns, Holds, Holding, TypeOK
    <3>2. j \notin torn
      BY <1>2, <2>3
    <3> QED BY <1>1, <2>3, <3>1, <3>2 DEF OwnerOf, OneOwner
  <2> QED BY <2>1, <2>2, <2>3
<1>9. CASE reopened \cup failed \cup broken = {}
  BY <1>7, <1>8, <1>9 DEF Abstract!vars, AbstractState
<1>10. CASE reopened \cup failed \cup broken # {}
  <2>1. \A j \in reopened \cup failed : AbstractState[j] = "overdue"
    BY <1>3 DEF AbstractState
  <2>2. Abstract!Reclaim(reopened, failed, broken)
    BY <1>7, <1>8, <1>10, <2>1 DEF Abstract!Reclaim
  <2>3. reopened \in SUBSET Jobs /\ failed \in SUBSET Jobs /\ broken \in SUBSET Jobs
    BY <1>2 DEF Overtaken
  <2> QED BY <2>2, <2>3 DEF Abstract!Next
<1> QED BY <1>9, <1>10

\* Dead and cancelled workers, and a dead process, vanish from the owners.
LEMMA DepartureVanishes ==
    ASSUME Sound, Sound', Departure
    PROVE  Abstract!Next
<1>1. OneOwner /\ OneOwner'
  BY DEF Sound, UntornInv
<1>2. UNCHANGED <<status, lease, torn>>
  BY DepartureStep
<1>3. PICK gone \in SUBSET Workers :
         gone # {} /\ \A w \in Workers, j \in Jobs :
                          Owns(w, j)' <=> Owns(w, j) /\ w \notin gone
  BY DepartureStep
<1>4. \A j \in Jobs : OwnerOf(j)' = IF OwnerOf(j) \in gone THEN Nobody ELSE OwnerOf(j)
  BY <1>1, <1>2, <1>3, Gone
<1>5. UNCHANGED AbstractState
  BY <1>2 DEF AbstractState
<1>6. Abstract!Vanish(gone)
  BY <1>3, <1>4, <1>5 DEF Abstract!Vanish
<1> QED BY <1>6 DEF Abstract!Next
-----------------------------------------------------------------------------
LEMMA RefinementInit == Init => Abstract!Init
<1> SUFFICES ASSUME Init PROVE Abstract!Init
  OBVIOUS
<1>1. \A j \in Jobs : OwnerOf(j) = Nobody
  BY DEF Init, OwnerOf, Owns, Holds, Holding
<1>2. \A j \in Jobs : AbstractState[j] = "unborn"
  BY DEF Init, AbstractState
<1> QED BY <1>1, <1>2 DEF Abstract!Init, AbstractState

LEMMA RefinementStep == Sound /\ Sound' /\ [Next]_vars => [Abstract!Next]_(Abstract!vars)
<1> SUFFICES ASSUME Sound, Sound', [Next]_vars PROVE [Abstract!Next]_(Abstract!vars)
  OBVIOUS
<1>1. ASSUME NEW j \in Jobs, Enqueue(j) \/ Cancel(j)
      PROVE  [Abstract!Next]_(Abstract!vars)
  BY <1>1, ClientRefines DEF Abstract!Next
<1>2. ASSUME NEW w \in Workers, ClaimCommit(w) \/ Complete(w) \/ Retry(w) \/ Release(w)
      PROVE  [Abstract!Next]_(Abstract!vars)
  <2>1. held[w] \in Jobs
    BY <1>2 DEF ClaimCommit, Complete, Retry, Release, Sound, TypeOK, HeldWhileBusy, Busy,
                Holding
  <2>2. \/ Abstract!Take(w, held[w]) \/ Abstract!Settle(w, held[w])
        \/ UNCHANGED Abstract!vars
    BY <1>2, <2>1, ClaimTakes, OwnerSettles
  <2> QED BY <2>1, <2>2 DEF Abstract!Next
<1>3. ASSUME NEW w \in Workers, ClaimRead(w) PROVE UNCHANGED Abstract!vars
  BY <1>3, ReadStep, Stutters DEF ClaimRead, rows, history
<1>4. CASE Bystander
  BY <1>4, BystanderStep, Stutters
<1> QED
  BY <1>1, <1>2, <1>3, <1>4, StepKinds, ExpireRefines, SweepReclaims, DepartureVanishes

\* Whatever the timing, the table of jobs, its tokens and its sweeps implement an
\* exclusive queue with deadlines, up to the jobs that are torn.
THEOREM QueueIsExclusive == Spec => ImplementsExclusiveQueue
  BY SoundAlways, RefinementInit, RefinementStep, PTL
     DEF Spec, ImplementsExclusiveQueue, Abstract!Spec
=============================================================================
