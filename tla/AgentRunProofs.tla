--------------------------- MODULE AgentRunProofs ---------------------------
(***************************************************************************)
(* Proofs about AgentRun, for any task graph, any number of executors and  *)
(* clients, and any limits and bounds.                                     *)
(***************************************************************************)
EXTENDS AgentRun, TLAPS

LEMMA Constants ==
  /\ NTasks \in Nat /\ Tasks \subseteq Nat \ {0} /\ RecheckTask \in Tasks \cup {0}
  /\ MaxAttempts \in Nat /\ PauseStreak \in Nat /\ LaneLimit \in Nat /\ Costs \subseteq Nat
  BY GraphAssumption, BudgetAssumption, LimitsAssumption DEF Tasks

-----------------------------------------------------------------------------
(* Types *)

LEMMA FreeSlotIsSlot == FreeSlot \in Slots
  BY DEF FreeSlot, Slots, RunStatuses, Closed, Views, TaskStatuses, Done

LEMMA TopIsSlot ==
  ASSUME NEW s \in Slots
  PROVE  /\ Top(s) \in Slots
         /\ Top(s).pc = "top" /\ Top(s).xid = s.xid /\ Top(s).work = s.work
         /\ Top(s).cm = s.cm /\ Top(s).cmOpen = s.cmOpen /\ Top(s).built = s.built
<1>1. FreeSlot.seen \in [Tasks -> Views]
  BY FreeSlotIsSlot DEF Slots
<1> HIDE DEF FreeSlot
<1>2. "ABSENT" \in RunStatuses /\ "top" \in {"off", "top", "decide", "provider", "calling", "hooks"}
  BY DEF RunStatuses
<1> QED BY <1>1, <1>2 DEF Top, Slots

LEMMA SettledIsSlot ==
  ASSUME TypeOK, NEW e \in Executors, ex[e].cm # 0
  PROVE  /\ Settled(e) \in Slots /\ ex[e].cm \in Tasks
         /\ Settled(e).pc = ex[e].pc /\ Settled(e).xid = ex[e].xid /\ Settled(e).cm = 0
         /\ Settled(e).cmOpen = FALSE /\ Settled(e).built = ex[e].built
         /\ Settled(e).work = [ex[e].work EXCEPT ![ex[e].cm] = "none"]
         /\ Settled(e).seen = ex[e].seen /\ Settled(e).run = ex[e].run
<1>1. ex[e] \in Slots /\ ex[e].cm \in Tasks
  BY DEF TypeOK, Slots
<1> QED BY <1>1 DEF Settled, Slots

\* The slot of an execution that closes a run.
Closing(e, status) ==
  [FreeSlot EXCEPT !.pc = "hooks", !.xid = ex[e].xid, !.report = status]

LEMMA ClosingIsSlot ==
  ASSUME TypeOK, NEW e \in Executors, NEW status \in Closed
  PROVE  /\ Closing(e, status) \in Slots
         /\ Closing(e, status).pc = "hooks" /\ Closing(e, status).xid = ex[e].xid
         /\ Closing(e, status).work = FreeSlot.work /\ Closing(e, status).cm = 0
         /\ Closing(e, status).cmOpen = FALSE
<1>1. ex[e].xid \in Nat /\ FreeSlot.cm = 0 /\ FreeSlot.cmOpen = FALSE
  BY DEF TypeOK, Slots, FreeSlot
<1>2. FreeSlot \in Slots
  BY FreeSlotIsSlot
<1> HIDE DEF FreeSlot
<1> QED BY <1>1, <1>2 DEF Closing, Slots

LEMMA CloseRunTypes ==
  ASSUME TypeOK, NEW e \in Executors, NEW status \in Closed, NEW reason \in Reasons,
         CloseRun(e, status, reason)
  PROVE  /\ run' \in RunRows /\ ex' \in [Executors -> Slots]
         /\ run'.status = status /\ ex' = [ex EXCEPT ![e] = Closing(e, status)]
<1>1. Closing(e, status) \in Slots
  BY ClosingIsSlot
<1>2. ex' = [ex EXCEPT ![e] = Closing(e, status)]
  BY DEF CloseRun, Closing
<1>3. ex' \in [Executors -> Slots]
  BY <1>1, <1>2 DEF TypeOK
<1>4. run' \in RunRows /\ run'.status = status
  BY DEF CloseRun, TypeOK, RunRows, RunStatuses
<1> QED BY <1>2, <1>3, <1>4

LEMMA RunParts ==
  ASSUME TypeOK
  PROVE  /\ run.status \in RunStatuses /\ run.reason \in Reasons
         /\ run.used \in Nat /\ run.limit \in Nat /\ run.streak \in Nat /\ run.probes \in Nat
  BY DEF TypeOK, RunRows

LEMMA StartedIsRun ==
  ASSUME TypeOK, NEW e \in Executors
  PROVE  Started(e) \in RunRows
  BY DEF Started, TypeOK, RunRows, RunStatuses

LEMMA RequeuedTasks ==
  ASSUME TypeOK, NEW S
  PROVE  /\ Requeued(S) \in [Tasks -> TaskRows]
         /\ \A t \in Tasks \cap S : Requeued(S)[t].status = "PENDING"
         /\ \A t \in Tasks \ S : Requeued(S)[t] = task[t]
<1>1. ASSUME NEW t \in Tasks
      PROVE  /\ [task[t] EXCEPT !.status = "PENDING", !.owner = 0] \in TaskRows
             /\ [task[t] EXCEPT !.status = "PENDING", !.owner = 0].status = "PENDING"
  BY DEF TypeOK, TaskRows, TaskStatuses
<1>2. task \in [Tasks -> TaskRows]
  BY DEF TypeOK
<1> QED BY <1>1, <1>2 DEF Requeued

LEMMA ClaimedRow ==
  ASSUME TypeOK, NEW e \in Executors, NEW t \in Tasks
  PROVE  /\ Claimed(e, task[t]) \in TaskRows
         /\ Claimed(e, task[t]).status = "RUNNING" /\ Claimed(e, task[t]).owner = ex[e].xid
         /\ [Claimed(e, task[t]) EXCEPT !.status = "PENDING", !.owner = 0] \in TaskRows
         /\ [Claimed(e, task[t]) EXCEPT !.status = "PENDING", !.owner = 0].status = "PENDING"
<1> DEFINE row == Claimed(e, task[t])
<1>1. task[t] \in TaskRows /\ task[t].attempts + 1 \in Nat /\ ex[e].xid \in Nat
  BY DEF TypeOK, Slots, TaskRows
<1>2. row \in TaskRows /\ row.status = "RUNNING" /\ row.owner = ex[e].xid
  BY <1>1 DEF Claimed, TaskRows, TaskStatuses
<1> HIDE DEF row
<1>3. /\ [row EXCEPT !.status = "PENDING", !.owner = 0] \in TaskRows
      /\ [row EXCEPT !.status = "PENDING", !.owner = 0].status = "PENDING"
  BY <1>2 DEF TaskRows, TaskStatuses
<1> QED BY <1>2, <1>3 DEF row

LEMMA GivenBackTasks ==
  ASSUME TypeOK, NEW e \in Executors, NEW S
  PROVE  /\ GivenBack(e, S) \in [Tasks -> TaskRows]
         /\ \A t \in Tasks \cap S : GivenBack(e, S)[t].status = "PENDING"
         /\ \A t \in Tasks \ S : GivenBack(e, S)[t] = task[t]
<1>1. task \in [Tasks -> TaskRows]
  BY DEF TypeOK
<1> QED BY <1>1, ClaimedRow DEF GivenBack

LEMMA ViewType ==
  ASSUME TypeOK, NEW t \in Tasks
  PROVE  View(t) \in Views
  BY DEF View, Views, TypeOK, TaskRows

LEMMA LargerType ==
  ASSUME NEW m \in Nat, NEW n \in Nat
  PROVE  Larger(m, n) \in Nat
  BY DEF Larger

LEMMA OneMore ==
  /\ TypeOK => /\ run.streak + 1 \in Nat /\ run.probes + 1 \in Nat /\ sent + 1 \in Nat
               /\ crashes + 1 \in Nat /\ failures + 1 \in Nat /\ duplicates + 1 \in Nat
               /\ controls + 1 \in Nat
  BY DEF TypeOK, RunRows

LEMMA TaskParts ==
  ASSUME TypeOK, NEW t \in Tasks
  PROVE  /\ task[t] \in TaskRows
         /\ task[t].attempts + 1 \in Nat /\ task[t].retryable + 1 \in Nat
         /\ artifacts[t] + 1 \in Nat
  BY DEF TypeOK, TaskRows

\* The rows that the decision of an execution writes.
LEMMA DecideTypes ==
  ASSUME TypeOK, NEW e \in Executors, Decide(e)
  PROVE  TypeOK'
<1>0. ex[e] \in Slots /\ Top(ex[e]) \in Slots /\ Started(e) \in RunRows
  BY TopIsSlot, StartedIsRun DEF TypeOK
<1> USE DEF TypeOK
<1>1. CASE Recover(e)
  BY <1>0, <1>1, RequeuedTasks DEF Recover, api, queue, bounds
<1>2. CASE GatePass(e)
  <2>1. [Top(ex[e]) EXCEPT !.gate = TRUE] \in Slots
    BY <1>0 DEF Slots
  <2>2. ex' \in [Executors -> Slots]
    BY <1>2, <2>1 DEF GatePass
  <2>3. task' \in [Tasks -> TaskRows]
    BY <1>2 DEF GatePass, TaskRows, TaskStatuses, Done
  <2> QED BY <1>0, <1>2, <2>2, <2>3 DEF GatePass, api, queue, bounds, history
<1>3. CASE GateFail(e)
  <2>1. [ex[e] EXCEPT !.gate = TRUE] \in Slots /\ ex' = [ex EXCEPT ![e] = [ex[e] EXCEPT !.gate = TRUE]]
    BY <1>0, <1>3 DEF Slots, GateFail
  <2> QED BY <1>3, <2>1 DEF GateFail, db, api, queue, bounds, history
<1>4. CASE FinalGateEnds(e)
  <2>1. [ex[e] EXCEPT !.final = TRUE, !.run = "RUNNING"] \in Slots
    BY <1>0 DEF Slots, RunStatuses
  <2> QED BY <1>0, <1>4, <2>1 DEF FinalGateEnds, api, queue, bounds, history
<1>5. CASE FinalGateRevises(e)
  <2>1. [Top(ex[e]) EXCEPT !.round = ex[e].round + 1] \in Slots
    <3>1. ex[e].round + 1 \in Nat
      BY <1>0 DEF Slots
    <3> QED BY <1>0, <3>1 DEF Slots
  <2>2. ex' = [ex EXCEPT ![e] = [Top(ex[e]) EXCEPT !.round = ex[e].round + 1]]
    BY <1>5 DEF FinalGateRevises
  <2>3. ex' \in [Executors -> Slots]
    BY <2>1, <2>2
  <2> QED BY <1>0, <1>5, <2>3, RequeuedTasks DEF FinalGateRevises, api, queue, bounds, history
<1>6. CASE Finish(e)
  <2>1. "tasks" \in Reasons /\ run.reason \in Reasons /\ {"FAILED", "COMPLETED"} \subseteq Closed
    BY RunParts DEF Reasons, Closed
  <2>2. run' \in RunRows /\ ex' \in [Executors -> Slots]
    BY <1>6, <2>1, CloseRunTypes DEF Finish
  <2> QED BY <1>6, <2>2 DEF Finish, api, queue, bounds, history
<1>7. CASE Wait(e)
  <2>1. run' \in RunRows /\ ex' \in [Executors -> Slots]
    BY <1>0, <1>7 DEF Wait
  <2> QED BY <1>7, <2>1 DEF Wait, api, queue, bounds, history
<1>8. CASE DeadEnd(e)
  <2>1. "dependency" \in Reasons /\ "FAILED" \in Closed
    BY DEF Reasons, Closed
  <2>2. run' \in RunRows /\ ex' \in [Executors -> Slots]
    BY <1>8, <2>1, CloseRunTypes DEF DeadEnd
  <2> QED BY <1>8, <2>2 DEF DeadEnd, api, queue, bounds, history
<1>9. CASE Claim(e)
  <2> DEFINE batch == Won(e) \cap Tried(e)
             work == [t \in Tasks |-> IF t \in batch THEN "calling" ELSE "none"]
             slot == [Top(ex[e]) EXCEPT !.pc = "provider", !.laned = TRUE, !.work = work]
  <2>1. work \in [Tasks -> {"none", "calling"} \cup Outcomes]
    OBVIOUS
  <2>2. ex' = [ex EXCEPT ![e] = slot]
    BY <1>9 DEF Claim
  <2> HIDE DEF work
  <2>3. slot \in Slots
    BY <1>0, <2>1 DEF Slots
  <2>4. ex' \in [Executors -> Slots]
    BY <2>2, <2>3
  <2>5. task' \in [Tasks -> TaskRows]
    BY <1>9, ClaimedRow DEF Claim
  <2>6. run' \in RunRows
    <3>1. Larger(Started(e).limit, LaneLimit) \in Nat
      BY <1>0, LargerType, Constants DEF RunRows
    <3>2. [Started(e) EXCEPT !.limit = Larger(@, LaneLimit)] \in RunRows
      BY <1>0, <3>1 DEF RunRows
    <3> QED BY <1>0, <1>9, <3>2 DEF Claim
  <2> QED BY <1>9, <2>4, <2>5, <2>6 DEF Claim, api, queue, bounds, history
<1>10. CASE ExhaustBudget(e)
  <2>1. "budget" \in Reasons /\ "BUDGET_EXHAUSTED" \in Closed
    BY DEF Reasons, Closed
  <2>2. run' \in RunRows /\ ex' \in [Executors -> Slots]
    BY <1>10, <2>1, CloseRunTypes DEF ExhaustBudget
  <2>3. PICK t : task' = [GivenBack(e, WonBefore(e, t)) EXCEPT ![t].status = "FAILED"]
    BY <1>10 DEF ExhaustBudget
  <2>4. task' \in [Tasks -> TaskRows]
    <3> DEFINE given == GivenBack(e, WonBefore(e, t))
    <3>1. given \in [Tasks -> TaskRows]
      BY GivenBackTasks
    <3>2. task' = [given EXCEPT ![t] = [given[t] EXCEPT !.status = "FAILED"]]
      BY <2>3
    <3> HIDE DEF given
    <3> QED BY <3>1, <3>2 DEF TaskRows, TaskStatuses
  <2> QED BY <1>10, <2>2, <2>4 DEF ExhaustBudget, api, queue, bounds, history
<1>11. CASE NoCredential(e)
  <2>1. "credential" \in Reasons /\ "FAILED" \in Closed
    BY DEF Reasons, Closed
  <2>2. run' \in RunRows /\ ex' \in [Executors -> Slots] /\ task' \in [Tasks -> TaskRows]
    BY <1>11, <2>1, CloseRunTypes, GivenBackTasks DEF NoCredential
  <2> QED BY <1>11, <2>2 DEF NoCredential, api, queue, bounds, history
<1> QED
  BY <1>1, <1>2, <1>3, <1>4, <1>5, <1>6, <1>7, <1>8, <1>9, <1>10, <1>11 DEF Decide

\* The rows that a commit writes.
LEMMA CommitTypes ==
  ASSUME TypeOK, NEW e \in Executors, Commit(e)
  PROVE  TypeOK'
<1>1. ex[e].cm # 0
  BY DEF Commit, CommitReturn, CommitOk, CommitBackoff, CommitRepeat, CommitDegraded, CommitFailed,
         Committing, Retryable, Repeatable, OutOfRetries
<1>2. /\ ex[e].cm \in Tasks /\ task[ex[e].cm] \in TaskRows /\ ex[e] \in Slots
      /\ task[ex[e].cm].retryable + 1 \in Nat /\ artifacts[ex[e].cm] + 1 \in Nat
  <2>1. ex[e].cm \in Tasks
    BY <1>1, SettledIsSlot
  <2>2. ex[e] \in Slots
    BY DEF TypeOK
  <2> QED BY <2>1, <2>2, TaskParts
<1>3. [ex EXCEPT ![e] = Settled(e)] \in [Executors -> Slots]
  BY <1>1, SettledIsSlot DEF TypeOK
<1>4. [run EXCEPT !.streak = 0] \in RunRows
  BY DEF TypeOK, RunRows
<1>5. \A s \in TaskStatuses, b \in BOOLEAN :
        /\ [task[ex[e].cm] EXCEPT !.status = s, !.owner = 0] \in TaskRows
        /\ [task[ex[e].cm] EXCEPT !.status = s, !.owner = 0, !.waiting = b] \in TaskRows
  BY <1>2 DEF TaskRows
<1>6. ASSUME NEW s \in TaskStatuses,
             task' = [task EXCEPT ![ex[e].cm].status = s, ![ex[e].cm].owner = 0]
      PROVE  task' \in [Tasks -> TaskRows]
  <2>1. task' = [task EXCEPT ![ex[e].cm] = [task[ex[e].cm] EXCEPT !.status = s, !.owner = 0]]
    BY <1>6
  <2> QED BY <1>5, <2>1 DEF TypeOK
<1>7. {"PENDING", "SUCCEEDED", "FAILED"} \subseteq TaskStatuses
  BY DEF TaskStatuses, Done
<1>8. CASE CommitReturn(e)
  BY <1>3, <1>8, RequeuedTasks DEF CommitReturn, TypeOK, api, queue, bounds, history
<1>9. CASE CommitOk(e)
  <2>1. PICK cost \in Costs : /\ run' = [run EXCEPT !.used = ex[e].used + cost, !.streak = 0]
                              /\ spent' = spent + cost
    BY <1>9 DEF CommitOk
  <2>2. cost \in Nat /\ ex[e].used \in Nat
    BY <1>2, Constants DEF Slots
  <2>3. ex[e].used + cost \in Nat /\ spent + cost \in Nat
    BY <2>2 DEF TypeOK
  <2>6. run' \in RunRows /\ spent' \in Nat
    BY <2>1, <2>3 DEF TypeOK, RunRows
  <2>4. task' \in [Tasks -> TaskRows]
    BY <1>6, <1>7, <1>9 DEF CommitOk
  <2>5. artifacts' \in [Tasks -> Nat]
    BY <1>2, <1>9 DEF CommitOk, TypeOK
  <2> QED BY <1>3, <1>9, <2>4, <2>5, <2>6 DEF CommitOk, TypeOK, api, queue, bounds
<1>10. CASE CommitBackoff(e)
  <2>1. [task[ex[e].cm] EXCEPT !.status = "PENDING", !.owner = 0, !.waiting = TRUE,
                               !.retryable = task[ex[e].cm].retryable + 1] \in TaskRows
    BY <1>2, <1>7 DEF TaskRows
  <2>4. task' = [task EXCEPT ![ex[e].cm] =
                   [task[ex[e].cm] EXCEPT !.status = "PENDING", !.owner = 0, !.waiting = TRUE,
                                          !.retryable = task[ex[e].cm].retryable + 1]]
    BY <1>10 DEF CommitBackoff
  <2>2. task' \in [Tasks -> TaskRows]
    BY <2>1, <2>4 DEF TypeOK
  <2>5. [run EXCEPT !.streak = run.streak + 1] \in RunRows
    BY OneMore DEF TypeOK, RunRows
  <2>6. \A r \in RunRows : [r EXCEPT !.status = "PAUSED", !.autoPaused = TRUE] \in RunRows
    BY DEF RunRows, RunStatuses
  <2>3. run' \in RunRows
    BY <1>10, <2>5, <2>6 DEF CommitBackoff
  <2> QED BY <1>3, <1>10, <2>2, <2>3 DEF CommitBackoff, TypeOK, api, queue, bounds, history
<1>11. CASE CommitRepeat(e)
  <2>1. task' = [task EXCEPT ![ex[e].cm] = [task[ex[e].cm] EXCEPT !.status = "PENDING", !.owner = 0,
                                                                 !.waiting = FALSE]]
    BY <1>11 DEF CommitRepeat
  <2>2. task' \in [Tasks -> TaskRows]
    BY <1>5, <1>7, <2>1 DEF TypeOK
  <2> QED BY <1>3, <1>4, <1>11, <2>2 DEF CommitRepeat, TypeOK, api, queue, bounds, history
<1>12. CASE CommitDegraded(e)
  <2>1. task' \in [Tasks -> TaskRows]
    BY <1>6, <1>7, <1>12 DEF CommitDegraded
  <2>2. artifacts' \in [Tasks -> Nat]
    BY <1>2, <1>12 DEF CommitDegraded, TypeOK
  <2> QED BY <1>3, <1>4, <1>12, <2>1, <2>2 DEF CommitDegraded, TypeOK, api, queue, bounds
<1>13. CASE CommitFailed(e)
  <2>1. task' \in [Tasks -> TaskRows]
    BY <1>6, <1>7, <1>13 DEF CommitFailed
  <2> QED BY <1>3, <1>4, <1>13, <2>1 DEF CommitFailed, TypeOK, api, queue, bounds, history
<1> QED BY <1>8, <1>9, <1>10, <1>11, <1>12, <1>13 DEF Commit

\* The other steps of an execution.
LEMMA ExecutionTypes ==
  ASSUME TypeOK, NEW e \in Executors, Execution(e)
  PROVE  TypeOK'
<1>0. ex[e] \in Slots /\ ex[e].xid \in Nat /\ FreeSlot \in Slots /\ run.status \in RunStatuses
      /\ run.used \in Nat
  BY FreeSlotIsSlot, RunParts DEF TypeOK, Slots
<1>1. ASSUME NEW s \in Slots, ex' = [ex EXCEPT ![e] = s] PROVE ex' \in [Executors -> Slots]
  BY <1>1 DEF TypeOK
<1>2. Holding(e) \subseteq Tasks
  BY DEF Holding
<1>3. CASE Deliver(e)
  <2>1. PICK x \in mail : /\ mail' = mail \ {x}
                          /\ ex' = [ex EXCEPT ![e] = [FreeSlot EXCEPT !.pc = "top", !.xid = x]]
    BY <1>3 DEF Deliver
  <2>2. [FreeSlot EXCEPT !.pc = "top", !.xid = x] \in Slots
    <3>1. x \in Nat
      BY DEF TypeOK
    <3> HIDE DEF FreeSlot
    <3> QED BY <1>0, <3>1 DEF Slots
  <2>3. ex' \in [Executors -> Slots]
    BY <1>1, <2>1, <2>2
  <2> QED BY <1>3, <2>1, <2>3 DEF Deliver, TypeOK, db, api, bounds, history
<1>4. CASE Duplicate(e)
  <2>1. mail' \subseteq Nat /\ duplicates' \in Nat
    BY <1>0, <1>4, OneMore DEF Duplicate, TypeOK
  <2> QED BY <1>4, <2>1 DEF Duplicate, TypeOK, db, api, history
<1>5. CASE Crash(e)
  <2>1. mail' \subseteq Nat /\ crashes' \in Nat /\ abandoned' \subseteq Tasks
    BY <1>0, <1>2, <1>5, OneMore DEF Crash, TypeOK
  <2>2. ex' \in [Executors -> Slots]
    BY <1>0, <1>1, <1>5 DEF Crash
  <2> QED BY <1>5, <2>1, <2>2 DEF Crash, TypeOK, db, api
<1>6. CASE Read(e)
  <2>1. [ex[e] EXCEPT !.pc = "hooks", !.report = "CANCELLED"] \in Slots
    BY <1>0 DEF Slots, Closed
  <2>2. [ex[e] EXCEPT !.pc = "decide", !.run = run.status, !.used = run.used,
                      !.seen = [t \in Tasks |-> View(t)]] \in Slots
    <3>1. [t \in Tasks |-> View(t)] \in [Tasks -> Views]
      BY ViewType
    <3> QED BY <1>0, <3>1 DEF Slots
  <2>3. ex' \in [Executors -> Slots]
    BY <1>0, <1>6, <2>1, <2>2 DEF Read, TypeOK
  <2> QED BY <1>6, <2>3 DEF Read, TypeOK, db, api, queue, bounds, history
<1>7. CASE \E t \in Tasks : Superseded(e, t) \/ HandlerEnds(e, t)
  <2>1. PICK t \in Tasks : Superseded(e, t) \/ HandlerEnds(e, t)
    BY <1>7
  <2>2. PICK outcome \in Outcomes \cup {"none"} : ex' = [ex EXCEPT ![e].work[t] = outcome]
    BY <2>1 DEF Superseded, HandlerEnds
  <2>3. [ex[e].work EXCEPT ![t] = outcome] \in [Tasks -> {"none", "calling"} \cup Outcomes]
    BY <1>0 DEF Slots
  <2>4. [ex[e] EXCEPT !.work = [ex[e].work EXCEPT ![t] = outcome]] \in Slots
    BY <1>0, <2>3 DEF Slots
  <2>5. ex' = [ex EXCEPT ![e] = [ex[e] EXCEPT !.work = [ex[e].work EXCEPT ![t] = outcome]]]
    BY <2>2
  <2>6. ex' \in [Executors -> Slots]
    BY <1>1, <2>4, <2>5
  <2> QED BY <2>1, <2>6 DEF Superseded, HandlerEnds, TypeOK, db, api, queue, bounds, history
<1>8. ASSUME NEW t \in Tasks, CommitRead(e, t) PROVE TypeOK'
  <2>1. PICK open \in BOOLEAN :
          ex' = [ex EXCEPT ![e] = [ex[e] EXCEPT !.cm = t, !.cmOpen = open, !.used = run.used]]
    BY <1>8, Zenon DEF CommitRead
  <2>2. [ex[e] EXCEPT !.cm = t, !.cmOpen = open, !.used = run.used] \in Slots
    BY <1>0 DEF Slots
  <2>3. ex' \in [Executors -> Slots]
    BY <1>1, <2>1, <2>2
  <2> QED BY <1>8, <2>3 DEF CommitRead, TypeOK, db, api, queue, bounds, history
<1>9. CASE BuildProvider(e)
  <2>1. [ex[e] EXCEPT !.pc = "calling", !.built = TRUE] \in Slots
    BY <1>0 DEF Slots
  <2>2. ex' = [ex EXCEPT ![e] = [ex[e] EXCEPT !.pc = "calling", !.built = TRUE]]
    BY <1>9 DEF BuildProvider
  <2>3. ex' \in [Executors -> Slots]
    BY <1>1, <2>1, <2>2
  <2> QED BY <1>9, <2>3 DEF BuildProvider, TypeOK, db, api, queue, bounds, history
<1>10. CASE ProviderRefused(e)
  <2>1. "provider" \in Reasons /\ "FAILED" \in Closed
    BY DEF Reasons, Closed
  <2>2. run' \in RunRows /\ ex' \in [Executors -> Slots] /\ task' \in [Tasks -> TaskRows]
    BY <1>10, <2>1, CloseRunTypes, RequeuedTasks DEF ProviderRefused
  <2>3. failures' \in Nat /\ unsupported' \in BOOLEAN
    BY <1>10, OneMore DEF ProviderRefused, TypeOK
  <2> QED BY <1>10, <2>2, <2>3 DEF ProviderRefused, TypeOK, api, queue
<1>11. CASE Join(e)
  <2>1. [ex[e] EXCEPT !.pc = "top"] \in Slots
    BY <1>0 DEF Slots
  <2>2. ex' = [ex EXCEPT ![e] = [ex[e] EXCEPT !.pc = "top"]]
    BY <1>11 DEF Join
  <2>3. ex' \in [Executors -> Slots]
    BY <1>1, <2>1, <2>2
  <2> QED BY <1>11, <2>3 DEF Join, TypeOK, db, api, queue, bounds, history
<1>12. CASE Hooks(e)
  BY <1>0, <1>1, <1>12 DEF Hooks, TypeOK, db, api, bounds
<1>13. CASE ExecutorError(e)
  <2>1. CASE run.status \in {"PENDING", "RUNNING"}
    <3>1. [FreeSlot EXCEPT !.pc = "hooks", !.xid = ex[e].xid, !.report = "FAILED", !.again = TRUE] \in Slots
      <4> HIDE DEF FreeSlot
      <4> QED BY <1>0 DEF Slots, Closed
    <3>2. ex' \in [Executors -> Slots]
      BY <1>1, <1>13, <2>1, <3>1 DEF ExecutorError
    <3>3. run' \in RunRows
      BY <1>13, <2>1 DEF ExecutorError, TypeOK, RunRows, RunStatuses, Closed, Reasons
    <3> QED BY <1>2, <1>13, <2>1, <3>2, <3>3 DEF ExecutorError, TypeOK, api
  <2>2. CASE run.status \notin {"PENDING", "RUNNING"}
    BY <1>0, <1>1, <1>2, <1>13, <2>2 DEF ExecutorError, TypeOK, api
  <2> QED BY <2>1, <2>2
<1> QED
  BY <1>3, <1>4, <1>5, <1>6, <1>7, <1>8, <1>9, <1>10, <1>11, <1>12, <1>13, DecideTypes, CommitTypes
     DEF Execution, Proceed

\* Requests, the prober, the sweeper and time.
LEMMA OtherTypes ==
  ASSUME TypeOK, Next, \A e \in Executors : ~Execution(e)
  PROVE  TypeOK'
<1> DEFINE steps == {"idle", "read", "queue"}
           acts == {"none", "create", "pause", "cancel", "resume", "retry"}
<1>1. ASSUME NEW s \in RunStatuses
      PROVE  [run EXCEPT !.status = s] \in RunRows
  BY DEF TypeOK, RunRows
<1>2. {"PENDING", "RUNNING", "PAUSED", "CANCELLED", "FAILED", "ABSENT"} \subseteq RunStatuses
  BY DEF RunStatuses, Closed
<1>3. ASSUME NEW c \in Clients, NEW s \in steps, NEW a \in acts, NEW b \in RunStatuses,
             ctl' = [ctl EXCEPT ![c] = [step |-> s, act |-> a, back |-> b]]
      PROVE  ctl' \in [Clients -> Requests]
  BY <1>3 DEF TypeOK, Requests
<1>4. ASSUME NEW c \in Clients, RequestEnds(c) PROVE ctl' \in [Clients -> Requests]
  BY <1>2, <1>3, <1>4 DEF RequestEnds, IdleRequest
<1>5. ASSUME NEW c \in Clients PROVE ctl[c].back \in RunStatuses
  BY DEF TypeOK, Requests
<1>6. ASSUME NEW c \in Clients, CreateRun(c) PROVE TypeOK'
  <2>1. ctl' \in [Clients -> Requests]
    BY <1>2, <1>3, <1>6 DEF CreateRun, QueueStep
  <2> QED BY <1>1, <1>2, <1>6, <2>1 DEF CreateRun, TypeOK, queue, bounds, history
<1>7. ASSUME NEW c \in Clients, ControlRead(c) PROVE TypeOK'
  <2>1. run.status \in RunStatuses
    BY RunParts
  <2>2. ctl' \in [Clients -> Requests]
    BY <1>3, <1>7, <2>1 DEF ControlRead
  <2> QED BY <1>7, <2>2 DEF ControlRead, TypeOK, db, queue, history
<1>8. ASSUME NEW c \in Clients, Pause(c) \/ Cancel(c) PROVE TypeOK'
  <2>1. run' \in RunRows
    BY <1>2, <1>8 DEF Pause, Cancel, TypeOK, RunRows, Reasons
  <2> QED BY <1>4, <1>8, <2>1 DEF Pause, Cancel, TypeOK, queue, bounds, history
<1>9. ASSUME NEW c \in Clients, Resume(c) PROVE TypeOK'
  <2>1. ctl' \in [Clients -> Requests]
    BY <1>3, <1>5, <1>9 DEF Resume, QueueStep
  <2> QED BY <1>1, <1>2, <1>9, <2>1 DEF Resume, TypeOK, queue, bounds, history
<1>10. ASSUME NEW c \in Clients PROVE Reopened(c) \in RunRows
  <2>1. run.limit \in Nat /\ run.used + 1 \in Nat
    BY RunParts
  <2>4. (3 * run.limit) \div 2 \in Nat
    BY <2>1
  <2>2. Larger((3 * run.limit) \div 2, run.used + 1) \in Nat
    BY <2>1, <2>4, LargerType
  <2> HIDE DEF Larger
  <2>3. [run EXCEPT !.status = "RUNNING", !.limit = Larger((3 * run.limit) \div 2, run.used + 1)] \in RunRows
    BY <1>2, <2>2 DEF TypeOK, RunRows
  <2> QED BY <1>1, <1>2, <2>3 DEF Reopened
<1>11. ASSUME NEW c \in Clients, RetryRun(c) PROVE TypeOK'
  <2>1. ctl' \in [Clients -> Requests]
    BY <1>3, <1>5, <1>11 DEF RetryRun, QueueStep
  <2>2. \A t \in Tasks : [task[t] EXCEPT !.status = "PENDING", !.attempts = 0, !.retryable = 0,
                                          !.waiting = FALSE] \in TaskRows
    BY DEF TypeOK, TaskRows, TaskStatuses
  <2>3. task' \in [Tasks -> TaskRows]
    BY <1>11, <2>2 DEF RetryRun, TypeOK
  <2> QED BY <1>10, <1>11, <2>1, <2>3 DEF RetryRun, TypeOK, queue, bounds, history
<1>12. ASSUME NEW c \in Clients, NEW t \in Tasks, RetryTask(c, t) PROVE TypeOK'
  <2>1. ctl' \in [Clients -> Requests]
    BY <1>3, <1>5, <1>12 DEF RetryTask, QueueStep
  <2>2. [task[t] EXCEPT !.status = "PENDING", !.attempts = task[t].attempts + 1] \in TaskRows
    BY TaskParts DEF TaskRows, TaskStatuses
  <2>3. task' = [task EXCEPT ![t] = [task[t] EXCEPT !.status = "PENDING",
                                                   !.attempts = task[t].attempts + 1]]
    BY <1>12 DEF RetryTask
  <2>4. task' \in [Tasks -> TaskRows]
    BY <2>2, <2>3 DEF TypeOK
  <2> QED BY <1>10, <1>12, <2>1, <2>4 DEF RetryTask, TypeOK, queue, bounds, history
<1>13. ASSUME NEW c \in Clients, Enqueue(c) \/ RequestDies(c) PROVE TypeOK'
  <2>1. ctl' \in [Clients -> Requests]
    BY <1>4, <1>13 DEF Enqueue, RequestDies
  <2>2. mail' \subseteq Nat /\ sent' \in Nat /\ crashes' \in Nat
    <3>1. CASE Enqueue(c)
      BY <3>1, OneMore DEF Enqueue, TypeOK, bounds
    <3>2. CASE RequestDies(c)
      BY <3>2, OneMore DEF RequestDies, TypeOK, queue
    <3> QED BY <1>13, <3>1, <3>2
  <2> QED BY <1>13, <2>1, <2>2 DEF Enqueue, RequestDies, TypeOK, db, bounds, history
<1>14. ASSUME NEW c \in Clients, EnqueueFails(c) PROVE TypeOK'
  <2>1. run' \in RunRows
    BY <1>5, <1>14 DEF EnqueueFails, TypeOK, RunRows, Reasons
  <2> QED BY <1>4, <1>14, <2>1 DEF EnqueueFails, TypeOK, queue, history
<1>15. CASE ProbeScan \/ ProbeEnqueue
  <2>1. mail' \subseteq Nat /\ sent' \in Nat
    BY <1>15, OneMore DEF ProbeScan, ProbeEnqueue, TypeOK, queue
  <2> QED BY <1>15, <2>1 DEF ProbeScan, ProbeEnqueue, TypeOK, db, bounds, history
<1>16. CASE ProbeSucceeds
  BY <1>1, <1>2, <1>16 DEF ProbeSucceeds, TypeOK, queue, bounds, history
<1>17. CASE ProbeFails
  <2>1. run' \in RunRows
    BY <1>17 DEF ProbeFails, TypeOK, RunRows
  <2> QED BY <1>17, <2>1 DEF ProbeFails, TypeOK, queue, bounds, history
<1>18. CASE ProbeEnqueueFails
  BY <1>1, <1>2, <1>18 DEF ProbeEnqueueFails, TypeOK, queue, history
<1>19. CASE SweepRead \/ SweepHooks
  BY <1>19 DEF SweepRead, SweepHooks, TypeOK, db, queue, bounds, history
<1>20. CASE SweepWrite
  <2>1. run' \in RunRows
    BY <1>2, <1>20 DEF SweepWrite, TypeOK, RunRows, Reasons
  <2> QED BY <1>20, <2>1 DEF SweepWrite, TypeOK, queue, bounds, history
<1>21. ASSUME NEW t \in Tasks, ExpireLease(t) PROVE TypeOK'
  <2>1. [task[t] EXCEPT !.lease = "expired"] \in TaskRows
    BY DEF TypeOK, TaskRows
  <2>2. task' = [task EXCEPT ![t] = [task[t] EXCEPT !.lease = "expired"]]
    BY <1>21 DEF ExpireLease
  <2>3. task' \in [Tasks -> TaskRows] /\ duplicates' \in Nat
    BY <1>21, <2>1, <2>2 DEF ExpireLease, TypeOK
  <2> QED BY <1>21, <2>3 DEF ExpireLease, TypeOK, api, queue, history
<1>22. ASSUME NEW t \in Tasks, BackoffElapses(t) PROVE TypeOK'
  <2>1. [task[t] EXCEPT !.waiting = FALSE] \in TaskRows
    BY DEF TypeOK, TaskRows
  <2>2. task' = [task EXCEPT ![t] = [task[t] EXCEPT !.waiting = FALSE]]
    BY <1>22 DEF BackoffElapses
  <2>3. task' \in [Tasks -> TaskRows]
    BY <2>1, <2>2 DEF TypeOK
  <2> QED BY <1>22, <2>3 DEF BackoffElapses, TypeOK, api, queue, bounds, history
<1> QED
  BY <1>6, <1>7, <1>8, <1>9, <1>11, <1>12, <1>13, <1>14, <1>15, <1>16, <1>17, <1>18, <1>19, <1>20,
     <1>21, <1>22
     DEF Next, Control, Probe, Sweep, Clock

LEMMA TypeStep == TypeOK /\ [Next]_vars => TypeOK'
<1>1. TypeOK /\ UNCHANGED vars => TypeOK'
  BY DEF TypeOK, vars, db, api, queue, bounds, history
<1> QED BY <1>1, ExecutionTypes, OtherTypes

LEMMA TypeInit == Init => TypeOK
<1> SUFFICES ASSUME Init PROVE TypeOK
  OBVIOUS
<1>1. run \in RunRows
  BY DEF Init, RunRows, RunStatuses, Reasons
<1>2. task \in [Tasks -> TaskRows]
  BY DEF Init, TaskRows, TaskStatuses
<1>3. ctl \in [Clients -> Requests]
  BY DEF Init, IdleRequest, Requests, RunStatuses
<1>4. ex \in [Executors -> Slots]
  BY FreeSlotIsSlot DEF Init
<1> QED BY <1>1, <1>2, <1>3, <1>4 DEF Init, TypeOK

\* The type invariant of AgentRun.
THEOREM TypeCorrect == Spec => []TypeOK
  BY TypeInit, TypeStep, PTL DEF Spec
-----------------------------------------------------------------------------
(* Claims *)

\* A RUNNING task is held by an execution of the message that owns its row, or
\* its execution died.
Claims ==
  \A t \in Tasks : task[t].status = "RUNNING" =>
    t \in abandoned \/ \E e \in Executors : ex[e].work[t] # "none" /\ ex[e].xid = task[t].owner

\* An execution holds tasks, and commits, only inside a batch.
Batches ==
  \A e \in Executors :
    /\ ex[e].pc \notin {"provider", "calling"} => \A t \in Tasks : ex[e].work[t] = "none"
    /\ ex[e].cm # 0 => ex[e].pc = "calling" /\ ex[e].work[ex[e].cm] # "none"

\* A step of one execution: whatever is RUNNING after it was taken by it, or
\* was RUNNING before and is not given up.
LEMMA StepKeeps ==
  ASSUME Claims, Batches, NEW e \in Executors,
         \A f \in Executors \ {e} : ex'[f] = ex[f],
         ex'[e].pc \notin {"provider", "calling"} => \A t \in Tasks : ex'[e].work[t] = "none",
         ex'[e].cm # 0 => ex'[e].pc = "calling" /\ ex'[e].work[ex'[e].cm] # "none",
         \A t \in Tasks : task'[t].status = "RUNNING" =>
           \/ t \in abandoned'
           \/ ex'[e].work[t] # "none" /\ ex'[e].xid = task'[t].owner
           \/ /\ task[t].status = "RUNNING" /\ task'[t].owner = task[t].owner
              /\ t \in abandoned => t \in abandoned'
              /\ ex[e].work[t] # "none" /\ ex[e].xid = task[t].owner =>
                   ex'[e].work[t] # "none" /\ ex'[e].xid = ex[e].xid
  PROVE  Claims' /\ Batches'
<1>1. Batches'
  BY DEF Batches
<1>2. Claims'
  <2> SUFFICES ASSUME NEW t \in Tasks, task'[t].status = "RUNNING", t \notin abandoned'
               PROVE  \E f \in Executors : ex'[f].work[t] # "none" /\ ex'[f].xid = task'[t].owner
    BY DEF Claims
  <2>1. CASE ex'[e].work[t] # "none" /\ ex'[e].xid = task'[t].owner
    BY <2>1
  <2>2. CASE ~(ex'[e].work[t] # "none" /\ ex'[e].xid = task'[t].owner)
    <3>1. PICK f \in Executors : ex[f].work[t] # "none" /\ ex[f].xid = task[t].owner
      BY <2>2 DEF Claims
    <3>2. f # e
      BY <2>2, <3>1
    <3> QED BY <2>2, <3>1, <3>2
  <2> QED BY <2>1, <2>2
<1> QED BY <1>1, <1>2

\* A step of an execution that holds nothing, before and after.
LEMMA FreeStepKeeps ==
  ASSUME Claims, Batches, NEW e \in Executors,
         \A f \in Executors \ {e} : ex'[f] = ex[f],
         \A t \in Tasks : ex[e].work[t] = "none",
         \A t \in Tasks : ex'[e].work[t] = "none",
         ex'[e].cm = 0,
         abandoned' = abandoned,
         \A t \in Tasks : task'[t].status = "RUNNING" => task'[t] = task[t]
  PROVE  Claims' /\ Batches'
<1>1. \A t \in Tasks : task'[t].status = "RUNNING" =>
        /\ task[t].status = "RUNNING" /\ task'[t].owner = task[t].owner
        /\ t \in abandoned => t \in abandoned'
        /\ ex[e].work[t] # "none" /\ ex[e].xid = task[t].owner =>
             ex'[e].work[t] # "none" /\ ex'[e].xid = ex[e].xid
  OBVIOUS
<1> QED BY <1>1, StepKeeps

\* A change of the task rows alone.
LEMMA RowsKept ==
  ASSUME Claims, Batches, UNCHANGED ex, abandoned \subseteq abandoned',
         \A t \in Tasks : task'[t].status = "RUNNING" =>
           task[t].status = "RUNNING" /\ task'[t].owner = task[t].owner
  PROVE  Claims' /\ Batches'
  BY DEF Claims, Batches

LEMMA CloseRunSlot ==
  ASSUME TypeOK, NEW e \in Executors, NEW status \in Closed, NEW reason, CloseRun(e, status, reason)
  PROVE  /\ ex'[e].pc = "hooks" /\ ex'[e].cm = 0 /\ ex'[e].cmOpen = FALSE /\ ex'[e].xid = ex[e].xid
         /\ \A t \in Tasks : ex'[e].work[t] = "none"
         /\ \A f \in Executors \ {e} : ex'[f] = ex[f]
<1>1. ex' = [ex EXCEPT ![e] = Closing(e, status)]
  BY DEF CloseRun, Closing
<1>2. ex'[e] = Closing(e, status) /\ \A f \in Executors \ {e} : ex'[f] = ex[f]
  BY <1>1 DEF TypeOK
<1>3. \A t \in Tasks : FreeSlot.work[t] = "none"
  BY DEF FreeSlot
<1> QED BY <1>2, <1>3, ClosingIsSlot

LEMMA DecideKeepsClaims ==
  ASSUME TypeOK, Claims, Batches, NEW e \in Executors, Decide(e)
  PROVE  Claims' /\ Batches'
<1>0. /\ ex[e] \in Slots /\ ex[e].pc = "decide" /\ ex[e].cm = 0
      /\ \A t \in Tasks : ex[e].work[t] = "none"
  BY DEF TypeOK, Batches, Decide, Recover, GatePass, GateFail, FinalGateEnds, FinalGateRevises,
         Finish, Wait, DeadEnd, Claim, ExhaustBudget, NoCredential, Scanning
<1>t. /\ Top(ex[e]) \in Slots /\ Top(ex[e]).pc = "top" /\ Top(ex[e]).xid = ex[e].xid
      /\ Top(ex[e]).cm = 0 /\ \A t \in Tasks : Top(ex[e]).work[t] = "none"
  BY <1>0, TopIsSlot
<1>u. task \in [Tasks -> TaskRows] /\ ex \in [Executors -> Slots]
  BY DEF TypeOK
<1>1. CASE Recover(e)
  <2>1. ex'[e] = Top(ex[e]) /\ \A f \in Executors \ {e} : ex'[f] = ex[f]
    BY <1>1, <1>u DEF Recover
  <2>2. task' = Requeued(Seen(e, {"EXPIRED"})) /\ abandoned' = abandoned \ Seen(e, {"EXPIRED"})
    BY <1>1 DEF Recover
  <2>3. \A t \in Tasks : task'[t].status = "RUNNING" => t \notin Seen(e, {"EXPIRED"}) /\ task'[t] = task[t]
    BY <2>2, RequeuedTasks
  <2>4. \A t \in Tasks : task'[t].status = "RUNNING" => (t \in abandoned => t \in abandoned')
    BY <2>2, <2>3
  <2> QED BY <1>0, <1>t, <2>1, <2>3, <2>4, StepKeeps
<1>2. CASE GatePass(e)
  <2>1. ex'[e] = [Top(ex[e]) EXCEPT !.gate = TRUE] /\ \A f \in Executors \ {e} : ex'[f] = ex[f]
    BY <1>2, <1>u DEF GatePass
  <2>2. ex'[e].pc = "top" /\ ex'[e].cm = 0 /\ \A t \in Tasks : ex'[e].work[t] = "none"
    BY <1>t, <2>1 DEF Slots
  <2>3. \A t \in Tasks : task'[t].status = "RUNNING" => task'[t] = task[t]
    BY <1>2, <1>u DEF GatePass, TaskRows
  <2>4. abandoned' = abandoned
    BY <1>2 DEF GatePass, history
  <2> QED BY <1>0, <2>1, <2>2, <2>3, <2>4, FreeStepKeeps
<1>3. CASE GateFail(e) \/ FinalGateEnds(e)
  <2>1. /\ \A f \in Executors \ {e} : ex'[f] = ex[f]
        /\ ex'[e].pc = "decide" /\ ex'[e].cm = 0 /\ ex'[e].work = ex[e].work
    <3>1. CASE GateFail(e)
      BY <1>0, <1>u, <3>1 DEF GateFail, Slots
    <3>2. CASE FinalGateEnds(e)
      BY <1>0, <1>u, <3>2 DEF FinalGateEnds, Slots
    <3> QED BY <1>3, <3>1, <3>2
  <2>2. task' = task /\ abandoned' = abandoned
    BY <1>3 DEF GateFail, FinalGateEnds, history, db
  <2> QED BY <1>0, <2>1, <2>2, FreeStepKeeps
<1>4. CASE FinalGateRevises(e)
  <2>1. ex'[e] = [Top(ex[e]) EXCEPT !.round = ex[e].round + 1] /\ \A f \in Executors \ {e} : ex'[f] = ex[f]
    BY <1>4, <1>u DEF FinalGateRevises
  <2>2. ex'[e].pc = "top" /\ ex'[e].cm = 0 /\ \A t \in Tasks : ex'[e].work[t] = "none"
    BY <1>t, <2>1 DEF Slots
  <2>3. \A t \in Tasks : task'[t].status = "RUNNING" => task'[t] = task[t]
    BY <1>4, RequeuedTasks DEF FinalGateRevises
  <2>4. abandoned' = abandoned
    BY <1>4 DEF FinalGateRevises, history
  <2> QED BY <1>0, <2>1, <2>2, <2>3, <2>4, FreeStepKeeps
<1>5. CASE Finish(e) \/ DeadEnd(e)
  <2>1. \E status \in Closed, reason \in Reasons \cup {run.reason} : CloseRun(e, status, reason)
    BY <1>5 DEF Finish, DeadEnd, Closed, Reasons
  <2>2. task' = task /\ abandoned' = abandoned
    BY <1>5 DEF Finish, DeadEnd, history
  <2>3. ex'[e].cm = 0 /\ (\A t \in Tasks : ex'[e].work[t] = "none")
        /\ \A f \in Executors \ {e} : ex'[f] = ex[f]
    BY <2>1, CloseRunSlot
  <2> QED BY <1>0, <2>2, <2>3, FreeStepKeeps
<1>6. CASE Wait(e)
  <2>1. ex'[e] = Top(ex[e]) /\ \A f \in Executors \ {e} : ex'[f] = ex[f]
    BY <1>6, <1>u DEF Wait
  <2>2. task' = task /\ abandoned' = abandoned
    BY <1>6 DEF Wait, history
  <2> QED BY <1>0, <1>t, <2>1, <2>2, FreeStepKeeps
<1>7. CASE Claim(e)
  <2> DEFINE batch == Won(e) \cap Tried(e)
             work == [t \in Tasks |-> IF t \in batch THEN "calling" ELSE "none"]
  <2>1. /\ ex'[e] = [Top(ex[e]) EXCEPT !.pc = "provider", !.laned = TRUE, !.work = work]
        /\ \A f \in Executors \ {e} : ex'[f] = ex[f]
    BY <1>7, <1>u DEF Claim
  <2>2. \A t \in batch : work[t] # "none"
    BY DEF Won, ReadyTasks, Seen
  <2>3. ex'[e].work = work /\ ex'[e].pc = "provider" /\ ex'[e].cm = 0 /\ ex'[e].xid = ex[e].xid
    <3> HIDE DEF work
    <3> QED BY <1>t, <2>1 DEF Slots
  <2>4. \A t \in Tasks : task'[t] = IF t \in batch THEN Claimed(e, task[t]) ELSE task[t]
    BY <1>7 DEF Claim
  <2>5. \A t \in Tasks : task'[t].status = "RUNNING" =>
          task'[t] = task[t] \/ (work[t] # "none" /\ task'[t].owner = ex[e].xid)
    <3> HIDE DEF work, batch
    <3> QED BY <2>2, <2>4, ClaimedRow
  <2>6. abandoned' = abandoned
    BY <1>7 DEF Claim, history
  <2> HIDE DEF work, batch
  <2>7. \A t \in Tasks : task'[t].status = "RUNNING" =>
          \/ ex'[e].work[t] # "none" /\ ex'[e].xid = task'[t].owner
          \/ /\ task[t].status = "RUNNING" /\ task'[t].owner = task[t].owner
             /\ t \in abandoned => t \in abandoned'
             /\ ex[e].work[t] # "none" /\ ex[e].xid = task[t].owner =>
                  ex'[e].work[t] # "none" /\ ex'[e].xid = ex[e].xid
    BY <1>0, <2>3, <2>5, <2>6
  <2> QED BY <2>1, <2>3, <2>7, StepKeeps
<1>8. CASE ExhaustBudget(e)
  <2>1. CloseRun(e, "BUDGET_EXHAUSTED", "budget") /\ "BUDGET_EXHAUSTED" \in Closed
    BY <1>8 DEF ExhaustBudget, Closed
  <2>2. PICK u : task' = [GivenBack(e, WonBefore(e, u)) EXCEPT ![u].status = "FAILED"]
    BY <1>8 DEF ExhaustBudget
  <2>3. \A t \in Tasks : task'[t].status = "RUNNING" => task'[t] = task[t]
    <3> DEFINE given == GivenBack(e, WonBefore(e, u))
    <3>1. /\ given \in [Tasks -> TaskRows]
          /\ \A t \in Tasks : given[t].status = "RUNNING" => given[t] = task[t]
      BY GivenBackTasks
    <3>2. task' = [given EXCEPT ![u] = [given[u] EXCEPT !.status = "FAILED"]]
      BY <2>2
    <3> HIDE DEF given
    <3> QED BY <3>1, <3>2 DEF TaskRows
  <2>4. abandoned' = abandoned
    BY <1>8 DEF ExhaustBudget, history
  <2>5. ex'[e].cm = 0 /\ (\A t \in Tasks : ex'[e].work[t] = "none")
        /\ \A f \in Executors \ {e} : ex'[f] = ex[f]
    BY <2>1, CloseRunSlot
  <2> QED BY <1>0, <2>3, <2>4, <2>5, FreeStepKeeps
<1>9. CASE NoCredential(e)
  <2>1. CloseRun(e, "FAILED", "credential") /\ "FAILED" \in Closed
    BY <1>9 DEF NoCredential, Closed
  <2>2. \A t \in Tasks : task'[t].status = "RUNNING" => task'[t] = task[t]
    BY <1>9, GivenBackTasks DEF NoCredential
  <2>3. abandoned' = abandoned
    BY <1>9 DEF NoCredential, history
  <2>5. ex'[e].cm = 0 /\ (\A t \in Tasks : ex'[e].work[t] = "none")
        /\ \A f \in Executors \ {e} : ex'[f] = ex[f]
    BY <2>1, CloseRunSlot
  <2> QED BY <1>0, <2>2, <2>3, <2>5, FreeStepKeeps
<1> QED BY <1>1, <1>2, <1>3, <1>4, <1>5, <1>6, <1>7, <1>8, <1>9 DEF Decide

\* The row that a commit settles: no longer RUNNING, and without an owner once
\* it has succeeded.
LEMMA CommitRows ==
  ASSUME TypeOK, NEW e \in Executors, Commit(e)
  PROVE  /\ ex[e].cm # 0 /\ ex[e].cm \in Tasks /\ ex'[e] = Settled(e)
         /\ task'[ex[e].cm].status \notin {"RUNNING", "SKIPPED"}
         /\ task'[ex[e].cm].status = "SUCCEEDED" => task'[ex[e].cm].owner = 0 /\ artifacts'[ex[e].cm] > 0
         /\ \A t \in Tasks : t # ex[e].cm => task'[t] = task[t]
<1>1. ex[e].cm # 0
  BY DEF Commit, CommitReturn, CommitOk, CommitBackoff, CommitRepeat, CommitDegraded, CommitFailed,
         Committing, Retryable, Repeatable, OutOfRetries
<1>2. ex[e].cm \in Tasks /\ task \in [Tasks -> TaskRows]
  BY <1>1, SettledIsSlot DEF TypeOK
<1>3. ex'[e] = Settled(e)
  BY DEF TypeOK, Commit, CommitReturn, CommitOk, CommitBackoff, CommitRepeat, CommitDegraded, CommitFailed
<1>4. /\ task'[ex[e].cm].status \notin {"RUNNING", "SKIPPED"}
      /\ task'[ex[e].cm].status = "SUCCEEDED" => task'[ex[e].cm].owner = 0
      /\ \A t \in Tasks : t # ex[e].cm => task'[t] = task[t]
  <2>1. CASE CommitReturn(e)
    BY <1>2, <2>1, RequeuedTasks DEF CommitReturn
  <2>2. ASSUME NEW s \in {"SUCCEEDED", "FAILED"},
               task' = [task EXCEPT ![ex[e].cm].status = s, ![ex[e].cm].owner = 0]
        PROVE  /\ task'[ex[e].cm].status \notin {"RUNNING", "SKIPPED"}
               /\ task'[ex[e].cm].status = "SUCCEEDED" => task'[ex[e].cm].owner = 0
               /\ \A t \in Tasks : t # ex[e].cm => task'[t] = task[t]
    <3>1. task' = [task EXCEPT ![ex[e].cm] = [task[ex[e].cm] EXCEPT !.status = s, !.owner = 0]]
      BY <2>2
    <3> QED BY <1>2, <3>1 DEF TaskRows
  <2>3. CASE CommitOk(e) \/ CommitFailed(e)
    BY <2>2, <2>3 DEF CommitOk, CommitFailed
  <2>4. CASE CommitDegraded(e)
    BY <2>2, <2>4 DEF CommitDegraded
  <2>5. CASE CommitBackoff(e)
    <3>1. task' = [task EXCEPT ![ex[e].cm] =
                    [task[ex[e].cm] EXCEPT !.status = "PENDING", !.owner = 0, !.waiting = TRUE,
                                           !.retryable = task[ex[e].cm].retryable + 1]]
      BY <2>5 DEF CommitBackoff
    <3> QED BY <1>2, <3>1 DEF TaskRows
  <2>6. CASE CommitRepeat(e)
    <3>1. task' = [task EXCEPT ![ex[e].cm] =
                    [task[ex[e].cm] EXCEPT !.status = "PENDING", !.owner = 0, !.waiting = FALSE]]
      BY <2>6 DEF CommitRepeat
    <3> QED BY <1>2, <3>1 DEF TaskRows
  <2> QED BY <2>1, <2>3, <2>4, <2>5, <2>6 DEF Commit
<1>5. task'[ex[e].cm].status = "SUCCEEDED" => artifacts'[ex[e].cm] > 0
  <2>0. artifacts \in [Tasks -> Nat]
    BY DEF TypeOK
  <2>1. CASE CommitOk(e) \/ CommitDegraded(e)
    <3>1. artifacts' = [artifacts EXCEPT ![ex[e].cm] = artifacts[ex[e].cm] + 1]
      BY <2>1 DEF CommitOk, CommitDegraded
    <3> QED BY <1>2, <2>0, <3>1
  <2>2. CASE CommitReturn(e)
    BY <1>2, <2>2, RequeuedTasks DEF CommitReturn
  <2>3. CASE CommitBackoff(e)
    <3>1. task' = [task EXCEPT ![ex[e].cm] =
                    [task[ex[e].cm] EXCEPT !.status = "PENDING", !.owner = 0, !.waiting = TRUE,
                                           !.retryable = task[ex[e].cm].retryable + 1]]
      BY <2>3 DEF CommitBackoff
    <3> QED BY <1>2, <3>1 DEF TaskRows
  <2>4. CASE CommitRepeat(e)
    <3>1. task' = [task EXCEPT ![ex[e].cm] =
                    [task[ex[e].cm] EXCEPT !.status = "PENDING", !.owner = 0, !.waiting = FALSE]]
      BY <2>4 DEF CommitRepeat
    <3> QED BY <1>2, <3>1 DEF TaskRows
  <2>5. CASE CommitFailed(e)
    <3>1. task' = [task EXCEPT ![ex[e].cm] = [task[ex[e].cm] EXCEPT !.status = "FAILED", !.owner = 0]]
      BY <2>5 DEF CommitFailed
    <3> QED BY <1>2, <3>1 DEF TaskRows
  <2> QED BY <2>1, <2>2, <2>3, <2>4, <2>5 DEF Commit
<1> QED BY <1>1, <1>2, <1>3, <1>4, <1>5

LEMMA CommitKeepsClaims ==
  ASSUME TypeOK, Claims, Batches, NEW e \in Executors, Commit(e)
  PROVE  Claims' /\ Batches'
<1>1. ex[e].cm # 0 /\ ex[e].pc = "calling"
  BY DEF Commit, CommitReturn, CommitOk, CommitBackoff, CommitRepeat, CommitDegraded, CommitFailed,
         Committing, Retryable, Repeatable, OutOfRetries, Batches
<1>2. ex[e].cm \in Tasks /\ task \in [Tasks -> TaskRows] /\ ex[e].work \in [Tasks -> {"none", "calling"} \cup Outcomes]
  BY <1>1, SettledIsSlot DEF TypeOK, Slots
<1>3. ex'[e] = Settled(e) /\ \A f \in Executors \ {e} : ex'[f] = ex[f]
  BY DEF TypeOK, Commit, CommitReturn, CommitOk, CommitBackoff, CommitRepeat, CommitDegraded, CommitFailed
<1>4. /\ ex'[e].pc = "calling" /\ ex'[e].cm = 0 /\ ex'[e].xid = ex[e].xid
      /\ \A t \in Tasks : t # ex[e].cm => ex'[e].work[t] = ex[e].work[t]
  <2>1. /\ Settled(e).pc = ex[e].pc /\ Settled(e).xid = ex[e].xid /\ Settled(e).cm = 0
        /\ Settled(e).work = [ex[e].work EXCEPT ![ex[e].cm] = "none"]
    BY <1>1, SettledIsSlot
  <2> QED BY <1>1, <1>2, <1>3, <2>1
<1>5. abandoned' = abandoned
  BY DEF Commit, CommitReturn, CommitOk, CommitBackoff, CommitRepeat, CommitDegraded, CommitFailed, history
<1>6. /\ task'[ex[e].cm].status # "RUNNING"
      /\ \A t \in Tasks : t # ex[e].cm => task'[t] = task[t]
  BY CommitRows
<1> QED BY <1>4, <1>3, <1>5, <1>6, StepKeeps

LEMMA ExecutionKeepsClaims ==
  ASSUME TypeOK, Claims, Batches, NEW e \in Executors, Execution(e)
  PROVE  Claims' /\ Batches'
<1>0. /\ task \in [Tasks -> TaskRows] /\ ex \in [Executors -> Slots] /\ ex[e] \in Slots
      /\ FreeSlot.cm = 0 /\ FreeSlot.pc = "off" /\ \A t \in Tasks : FreeSlot.work[t] = "none"
  BY DEF TypeOK, FreeSlot
<1>p. ex[e].pc \notin {"provider", "calling"} => ex[e].cm = 0 /\ \A t \in Tasks : ex[e].work[t] = "none"
  BY DEF Batches
\* An execution that only changes its own slot, and keeps what it holds.
<1>1. ASSUME UNCHANGED <<task, abandoned>>, \A f \in Executors \ {e} : ex'[f] = ex[f],
             ex'[e].work = ex[e].work, ex'[e].xid = ex[e].xid, ex'[e].cm = 0,
             ex[e].pc \notin {"provider", "calling"} \/ ex'[e].pc \in {"provider", "calling"}
      PROVE  Claims' /\ Batches'
  <2>1. ex'[e].pc \notin {"provider", "calling"} => \A t \in Tasks : ex'[e].work[t] = "none"
    BY <1>1, <1>p
  <2>2. \A t \in Tasks : task'[t].status = "RUNNING" =>
          /\ task[t].status = "RUNNING" /\ task'[t].owner = task[t].owner
          /\ t \in abandoned => t \in abandoned'
          /\ ex[e].work[t] # "none" /\ ex[e].xid = task[t].owner =>
               ex'[e].work[t] # "none" /\ ex'[e].xid = ex[e].xid
    BY <1>1
  <2> QED BY <1>1, <2>1, <2>2, StepKeeps
\* An execution that drops everything: what it held is abandoned.
<1>2. ASSUME UNCHANGED task, \A f \in Executors \ {e} : ex'[f] = ex[f],
             abandoned' = abandoned \cup Holding(e), ex'[e].cm = 0,
             \A t \in Tasks : ex'[e].work[t] = "none"
      PROVE  Claims' /\ Batches'
  <2>2. \A t \in Tasks : task'[t].status = "RUNNING" =>
          \/ t \in abandoned'
          \/ /\ task[t].status = "RUNNING" /\ task'[t].owner = task[t].owner
             /\ t \in abandoned => t \in abandoned'
             /\ ex[e].work[t] # "none" /\ ex[e].xid = task[t].owner =>
                  ex'[e].work[t] # "none" /\ ex'[e].xid = ex[e].xid
    BY <1>2 DEF Holding
  <2> QED BY <1>2, <2>2, StepKeeps
<1>3. CASE Deliver(e)
  <2>1. PICK x \in mail : ex' = [ex EXCEPT ![e] = [FreeSlot EXCEPT !.pc = "top", !.xid = x]]
    BY <1>3 DEF Deliver
  <2>2. ex'[e].cm = 0 /\ (\A t \in Tasks : ex'[e].work[t] = "none") /\ \A f \in Executors \ {e} : ex'[f] = ex[f]
    BY <1>0, <2>1 DEF FreeSlot
  <2>3. UNCHANGED <<task, abandoned>> /\ \A t \in Tasks : ex[e].work[t] = "none"
    BY <1>3, <1>p DEF Deliver, db, history
  <2> QED BY <2>2, <2>3, FreeStepKeeps
<1>4. CASE Duplicate(e)
  BY <1>4, RowsKept DEF Duplicate, db, history
<1>5. CASE Crash(e)
  <2>1. ex'[e] = FreeSlot /\ \A f \in Executors \ {e} : ex'[f] = ex[f]
    BY <1>0, <1>5 DEF Crash
  <2> QED BY <1>0, <1>2, <1>5, <2>1 DEF Crash, db
<1>6. CASE Read(e)
  <2>1. /\ ex[e].pc = "top" /\ UNCHANGED <<task, abandoned>>
        /\ \A f \in Executors \ {e} : ex'[f] = ex[f]
    BY <1>0, <1>6 DEF Read, db, history
  <2>2. ex'[e] = FreeSlot \/ (ex'[e].work = ex[e].work /\ ex'[e].cm = ex[e].cm)
    <3>1. CASE ex' = [ex EXCEPT ![e] = [ex[e] EXCEPT !.pc = "hooks", !.report = "CANCELLED"]]
      BY <1>0, <3>1 DEF Slots
    <3>2. CASE ex' = [ex EXCEPT ![e] = FreeSlot]
      BY <1>0, <3>2
    <3>3. CASE ex' = [ex EXCEPT ![e] = [ex[e] EXCEPT !.pc = "decide", !.run = run.status,
                                          !.used = run.used, !.seen = [t \in Tasks |-> View(t)]]]
      BY <1>0, <3>3 DEF Slots
    <3> QED BY <1>6, <3>1, <3>2, <3>3 DEF Read
  <2> QED BY <1>0, <1>p, <2>1, <2>2, FreeStepKeeps
<1>7. ASSUME NEW t \in Tasks, Superseded(e, t) \/ HandlerEnds(e, t) PROVE Claims' /\ Batches'
  <2>1. PICK outcome \in Outcomes \cup {"none"} :
          ex' = [ex EXCEPT ![e] = [ex[e] EXCEPT !.work = [ex[e].work EXCEPT ![t] = outcome]]]
    BY <1>7 DEF Superseded, HandlerEnds
  <2>2. /\ \A f \in Executors \ {e} : ex'[f] = ex[f]
        /\ ex'[e].pc = ex[e].pc /\ ex'[e].cm = ex[e].cm /\ ex'[e].xid = ex[e].xid
        /\ ex'[e].work = [ex[e].work EXCEPT ![t] = outcome]
    BY <1>0, <2>1 DEF Slots
  <2>3. ex'[e].work[t] = outcome /\ \A u \in Tasks \ {t} : ex'[e].work[u] = ex[e].work[u]
    BY <1>0, <2>2 DEF Slots
  <2>4. ex[e].pc = "calling" /\ UNCHANGED <<task, abandoned>>
    BY <1>7 DEF Superseded, HandlerEnds, ReadyToCommit, db, history
  <2>5. task[t].owner = ex[e].xid => ex'[e].work[t] # "none"
    BY <1>0, <1>7, <2>2, OutcomesAssumption DEF Superseded, HandlerEnds, Slots
  <2>6. \A u \in Tasks : task'[u].status = "RUNNING" =>
          /\ task[u].status = "RUNNING" /\ task'[u].owner = task[u].owner
          /\ u \in abandoned => u \in abandoned'
          /\ ex[e].work[u] # "none" /\ ex[e].xid = task[u].owner =>
               ex'[e].work[u] # "none" /\ ex'[e].xid = ex[e].xid
    BY <2>2, <2>3, <2>4, <2>5
  <2>7. ex'[e].cm # 0 => ex'[e].work[ex'[e].cm] # "none"
    <3>1. CASE HandlerEnds(e, t)
      <4>1. outcome \in Outcomes => outcome # "none"
        BY OutcomesAssumption
      <4>2. outcome \in Outcomes
        BY <1>0, <2>2, <2>3, <3>1 DEF HandlerEnds, Slots
      <4>3. ex[e].cm # 0 => ex[e].work[ex[e].cm] # "none" /\ ex[e].cm \in Tasks
        BY <1>0 DEF Batches, Slots
      <4> QED BY <2>2, <2>3, <4>1, <4>2, <4>3
    <3>2. CASE Superseded(e, t)
      BY <2>2, <3>2 DEF Superseded, ReadyToCommit
    <3> QED BY <1>7, <3>1, <3>2
  <2> QED BY <2>2, <2>4, <2>6, <2>7, StepKeeps
<1>8. ASSUME NEW t \in Tasks, CommitRead(e, t) PROVE Claims' /\ Batches'
  <2>1. /\ \A f \in Executors \ {e} : ex'[f] = ex[f]
        /\ ex'[e].pc = "calling" /\ ex'[e].xid = ex[e].xid /\ ex'[e].work = ex[e].work
        /\ ex'[e].cm = t
    BY <1>0, <1>8 DEF CommitRead, ReadyToCommit, Slots
  <2>4. ex[e].work[t] # "none"
    BY <1>8, OutcomesAssumption DEF CommitRead, ReadyToCommit
  <2>2. UNCHANGED <<task, abandoned>>
    BY <1>8 DEF CommitRead, db, history
  <2>3. \A u \in Tasks : task'[u].status = "RUNNING" =>
          /\ task[u].status = "RUNNING" /\ task'[u].owner = task[u].owner
          /\ u \in abandoned => u \in abandoned'
          /\ ex[e].work[u] # "none" /\ ex[e].xid = task[u].owner =>
               ex'[e].work[u] # "none" /\ ex'[e].xid = ex[e].xid
    BY <2>1, <2>2
  <2> QED BY <2>1, <2>3, <2>4, StepKeeps
<1>9. CASE BuildProvider(e)
  <2>1. ex' = [ex EXCEPT ![e] = [ex[e] EXCEPT !.pc = "calling", !.built = TRUE]]
    BY <1>9 DEF BuildProvider
  <2>2. ex'[e].pc = "calling" /\ ex'[e].work = ex[e].work /\ ex'[e].xid = ex[e].xid
        /\ ex'[e].cm = ex[e].cm /\ \A f \in Executors \ {e} : ex'[f] = ex[f]
    BY <1>0, <2>1 DEF Slots
  <2>3. ex[e].cm = 0 /\ UNCHANGED <<task, abandoned>>
    BY <1>9 DEF BuildProvider, Batches, db, history
  <2> QED BY <1>1, <2>2, <2>3
<1>10. CASE ProviderRefused(e)
  <2>1. "provider" \in Reasons /\ "FAILED" \in Closed /\ CloseRun(e, "FAILED", "provider")
    BY <1>10 DEF ProviderRefused, Reasons, Closed
  <2>2. ex'[e].cm = 0 /\ (\A t \in Tasks : ex'[e].work[t] = "none")
        /\ \A f \in Executors \ {e} : ex'[f] = ex[f]
    BY <2>1, CloseRunSlot
  <2>3. abandoned' = abandoned
    BY <1>10 DEF ProviderRefused
  <2>4. \A t \in Tasks : task'[t].status = "RUNNING" => task'[t] = task[t] /\ ex[e].work[t] = "none"
    BY <1>10, RequeuedTasks DEF ProviderRefused, Holding
  <2>5. \A t \in Tasks : task'[t].status = "RUNNING" =>
          /\ task[t].status = "RUNNING" /\ task'[t].owner = task[t].owner
          /\ t \in abandoned => t \in abandoned'
          /\ ex[e].work[t] # "none" /\ ex[e].xid = task[t].owner =>
               ex'[e].work[t] # "none" /\ ex'[e].xid = ex[e].xid
    BY <2>3, <2>4
  <2> QED BY <2>2, <2>5, StepKeeps
<1>11. CASE Join(e)
  <2>1. ex' = [ex EXCEPT ![e] = [ex[e] EXCEPT !.pc = "top"]]
    BY <1>11 DEF Join
  <2>2. /\ ex'[e].work = ex[e].work /\ ex'[e].cm = ex[e].cm /\ ex'[e].pc = "top"
        /\ \A f \in Executors \ {e} : ex'[f] = ex[f]
    BY <1>0, <2>1 DEF Slots
  <2>3. (\A t \in Tasks : ex[e].work[t] = "none") /\ UNCHANGED <<task, abandoned>>
    BY <1>11 DEF Join, Holding, db, history
  <2>4. ex[e].cm = 0
    BY <1>0, <2>3 DEF Batches, Slots
  <2> QED BY <2>2, <2>3, <2>4, FreeStepKeeps
<1>12. CASE Hooks(e)
  <2>1. /\ ex'[e] = FreeSlot /\ ex[e].pc = "hooks" /\ UNCHANGED <<task, abandoned>>
        /\ \A f \in Executors \ {e} : ex'[f] = ex[f]
    BY <1>0, <1>12 DEF Hooks, db
  <2> QED BY <1>0, <1>p, <2>1, FreeStepKeeps
<1>13. CASE ExecutorError(e)
  <2>1. PICK s \in {FreeSlot, [FreeSlot EXCEPT !.pc = "hooks", !.xid = ex[e].xid, !.report = "FAILED", !.again = TRUE]} :
          ex' = [ex EXCEPT ![e] = s]
    BY <1>13 DEF ExecutorError
  <2>2. s.cm = 0 /\ \A t \in Tasks : s.work[t] = "none"
    BY <1>0, <2>1 DEF FreeSlot
  <2>3. ex'[e] = s /\ \A f \in Executors \ {e} : ex'[f] = ex[f]
    BY <1>0, <2>1
  <2> QED BY <1>2, <1>13, <2>2, <2>3 DEF ExecutorError
<1> QED
  BY <1>3, <1>4, <1>5, <1>6, <1>7, <1>8, <1>9, <1>10, <1>11, <1>12, <1>13,
     DecideKeepsClaims, CommitKeepsClaims DEF Execution, Proceed

\* What requests and time do to the tasks.
LEMMA OtherRows ==
  ASSUME TypeOK, Next, \A e \in Executors : ~Execution(e)
  PROVE  /\ UNCHANGED <<ex, abandoned, artifacts>>
         /\ \A t \in Tasks : task'[t].status \in {"RUNNING", "SUCCEEDED"} =>
              /\ task[t].status = task'[t].status /\ task'[t].owner = task[t].owner
              /\ task'[t].lease = "live" => task[t].lease = "live"
         /\ \A t \in Tasks : task'[t].status = "SKIPPED" => task[t].status = "SKIPPED"
<1>0. task \in [Tasks -> TaskRows]
  BY DEF TypeOK
<1>1. UNCHANGED <<ex, abandoned, artifacts>>
  BY DEF Next, Control, Probe, Sweep, Clock, CreateRun, ControlRead, Pause, Cancel, Resume, RetryRun,
         RetryTask, Enqueue, EnqueueFails, RequestDies, ProbeScan, ProbeSucceeds, ProbeFails,
         ProbeEnqueue, ProbeEnqueueFails, SweepRead, SweepWrite, SweepHooks, ExpireLease,
         BackoffElapses, history
<1> DEFINE Kept == \A t \in Tasks : task'[t].status \in {"RUNNING", "SUCCEEDED"} =>
                     /\ task[t].status = task'[t].status /\ task'[t].owner = task[t].owner
                     /\ task'[t].lease = "live" => task[t].lease = "live"
           Still == \A t \in Tasks : task'[t].status = "SKIPPED" => task[t].status = "SKIPPED"
<1>2. ASSUME NEW c \in Clients, RetryRun(c) PROVE Kept /\ Still
  BY <1>0, <1>2 DEF RetryRun, TaskRows
<1>3. ASSUME NEW c \in Clients, NEW u \in Tasks, RetryTask(c, u) PROVE Kept /\ Still
  <2>1. task' = [task EXCEPT ![u] = [task[u] EXCEPT !.status = "PENDING", !.attempts = task[u].attempts + 1]]
    BY <1>3 DEF RetryTask
  <2> QED BY <1>0, <2>1 DEF TaskRows
<1>4. ASSUME NEW u \in Tasks, ExpireLease(u) PROVE Kept /\ Still
  <2>1. task' = [task EXCEPT ![u] = [task[u] EXCEPT !.lease = "expired"]]
    BY <1>4 DEF ExpireLease
  <2> QED BY <1>0, <2>1 DEF TaskRows
<1>5. ASSUME NEW u \in Tasks, BackoffElapses(u) PROVE Kept /\ Still
  <2>1. task' = [task EXCEPT ![u] = [task[u] EXCEPT !.waiting = FALSE]]
    BY <1>5 DEF BackoffElapses
  <2> QED BY <1>0, <2>1 DEF TaskRows
<1>6. CASE UNCHANGED task
  BY <1>1, <1>6
<1>8. CASE \E c \in Clients : QuietButClient(c) /\ (RetryRun(c) \/ \E u \in Tasks : RetryTask(c, u))
  BY <1>1, <1>2, <1>3, <1>8
<1>9. CASE \E u \in Tasks : Clock(u)
  BY <1>1, <1>4, <1>5, <1>9 DEF Clock
<1> HIDE DEF Kept, Still
<1> QED
  BY <1>6, <1>8, <1>9
     DEF Next, Control, Probe, Sweep, CreateRun, ControlRead, Pause, Cancel, Resume, Enqueue,
         EnqueueFails, RequestDies, ProbeScan, ProbeSucceeds, ProbeFails, ProbeEnqueue,
         ProbeEnqueueFails, SweepRead, SweepWrite, SweepHooks, db

LEMMA OtherKeepsClaims ==
  ASSUME TypeOK, Claims, Batches, Next, \A e \in Executors : ~Execution(e)
  PROVE  Claims' /\ Batches'
<1>1. UNCHANGED ex /\ abandoned' = abandoned
  BY OtherRows
<1>2. \A t \in Tasks : task'[t].status = "RUNNING" =>
        task[t].status = "RUNNING" /\ task'[t].owner = task[t].owner
  BY OtherRows
<1> QED BY <1>1, <1>2, RowsKept

LEMMA ClaimsStep == TypeOK /\ Claims /\ Batches /\ [Next]_vars => Claims' /\ Batches'
<1>1. Claims /\ Batches /\ UNCHANGED vars => Claims' /\ Batches'
  BY DEF Claims, Batches, vars, db, history
<1> QED BY <1>1, ExecutionKeepsClaims, OtherKeepsClaims

\* A task is RUNNING only while an execution holds it, or because the one that
\* held it died: every branch of execute_run that gives up a batch gives its
\* tasks back.
THEOREM BatchesAreGivenBack == Spec => []NothingLeftClaimed
<1>1. Init => Claims /\ Batches
  BY DEF Init, Claims, Batches, FreeSlot
<1>2. Claims => NothingLeftClaimed
  BY DEF Claims, NothingLeftClaimed, Holding
<1> QED BY <1>1, <1>2, ClaimsStep, TypeCorrect, PTL DEF Spec
-----------------------------------------------------------------------------
(* Driving and closing the run *)

Active == {"PENDING", "RUNNING"}

\* Nothing is sent for a run that does not exist yet.
Unborn ==
  run.status = "ABSENT" =>
    /\ mail = {} /\ probe = "idle"
    /\ \A e \in Executors : ex[e].pc = "off"
    /\ \A c \in Clients : ctl[c].step # "queue"

\* The prober looks at runs that have been started.
Probed == probe # "idle" => run.status # "PENDING"

\* What a request has read is a status it may act on.
Requested ==
  \A c \in Clients :
    /\ ctl[c].step # "idle" => ctl[c].back \notin {"ABSENT", "COMPLETED", "CANCELLED"}
    /\ ctl[c].step = "queue" \/ (ctl[c].step = "read" /\ ctl[c].act \in {"resume", "retry"}) =>
         ctl[c].back \notin Active

\* An execution decides about a run it has read as active.
Decided == \A e \in Executors : ex[e].pc = "decide" => ex[e].run \in Active

Life == ActiveIsDriven /\ Unborn /\ Probed /\ Requested /\ Decided

\* What a step of an execution does to the run, and what it takes to do it.
Effect(e) ==
  /\ UNCHANGED <<ctl, probe>>
  /\ \A f \in Executors \ {e} : ex'[f] = ex[f]
  /\ run'.status \in {run.status, "RUNNING", "PAUSED"} \cup (Closed \ {"CANCELLED"})
  /\ ex[e].pc = "off" => mail # {}
  /\ ex'[e].pc = "decide" => ex'[e].run \in Active
  /\ crashes > 0 => crashes' > 0
  /\ \/ run'.status \notin Active \/ ex'[e].pc \notin {"off", "hooks"}
     \/ mail' # {} \/ crashes' > 0
     \/ ex[e].pc = "hooks" /\ mail' = mail /\ run'.status = run.status
  /\ \/ run'.status = run.status \/ run.status \in Active
     \/ ex[e].pc = "decide" /\ ex[e].run \in Active
     \/ ex[e].cm # 0 /\ ex[e].cmOpen
     \/ ex[e].pc = "provider" /\ ~ex[e].built

LEMMA DecideEffect ==
  ASSUME TypeOK, Life, NEW e \in Executors, Decide(e)
  PROVE  Effect(e)
<1>0. /\ ex[e] \in Slots /\ ex[e].pc = "decide" /\ ex[e].run \in Active
  BY DEF Life, Decided, TypeOK, Decide, Recover, GatePass, GateFail, FinalGateEnds, FinalGateRevises,
         Finish, Wait, DeadEnd, Claim, ExhaustBudget, NoCredential, Scanning
<1>t. Top(ex[e]) \in Slots /\ Top(ex[e]).pc = "top"
  BY <1>0, TopIsSlot
<1>u. ex \in [Executors -> Slots] /\ run \in RunRows
  BY DEF TypeOK
<1>1. UNCHANGED <<ctl, probe, crashes>>
  BY DEF Decide, Recover, GatePass, GateFail, FinalGateEnds, FinalGateRevises,
         Finish, Wait, DeadEnd, Claim, ExhaustBudget, NoCredential, api, bounds
\* A branch that goes on.
<1>2. ASSUME \A f \in Executors \ {e} : ex'[f] = ex[f], ex'[e].pc \in {"top", "decide", "provider"},
             run'.status \in {run.status, "RUNNING"},
             ex'[e].pc = "decide" => ex'[e].run \in Active
      PROVE  Effect(e)
  BY <1>0, <1>1, <1>2 DEF Effect
\* A branch that closes the run.
<1>3. ASSUME NEW status \in Closed \ {"CANCELLED"}, NEW reason, CloseRun(e, status, reason)
      PROVE  Effect(e)
  <2>1. ex'[e].pc = "hooks" /\ \A f \in Executors \ {e} : ex'[f] = ex[f]
    BY <1>3, CloseRunSlot
  <2>2. run'.status = status
    BY <1>3, <1>u DEF CloseRun, RunRows
  <2> QED BY <1>0, <1>1, <2>1, <2>2 DEF Effect, Closed, Active
<1>4. Started(e).status \in {run.status, "RUNNING"}
  BY <1>u DEF Started, RunRows
<1>5. CASE Recover(e) \/ Wait(e)
  BY <1>2, <1>4, <1>5, <1>t, <1>u DEF Recover, Wait
<1>6. CASE GatePass(e)
  BY <1>2, <1>4, <1>6, <1>t, <1>u DEF GatePass, Slots
<1>7. CASE FinalGateRevises(e)
  BY <1>2, <1>4, <1>7, <1>t, <1>u DEF FinalGateRevises, Slots
<1>8. CASE GateFail(e)
  BY <1>0, <1>2, <1>8, <1>u DEF GateFail, Slots, db
<1>9. CASE FinalGateEnds(e)
  BY <1>0, <1>2, <1>4, <1>9, <1>u DEF FinalGateEnds, Slots, Active
<1>10. CASE Claim(e)
  <2>1. run'.status = Started(e).status
    BY <1>10, StartedIsRun DEF Claim, RunRows
  <2>2. PICK work : ex' = [ex EXCEPT ![e] = [Top(ex[e]) EXCEPT !.pc = "provider", !.laned = TRUE, !.work = work]]
    BY <1>10 DEF Claim
  <2>3. ex'[e].pc = "provider" /\ \A f \in Executors \ {e} : ex'[f] = ex[f]
    BY <1>t, <1>u, <2>2 DEF Slots
  <2> QED BY <1>2, <1>4, <2>1, <2>3
<1>11. CASE Finish(e)
  BY <1>3, <1>11 DEF Finish, Closed
<1>12. CASE DeadEnd(e) \/ ExhaustBudget(e) \/ NoCredential(e)
  BY <1>3, <1>12 DEF DeadEnd, ExhaustBudget, NoCredential, Closed
<1> QED BY <1>5, <1>6, <1>7, <1>8, <1>9, <1>10, <1>11, <1>12 DEF Decide

LEMMA CommitEffect ==
  ASSUME TypeOK, Batches, NEW e \in Executors, Commit(e)
  PROVE  Effect(e)
<1>1. ex[e].cm # 0 /\ ex[e].pc = "calling"
  BY DEF Commit, CommitReturn, CommitOk, CommitBackoff, CommitRepeat, CommitDegraded, CommitFailed,
         Committing, Retryable, Repeatable, OutOfRetries, Batches
<1>2. ex'[e] = Settled(e) /\ \A f \in Executors \ {e} : ex'[f] = ex[f]
  BY DEF TypeOK, Commit, CommitReturn, CommitOk, CommitBackoff, CommitRepeat, CommitDegraded, CommitFailed
<1>3. ex'[e].pc = "calling"
  BY <1>1, <1>2, SettledIsSlot
<1>4. UNCHANGED <<ctl, probe, crashes>>
  BY DEF Commit, CommitReturn, CommitOk, CommitBackoff, CommitRepeat, CommitDegraded, CommitFailed,
         api, bounds
<1>5. run'.status \in {run.status, "PAUSED"}
  BY DEF TypeOK, RunRows, Commit, CommitReturn, CommitOk, CommitBackoff, CommitRepeat, CommitDegraded,
         CommitFailed
<1>6. run'.status = run.status \/ ex[e].cmOpen
  BY DEF Commit, CommitReturn, CommitOk, CommitBackoff, CommitRepeat, CommitDegraded, CommitFailed,
         Committing, Retryable, Repeatable, OutOfRetries
<1> QED BY <1>1, <1>2, <1>3, <1>4, <1>5, <1>6 DEF Effect

LEMMA ExecutionEffect ==
  ASSUME TypeOK, Batches, Life, NEW e \in Executors, Execution(e)
  PROVE  Effect(e)
<1>0. /\ ex \in [Executors -> Slots] /\ ex[e] \in Slots /\ run \in RunRows /\ crashes \in Nat
      /\ run.status \in RunStatuses
  BY RunParts DEF TypeOK
<1>1. CASE Deliver(e)
  <2>1. PICK x \in mail : ex' = [ex EXCEPT ![e] = [FreeSlot EXCEPT !.pc = "top", !.xid = x]]
    BY <1>1 DEF Deliver
  <2>2. ex'[e].pc = "top" /\ mail # {} /\ \A f \in Executors \ {e} : ex'[f] = ex[f]
    BY <1>0, <2>1 DEF FreeSlot
  <2> QED BY <1>1, <2>2 DEF Deliver, Effect, db, api, bounds
<1>2. CASE Duplicate(e)
  <2>1. mail' # {} /\ UNCHANGED <<ex, ctl, probe, run, crashes>> /\ ex[e].pc # "off"
    BY <1>2 DEF Duplicate, api, db
  <2> QED BY <2>1 DEF Effect, Life, Decided
<1>3. CASE Crash(e)
  <2>1. crashes' > 0
    BY <1>0, <1>3 DEF Crash
  <2>2. ex'[e] = FreeSlot /\ \A f \in Executors \ {e} : ex'[f] = ex[f]
    BY <1>0, <1>3 DEF Crash
  <2> QED BY <1>3, <2>1, <2>2 DEF Crash, Effect, FreeSlot, db, api
<1>4. CASE Read(e)
  <2>1. UNCHANGED <<run, mail, crashes, ctl, probe>> /\ ex[e].pc = "top"
    BY <1>4 DEF Read, db, api, queue, bounds
  <2>2. run.status # "ABSENT"
    BY <2>1 DEF Life, Unborn
  <2>3. CASE run.status \notin Active /\ (\A f \in Executors \ {e} : ex'[f] = ex[f]) /\ ex'[e].pc # "decide"
    BY <2>1, <2>3 DEF Effect
  <2>4. CASE run.status \in Active
    <3>1. ex' = [ex EXCEPT ![e] = [ex[e] EXCEPT !.pc = "decide", !.run = run.status, !.used = run.used,
                                                !.seen = [t \in Tasks |-> View(t)]]]
      BY <1>4, <2>4 DEF Read, Active
    <3>2. ex'[e].pc = "decide" /\ ex'[e].run = run.status /\ \A f \in Executors \ {e} : ex'[f] = ex[f]
      BY <1>0, <3>1 DEF Slots
    <3> QED BY <2>1, <2>4, <3>2 DEF Effect
  <2>5. ASSUME run.status \notin Active
        PROVE  (\A f \in Executors \ {e} : ex'[f] = ex[f]) /\ ex'[e].pc # "decide"
    <3>1. CASE run.status = "CANCELLED"
      <4>1. ex' = [ex EXCEPT ![e] = [ex[e] EXCEPT !.pc = "hooks", !.report = "CANCELLED"]]
        BY <1>4, <3>1 DEF Read
      <4> QED BY <1>0, <4>1 DEF Slots
    <3>2. CASE run.status # "CANCELLED"
      <4>1. ex' = [ex EXCEPT ![e] = FreeSlot]
        BY <1>4, <2>2, <2>5, <3>2 DEF Read, Active
      <4> QED BY <1>0, <4>1 DEF FreeSlot
    <3> QED BY <3>1, <3>2
  <2> QED BY <2>3, <2>4, <2>5
\* The steps inside a batch.
<1>5. ASSUME UNCHANGED <<run, ctl, probe, crashes>>, ex[e].pc \in {"provider", "calling"},
             ex'[e].pc \in {"top", "calling"}, \A f \in Executors \ {e} : ex'[f] = ex[f]
      PROVE  Effect(e)
  BY <1>5 DEF Effect
<1>6. ASSUME NEW t \in Tasks, Superseded(e, t) \/ HandlerEnds(e, t) \/ CommitRead(e, t) PROVE Effect(e)
  <2>1. /\ ex'[e].pc = ex[e].pc /\ ex[e].pc = "calling" /\ \A f \in Executors \ {e} : ex'[f] = ex[f]
    <3>1. CASE Superseded(e, t) \/ HandlerEnds(e, t)
      <4>1. PICK outcome : ex' = [ex EXCEPT ![e] = [ex[e] EXCEPT !.work = [ex[e].work EXCEPT ![t] = outcome]]]
        BY <3>1 DEF Superseded, HandlerEnds
      <4> QED BY <1>0, <3>1, <4>1 DEF Slots, Superseded, HandlerEnds, ReadyToCommit
    <3>2. CASE CommitRead(e, t)
      BY <1>0, <3>2 DEF CommitRead, ReadyToCommit, Slots
    <3> QED BY <1>6, <3>1, <3>2
  <2>2. UNCHANGED <<run, ctl, probe, crashes>>
    BY <1>6 DEF Superseded, HandlerEnds, CommitRead, db, api, bounds
  <2> QED BY <1>5, <2>1, <2>2
<1>7. CASE BuildProvider(e)
  <2>1. ex' = [ex EXCEPT ![e] = [ex[e] EXCEPT !.pc = "calling", !.built = TRUE]]
    BY <1>7 DEF BuildProvider
  <2>2. ex'[e].pc = "calling" /\ \A f \in Executors \ {e} : ex'[f] = ex[f]
    BY <1>0, <2>1 DEF Slots
  <2> QED BY <1>5, <1>7, <2>2 DEF BuildProvider, db, api, bounds
<1>8. CASE ProviderRefused(e)
  <2>1. ex'[e].pc = "hooks" /\ \A f \in Executors \ {e} : ex'[f] = ex[f]
    BY <1>8, CloseRunSlot DEF ProviderRefused, Closed
  <2>2. run'.status = "FAILED"
    BY <1>0, <1>8 DEF ProviderRefused, CloseRun, RunRows
  <2> QED BY <1>8, <2>1, <2>2 DEF Effect, ProviderRefused, Active, Closed, api
<1>9. CASE Join(e)
  <2>1. ex' = [ex EXCEPT ![e] = [ex[e] EXCEPT !.pc = "top"]]
    BY <1>9 DEF Join
  <2>2. ex'[e].pc = "top" /\ \A f \in Executors \ {e} : ex'[f] = ex[f]
    BY <1>0, <2>1 DEF Slots
  <2> QED BY <1>5, <1>9, <2>2 DEF Join, db, api, bounds
<1>10. CASE Hooks(e)
  <2>1. ex'[e].pc = "off" /\ \A f \in Executors \ {e} : ex'[f] = ex[f]
    BY <1>0, <1>10 DEF Hooks, FreeSlot
  <2>2. ex[e].pc = "hooks" /\ UNCHANGED <<run, ctl, probe, crashes>> /\ (mail' = mail \/ mail' # {})
    BY <1>10 DEF Hooks, db, api, bounds
  <2> QED BY <2>1, <2>2 DEF Effect
<1>11. CASE ExecutorError(e)
  <2>1. ex[e].pc # "off" /\ UNCHANGED <<ctl, probe, crashes>>
    BY <1>11 DEF ExecutorError, api
  <2>2. CASE run.status \in Active
    <3>1. ex' = [ex EXCEPT ![e] = [FreeSlot EXCEPT !.pc = "hooks", !.xid = ex[e].xid,
                                             !.report = "FAILED", !.again = TRUE]]
      BY <1>11, <2>2 DEF ExecutorError, Active
    <3>2. ex'[e].pc = "hooks" /\ \A f \in Executors \ {e} : ex'[f] = ex[f]
      BY <1>0, <3>1 DEF FreeSlot
    <3>3. run'.status = "FAILED"
      BY <1>0, <1>11, <2>2 DEF ExecutorError, Active, RunRows
    <3> QED BY <2>1, <2>2, <3>2, <3>3 DEF Effect, Active, Closed
  <2>3. CASE run.status \notin Active
    <3>1. ex' = [ex EXCEPT ![e] = FreeSlot] /\ mail' # {} /\ run' = run
      BY <1>11, <2>3 DEF ExecutorError, Active
    <3>2. ex'[e].pc = "off" /\ \A f \in Executors \ {e} : ex'[f] = ex[f]
      BY <1>0, <3>1 DEF FreeSlot
    <3> QED BY <2>1, <3>1, <3>2 DEF Effect
  <2> QED BY <2>2, <2>3
<1> QED
  BY <1>1, <1>2, <1>3, <1>4, <1>6, <1>7, <1>8, <1>9, <1>10, <1>11, DecideEffect, CommitEffect
     DEF Execution, Proceed

LEMMA EffectKeepsLife ==
  ASSUME TypeOK, Life, NEW e \in Executors, Effect(e)
  PROVE  Life'
<1>1. run.status # "ABSENT"
  BY DEF Effect, Life, Unborn
<1>2. run'.status # "ABSENT" /\ (run'.status = "PENDING" => run.status = "PENDING")
  BY <1>1 DEF Effect, Closed
<1>3. Unborn' /\ Probed' /\ Requested'
  BY <1>2 DEF Effect, Life, Unborn, Probed, Requested
<1>4. Decided'
  BY DEF Effect, Life, Decided
<1>5. ActiveIsDriven'
  <2> SUFFICES ASSUME run'.status \in Active, mail' = {}, ~(crashes' > 0), ex'[e].pc \in {"off", "hooks"}
               PROVE  \/ \E f \in Executors : ex'[f].pc \notin {"off", "hooks"}
                      \/ probe' = "queue" \/ \E c \in Clients : ctl'[c].step = "queue"
    BY DEF ActiveIsDriven, Active
  <2>1. ex[e].pc = "hooks" /\ mail = {} /\ run.status \in Active /\ ~(crashes > 0)
    BY DEF Effect
  <2>2. \/ \E f \in Executors : ex[f].pc \notin {"off", "hooks"}
        \/ probe = "queue" \/ \E c \in Clients : ctl[c].step = "queue"
    BY <2>1 DEF Life, ActiveIsDriven, Active
  <2> QED BY <2>1, <2>2 DEF Effect
<1> QED BY <1>3, <1>4, <1>5 DEF Life

\* Requests, the prober and the sweeper: what each writes to the run.
LEMMA OtherKeepsLife ==
  ASSUME TypeOK, Life, Next, \A e \in Executors : ~Execution(e)
  PROVE  Life'
<1>0. run \in RunRows /\ ctl \in [Clients -> Requests] /\ crashes \in Nat /\ sent \in Nat
  BY DEF TypeOK
<1>e. UNCHANGED ex
  BY DEF Next, Control, Probe, Sweep, Clock, CreateRun, ControlRead, Pause, Cancel, Resume, RetryRun,
         RetryTask, Enqueue, EnqueueFails, RequestDies, ProbeScan, ProbeSucceeds, ProbeFails,
         ProbeEnqueue, ProbeEnqueueFails, SweepRead, SweepWrite, SweepHooks, ExpireLease, BackoffElapses
<1>d. Decided'
  BY <1>e DEF Life, Decided
\* Steps that leave the run's status and the requests alone.
<1>1. ASSUME run'.status = run.status, UNCHANGED <<ctl, mail, crashes>>, probe' = probe
      PROVE  Life'
  BY <1>d, <1>e, <1>1 DEF Life, ActiveIsDriven, Unborn, Probed, Requested
\* Steps that move the run to a status at rest.
<1>2. ASSUME run'.status \notin Active \cup {"ABSENT"}, Requested' PROVE Life'
  BY <1>d, <1>2 DEF Life, ActiveIsDriven, Unborn, Probed, Active
<1>3. ASSUME NEW c \in Clients, CreateRun(c) PROVE Life'
  <2>1. run.status = "ABSENT" /\ run'.status = "PENDING" /\ probe' = probe /\ probe = "idle"
    BY <1>0, <1>3 DEF CreateRun, RunRows, Life, Unborn
  <2>2. ctl' = [ctl EXCEPT ![c] = [step |-> "queue", act |-> "create", back |-> "FAILED"]]
    BY <1>3 DEF CreateRun, QueueStep
  <2>3. Requested' /\ ctl'[c].step = "queue"
    BY <1>0, <2>2 DEF Life, Requested, Active
  <2> QED BY <1>d, <2>1, <2>3 DEF Life, ActiveIsDriven, Unborn, Probed
<1>4. ASSUME NEW c \in Clients, ControlRead(c) PROVE Life'
  <2>1. PICK act \in {"pause", "resume", "cancel", "retry"} :
          /\ run.status \in Allowed(act)
          /\ ctl' = [ctl EXCEPT ![c] = [step |-> "read", act |-> act, back |-> run.status]]
    BY <1>4 DEF ControlRead
  <2>2. /\ run.status \notin {"ABSENT", "COMPLETED", "CANCELLED"}
        /\ act \in {"resume", "retry"} => run.status \notin Active
    BY <2>1 DEF Allowed, Active
  <2>3. Requested'
    BY <1>0, <2>1, <2>2 DEF Life, Requested
  <2>4. UNCHANGED <<run, probe, mail, crashes>> /\ ctl[c].step = "idle"
    BY <1>4 DEF ControlRead, db, queue
  <2>5. \A d \in Clients : ctl[d].step = "queue" => ctl'[d].step = "queue"
    BY <1>0, <2>1, <2>4
  <2>6. ActiveIsDriven' /\ Unborn' /\ Probed'
    BY <1>e, <2>2, <2>4, <2>5 DEF Life, ActiveIsDriven, Unborn, Probed
  <2> QED BY <1>d, <2>3, <2>6 DEF Life
<1>5. ASSUME NEW c \in Clients, RequestEnds(c) PROVE Requested'
  BY <1>0, <1>5 DEF RequestEnds, IdleRequest, Life, Requested, Active
<1>6. ASSUME NEW c \in Clients, Pause(c) \/ Cancel(c) PROVE Life'
  <2>1. run'.status \in {"PAUSED", "CANCELLED"}
    BY <1>0, <1>6 DEF Pause, Cancel, RunRows
  <2> QED BY <1>2, <1>5, <1>6, <2>1 DEF Pause, Cancel, Active
<1>7. ASSUME NEW c \in Clients, Resume(c) \/ RetryRun(c) \/ \E t \in Tasks : RetryTask(c, t)
      PROVE Life'
  <2>1. run'.status = "RUNNING" /\ UNCHANGED <<probe, ex>>
    BY <1>0, <1>7 DEF Resume, RetryRun, RetryTask, Reopened, RunRows
  <2>2. \E a : ctl' = [ctl EXCEPT ![c] = [step |-> "queue", act |-> a, back |-> ctl[c].back]]
    BY <1>7 DEF Resume, RetryRun, RetryTask, QueueStep
  <2>3. ctl[c].step = "read" /\ ctl[c].act \in {"resume", "retry"}
    BY <1>7 DEF Resume, RetryRun, RetryTask, Writing
  <2>4. Requested' /\ ctl'[c].step = "queue"
    BY <1>0, <2>2, <2>3 DEF Life, Requested
  <2> QED BY <1>d, <2>1, <2>4 DEF Life, ActiveIsDriven, Unborn, Probed
<1>8. ASSUME NEW c \in Clients, Enqueue(c) PROVE Life'
  <2>1. mail' # {} /\ UNCHANGED <<run, probe>> /\ ctl[c].step = "queue"
    BY <1>8 DEF Enqueue, db
  <2>2. run.status # "ABSENT"
    BY <2>1 DEF Life, Unborn
  <2>3. Requested'
    BY <1>5, <1>8 DEF Enqueue
  <2>4. ActiveIsDriven'
    BY <2>1 DEF ActiveIsDriven
  <2>5. Unborn' /\ Probed'
    BY <2>1, <2>2 DEF Life, Unborn, Probed
  <2> QED BY <1>d, <2>3, <2>4, <2>5 DEF Life
<1>9. ASSUME NEW c \in Clients, EnqueueFails(c) PROVE Life'
  <2>1. run'.status = ctl[c].back /\ ctl[c].step = "queue"
    BY <1>0, <1>9 DEF EnqueueFails, RunRows
  <2>2. run'.status \notin Active \cup {"ABSENT"}
    BY <2>1 DEF Life, Requested
  <2> QED BY <1>2, <1>5, <1>9, <2>2 DEF EnqueueFails
<1>10. ASSUME NEW c \in Clients, RequestDies(c) PROVE Life'
  <2>1. crashes' > 0 /\ UNCHANGED <<run, probe, mail>>
    BY <1>0, <1>10 DEF RequestDies, db, queue
  <2> QED BY <1>5, <1>10, <1>d, <1>e, <2>1 DEF RequestDies, Life, ActiveIsDriven, Unborn, Probed
<1>11. CASE ProbeScan
  BY <1>d, <1>e, <1>11 DEF ProbeScan, Life, ActiveIsDriven, Unborn, Probed, Requested, db, queue, bounds
<1>12. CASE ProbeSucceeds
  <2>1. UNCHANGED <<ctl, mail, crashes, ex>> /\ probe = "probing"
    BY <1>12 DEF ProbeSucceeds, queue, bounds
  <2>2. run'.status \in {run.status, "RUNNING"} /\ (run'.status = run.status \/ probe' = "queue")
    BY <1>0, <1>12 DEF ProbeSucceeds, RunRows
  <2> QED BY <1>d, <2>1, <2>2 DEF Life, ActiveIsDriven, Unborn, Probed, Requested
<1>13. CASE ProbeFails
  <2>1. UNCHANGED <<ctl, mail, crashes, ex>> /\ run'.status = run.status /\ probe = "probing" /\ probe' = "idle"
    BY <1>0, <1>13 DEF ProbeFails, queue, bounds, RunRows
  <2> QED BY <1>d, <2>1 DEF Life, ActiveIsDriven, Unborn, Probed, Requested
<1>14. CASE ProbeEnqueue
  <2>1. UNCHANGED <<run, ctl, ex>> /\ probe = "queue" /\ probe' = "idle" /\ mail' # {}
    BY <1>14 DEF ProbeEnqueue, db
  <2> QED BY <1>d, <2>1 DEF Life, ActiveIsDriven, Unborn, Probed, Requested
<1>15. CASE ProbeEnqueueFails
  <2>1. UNCHANGED <<ctl, ex, mail>> /\ probe = "queue" /\ probe' = "idle"
    BY <1>15 DEF ProbeEnqueueFails, queue
  <2>2. run.status \notin {"ABSENT", "PENDING"}
    BY <2>1 DEF Life, Unborn, Probed
  <2>3. run'.status \notin Active \cup {"ABSENT"}
    BY <1>0, <1>15, <2>2 DEF ProbeEnqueueFails, RunRows, Active
  <2>4. Requested'
    BY <2>1 DEF Life, Requested
  <2> QED BY <1>2, <2>3, <2>4
<1>16. CASE SweepRead \/ SweepHooks
  BY <1>1, <1>16 DEF SweepRead, SweepHooks, db, queue, bounds
<1>17. CASE SweepWrite
  <2>1. run'.status = "FAILED" /\ UNCHANGED ctl
    BY <1>0, <1>17 DEF SweepWrite, RunRows
  <2>2. Requested'
    BY <2>1 DEF Life, Requested
  <2> QED BY <1>2, <2>1, <2>2 DEF Active
<1>18. ASSUME NEW t \in Tasks, Clock(t) PROVE Life'
  <2>1. UNCHANGED <<run, ctl, mail, crashes, probe>>
    BY <1>18 DEF Clock, ExpireLease, BackoffElapses, api, queue, bounds
  <2> QED BY <1>1, <2>1
<1> QED
  BY <1>3, <1>4, <1>6, <1>7, <1>8, <1>9, <1>10, <1>11, <1>12, <1>13, <1>14, <1>15, <1>16, <1>17, <1>18
     DEF Next, Control, Probe, Sweep

LEMMA LifeStep == TypeOK /\ Batches /\ Life /\ [Next]_vars => Life'
<1>1. Life /\ UNCHANGED vars => Life'
  BY DEF Life, ActiveIsDriven, Unborn, Probed, Requested, Decided, vars, db, api, queue, bounds
<1> QED BY <1>1, ExecutionEffect, EffectKeepsLife, OtherKeepsLife

LEMMA InvariantsHold == Spec => [](TypeOK /\ Claims /\ Batches /\ Life)
<1>1. Init => Claims /\ Batches /\ Life
  BY DEF Init, Claims, Batches, Life, ActiveIsDriven, Unborn, Probed, Requested, Decided, FreeSlot,
         IdleRequest
<1> QED BY <1>1, TypeInit, TypeStep, ClaimsStep, LifeStep, PTL DEF Spec

\* A run that is to be executed has a message waiting, an execution that will
\* look at it again, or a writer about to enqueue it, unless the process that
\* was to enqueue it died: no branch of the executor, no request and no probe
\* leaves an active run to nobody.
THEOREM ActiveRunsAreDriven == Spec => []ActiveIsDriven
  BY InvariantsHold, PTL DEF Life

\* A COMPLETED or CANCELLED run changes status only by a transaction that read
\* it before it was closed, by a request that takes its own change back, or by
\* an execution that cannot build its provider.
LEMMA FinalStep ==
  TypeOK /\ Batches /\ Life /\ [Next]_vars =>
    (run.status \in {"COMPLETED", "CANCELLED"} /\ run'.status # run.status => StaleWriter)
<1> SUFFICES ASSUME TypeOK, Batches, Life, [Next]_vars, run.status \in {"COMPLETED", "CANCELLED"},
                    run'.status # run.status
             PROVE  StaleWriter
  OBVIOUS
<1>0. run \in RunRows
  BY DEF TypeOK
<1>1. ASSUME NEW e \in Executors, Execution(e) PROVE StaleWriter
  <2>1. Effect(e)
    BY <1>1, ExecutionEffect
  <2> QED BY <2>1 DEF Effect, StaleWriter, Active
<1>2. ASSUME NEW c \in Clients, ctl[c].step # "idle" PROVE StaleWriter
  BY <1>2 DEF StaleWriter, Life, Requested
<1>3. CASE SweepWrite
  BY <1>3 DEF SweepWrite, StaleWriter
<1>4. ASSUME NEW c \in Clients, Control(c) \/ Enqueue(c) PROVE ctl[c].step # "idle"
  BY <1>4 DEF Control, CreateRun, ControlRead, Pause, Cancel, Resume, RetryRun, RetryTask, Writing,
              Enqueue, EnqueueFails, RequestDies, db
<1>5. CASE Probe \/ ProbeEnqueue
  BY <1>0, <1>5 DEF Probe, ProbeScan, ProbeSucceeds, ProbeFails, ProbeEnqueueFails, ProbeEnqueue,
                    RunRows, db
<1>6. CASE SweepRead \/ SweepHooks \/ (\E t \in Tasks : Clock(t)) \/ UNCHANGED vars
  BY <1>6 DEF SweepRead, SweepHooks, Clock, ExpireLease, BackoffElapses, vars, db
<1> QED BY <1>1, <1>2, <1>3, <1>4, <1>5, <1>6 DEF Next, Sweep

THEOREM FinalStatusesLast == Spec => FinalUnlessStale
  BY InvariantsHold, FinalStep, PTL DEF Spec, FinalUnlessStale
-----------------------------------------------------------------------------
(* What holds of the work whatever the timing: transactions of several      *)
(* executions, requests and the sweeper may run between the read and the    *)
(* write of one another.                                                    *)

\* A task that is done has delivered; what a deciding execution read as done
\* still has.  (It may have been reopened since: artifacts are never deleted.)
Landed  == \A t \in Tasks : task[t].status \in Done => Delivered(t)
Trusted ==
  \A e \in Executors, t \in Tasks : ex[e].pc = "decide" /\ ex[e].seen[t] \in Done => Delivered(t)

\* Nobody owns a task that has succeeded, and every execution has an id.
Free == \A t \in Tasks : task[t].status = "SUCCEEDED" => task[t].owner = 0
Ids  == 0 \notin mail /\ \A e \in Executors : ex[e].pc # "off" => ex[e].xid # 0

Backed == Landed /\ Trusted /\ Free /\ Ids

\* An execution that may act on a run it read before it was cancelled.
Blind(e) ==
  \/ ex[e].pc = "decide" /\ ex[e].run \in Active
  \/ ex[e].cm # 0 /\ ex[e].cmOpen
  \/ ex[e].pc = "provider" /\ ~ex[e].built

\* What a step of an execution does to the tasks, and what it takes to do it.
Work(e) ==
  /\ \A t \in Tasks : artifacts[t] > 0 => artifacts'[t] > 0
  /\ artifacts' # artifacts => ex[e].cm # 0 /\ ex[e].cmOpen
  /\ \A t \in Tasks : task'[t].status = "SUCCEEDED" =>
       \/ task[t].status = "SUCCEEDED" /\ task'[t].owner = task[t].owner
       \/ artifacts'[t] > 0 /\ task'[t].owner = 0
  /\ \A t \in Tasks : task'[t].status = "SKIPPED" =>
       \/ task[t].status = "SKIPPED"
       \/ ex[e].pc = "decide" /\ t \in Skippable /\ Reviews \subseteq Seen(e, Done)
  /\ \A t \in Tasks : Starts(t) => ex[e].pc = "decide" /\ Deps[t] \subseteq Seen(e, Done)
  /\ ex'[e].pc = "decide" => \/ ex[e].pc = "decide" /\ ex'[e].seen = ex[e].seen
                             \/ \A t \in Tasks : ex'[e].seen[t] = View(t)
  /\ ex'[e].cm # 0 => \/ ex'[e].cm = ex[e].cm
                      \/ ex[e].pc # "off" /\ task[ex'[e].cm].owner = ex[e].xid
  /\ run.status = "CANCELLED" /\ ~Blind(e) => ~Blind(e)'
  /\ ex'[e].pc # "off" => ex'[e].xid \in mail \/ (ex[e].pc # "off" /\ ex'[e].xid = ex[e].xid)
  /\ \A x \in mail' : x \in mail \/ (ex[e].pc # "off" /\ x = ex[e].xid)

LEMMA DecideRows ==
  ASSUME TypeOK, NEW e \in Executors, Decide(e), NEW t \in Tasks
  PROVE  \/ task'[t] = task[t] \/ task'[t].status \in {"PENDING", "FAILED"}
         \/ task'[t].status = "SKIPPED" /\ t \in Skippable /\ Reviews \subseteq Seen(e, Done)
         \/ Claim(e) /\ Deps[t] \subseteq Seen(e, Done) /\ task'[t].status = "RUNNING"
<1>u. task \in [Tasks -> TaskRows]
  BY DEF TypeOK
<1>1. CASE Recover(e) \/ FinalGateRevises(e)
  BY <1>1, RequeuedTasks DEF Recover, FinalGateRevises
<1>2. CASE GatePass(e)
  BY <1>2, <1>u DEF GatePass, AtGate, TaskRows
<1>3. CASE GateFail(e) \/ FinalGateEnds(e) \/ Finish(e) \/ Wait(e) \/ DeadEnd(e)
  BY <1>3 DEF GateFail, FinalGateEnds, Finish, Wait, DeadEnd, db
<1>4. CASE Claim(e)
  <2>1. task'[t] = IF t \in Won(e) \cap Tried(e) THEN Claimed(e, task[t]) ELSE task[t]
    BY <1>4 DEF Claim
  <2>2. t \in Won(e) => Deps[t] \subseteq Seen(e, Done)
    BY DEF Won, ReadyTasks
  <2> QED BY <1>4, <2>1, <2>2, ClaimedRow
<1>5. CASE ExhaustBudget(e)
  <2>1. PICK u : task' = [GivenBack(e, WonBefore(e, u)) EXCEPT ![u].status = "FAILED"]
    BY <1>5 DEF ExhaustBudget
  <2> DEFINE given == GivenBack(e, WonBefore(e, u))
  <2>2. given \in [Tasks -> TaskRows] /\ (given[t] = task[t] \/ given[t].status = "PENDING")
    BY GivenBackTasks
  <2>3. task' = [given EXCEPT ![u] = [given[u] EXCEPT !.status = "FAILED"]]
    BY <2>1
  <2> HIDE DEF given
  <2> QED BY <2>2, <2>3 DEF TaskRows
<1>6. CASE NoCredential(e)
  BY <1>6, GivenBackTasks DEF NoCredential
<1> QED BY <1>1, <1>2, <1>3, <1>4, <1>5, <1>6 DEF Decide

LEMMA DecideIsNoCommit ==
  ASSUME TypeOK, Batches, NEW e \in Executors, Decide(e)
  PROVE  /\ ex[e].pc = "decide" /\ ex[e].cm = 0 /\ ex'[e].xid = ex[e].xid /\ ex'[e].cm = 0
         /\ ex'[e].pc = "decide" => task' = task /\ ex'[e].seen = ex[e].seen
<1>0. /\ ex[e] \in Slots /\ ex[e].pc = "decide" /\ ex[e].cm = 0
  BY DEF Batches, TypeOK, Decide, Recover, GatePass, GateFail, FinalGateEnds, FinalGateRevises,
         Finish, Wait, DeadEnd, Claim, ExhaustBudget, NoCredential, Scanning
<1>t. /\ Top(ex[e]) \in Slots /\ Top(ex[e]).pc = "top" /\ Top(ex[e]).xid = ex[e].xid /\ Top(ex[e]).cm = 0
  BY <1>0, TopIsSlot
<1>u. ex \in [Executors -> Slots] /\ task \in [Tasks -> TaskRows]
  BY DEF TypeOK
<1>2. ex'[e].xid = ex[e].xid /\ ex'[e].cm = 0 /\ (ex'[e].pc = "decide" => task' = task /\ ex'[e].seen = ex[e].seen)
  <2>1. CASE Recover(e) \/ Wait(e)
    BY <1>t, <1>u, <2>1 DEF Recover, Wait
  <2>2. CASE GatePass(e)
    BY <1>t, <1>u, <2>2 DEF GatePass, Slots
  <2>3. CASE FinalGateRevises(e)
    BY <1>t, <1>u, <2>3 DEF FinalGateRevises, Slots
  <2>4. CASE GateFail(e)
    BY <1>0, <1>u, <2>4 DEF GateFail, Slots, db
  <2>5. CASE FinalGateEnds(e)
    BY <1>0, <1>u, <2>5 DEF FinalGateEnds, Slots
  <2>6. CASE Claim(e)
    <3>1. PICK work : ex' = [ex EXCEPT ![e] = [Top(ex[e]) EXCEPT !.pc = "provider", !.laned = TRUE, !.work = work]]
      BY <2>6 DEF Claim
    <3> QED BY <1>t, <1>u, <3>1 DEF Slots
  <2>7. CASE Finish(e)
    BY <2>7, CloseRunSlot DEF Finish, Closed
  <2>8. CASE DeadEnd(e) \/ ExhaustBudget(e) \/ NoCredential(e)
    BY <2>8, CloseRunSlot DEF DeadEnd, ExhaustBudget, NoCredential, Closed
  <2> QED BY <2>1, <2>2, <2>3, <2>4, <2>5, <2>6, <2>7, <2>8 DEF Decide
<1> QED BY <1>0, <1>2

LEMMA DecideWork ==
  ASSUME TypeOK, Batches, Life, NEW e \in Executors, Decide(e)
  PROVE  Work(e)
<1>1. UNCHANGED <<mail, artifacts>>
  BY DEF Decide, Recover, GatePass, GateFail, FinalGateEnds, FinalGateRevises,
         Finish, Wait, DeadEnd, Claim, ExhaustBudget, NoCredential, queue, history
<1>2. /\ ex[e].pc = "decide" /\ ex'[e].xid = ex[e].xid /\ ex'[e].cm = 0
      /\ ex'[e].pc = "decide" => task' = task /\ ex'[e].seen = ex[e].seen
  BY DecideIsNoCommit
<1>3. \A t \in Tasks :
        /\ task'[t].status = "SUCCEEDED" => task'[t] = task[t]
        /\ task'[t].status = "SKIPPED" =>
             task[t].status = "SKIPPED" \/ (t \in Skippable /\ Reviews \subseteq Seen(e, Done))
        /\ Starts(t) => Deps[t] \subseteq Seen(e, Done)
  BY DecideRows DEF Starts
<1>4. Blind(e)
  BY <1>2 DEF Blind, Life, Decided
<1> QED BY <1>1, <1>2, <1>3, <1>4 DEF Work

LEMMA CommitWork ==
  ASSUME TypeOK, Batches, NEW e \in Executors, Commit(e)
  PROVE  Work(e)
<1>1. ex[e].cm # 0 /\ ex[e].pc = "calling"
  BY DEF Commit, CommitReturn, CommitOk, CommitBackoff, CommitRepeat, CommitDegraded, CommitFailed,
         Committing, Retryable, Repeatable, OutOfRetries, Batches
<1>2. ex[e].cm \in Tasks /\ task \in [Tasks -> TaskRows] /\ artifacts \in [Tasks -> Nat]
  BY <1>1, SettledIsSlot DEF TypeOK
<1>3. ex'[e] = Settled(e)
  BY CommitRows
<1>4. ex'[e].pc = "calling" /\ ex'[e].cm = 0 /\ ex'[e].xid = ex[e].xid
  BY <1>1, <1>3, SettledIsSlot
<1>5. mail' = mail
  BY DEF Commit, CommitReturn, CommitOk, CommitBackoff, CommitRepeat, CommitDegraded, CommitFailed, queue
<1>6. artifacts' # artifacts => ex[e].cmOpen
  BY DEF Commit, CommitReturn, CommitOk, CommitBackoff, CommitRepeat, CommitDegraded, CommitFailed,
         Committing, OutOfRetries, history
<1>7. \A t \in Tasks : artifacts[t] > 0 => artifacts'[t] > 0
  <2>1. artifacts' = artifacts \/ artifacts' = [artifacts EXCEPT ![ex[e].cm] = artifacts[ex[e].cm] + 1]
    BY DEF Commit, CommitReturn, CommitOk, CommitBackoff, CommitRepeat, CommitDegraded, CommitFailed,
           OutOfRetries, history
  <2> QED BY <1>2, <2>1
<1>8. /\ task'[ex[e].cm].status \notin {"RUNNING", "SKIPPED"}
      /\ task'[ex[e].cm].status = "SUCCEEDED" => task'[ex[e].cm].owner = 0 /\ artifacts'[ex[e].cm] > 0
      /\ \A t \in Tasks : t # ex[e].cm => task'[t] = task[t]
  BY CommitRows
<1>9. \A t \in Tasks : ~Starts(t)
  BY <1>8 DEF Starts
<1>10. ~Blind(e)'
  BY <1>4 DEF Blind
<1> QED BY <1>1, <1>4, <1>5, <1>6, <1>7, <1>8, <1>9, <1>10 DEF Work

LEMMA ExecutionWork ==
  ASSUME TypeOK, Batches, Life, NEW e \in Executors, Execution(e)
  PROVE  Work(e)
<1>0. ex \in [Executors -> Slots] /\ ex[e] \in Slots
  BY DEF TypeOK
<1>1. CASE QuietButExecutor(e) /\ (Decide(e) \/ Commit(e))
  BY <1>1, DecideWork, CommitWork
\* Everything else leaves the rows alone, or (ProviderRefused) gives a batch back.
<1>2. ASSUME artifacts' = artifacts,
             task' = task,
             ex'[e].pc = "decide" =>
               \/ ex[e].pc = "decide" /\ ex'[e].seen = ex[e].seen
               \/ \A t \in Tasks : ex'[e].seen[t] = View(t),
             ex'[e].cm # 0 =>
               ex'[e].cm = ex[e].cm \/ (ex[e].pc # "off" /\ task[ex'[e].cm].owner = ex[e].xid),
             run.status = "CANCELLED" /\ ~Blind(e) => ~Blind(e)',
             ex'[e].pc # "off" => ex'[e].xid \in mail \/ (ex[e].pc # "off" /\ ex'[e].xid = ex[e].xid),
             \A x \in mail' : x \in mail \/ (ex[e].pc # "off" /\ x = ex[e].xid)
      PROVE  Work(e)
  BY <1>2 DEF Work, Starts
<1>3. CASE Deliver(e)
  <2>1. PICK x \in mail : ex' = [ex EXCEPT ![e] = [FreeSlot EXCEPT !.pc = "top", !.xid = x]]
    BY <1>3 DEF Deliver
  <2>2. ex'[e].pc = "top" /\ ex'[e].xid \in mail /\ ex'[e].cm = 0
    BY <1>0, <2>1 DEF FreeSlot
  <2>3. UNCHANGED <<task, artifacts>> /\ mail' \subseteq mail
    BY <1>3 DEF Deliver, db, history
  <2> QED BY <1>2, <2>2, <2>3 DEF Blind
<1>4. CASE Duplicate(e)
  <2>1. UNCHANGED <<task, artifacts, ex>> /\ mail' = mail \cup {ex[e].xid} /\ ex[e].pc # "off"
    BY <1>4 DEF Duplicate, db, history
  <2> QED BY <1>2, <2>1 DEF Blind
<1>5. CASE Crash(e) \/ Hooks(e)
  <2>1. /\ UNCHANGED <<task, artifacts>> /\ mail' \subseteq mail \cup {ex[e].xid} /\ ex[e].pc # "off"
        /\ ex' = [ex EXCEPT ![e] = FreeSlot]
    BY <1>5 DEF Crash, Hooks, db
  <2>2. ex'[e].pc = "off" /\ ex'[e].cm = 0
    BY <1>0, <2>1 DEF FreeSlot
  <2> QED BY <1>2, <2>1, <2>2 DEF Blind
<1>6. CASE Read(e)
  <2>1. UNCHANGED <<task, artifacts, mail>> /\ ex[e].pc = "top"
    BY <1>6 DEF Read, db, history, queue
  <2>2. CASE ex' = [ex EXCEPT ![e] = [ex[e] EXCEPT !.pc = "hooks", !.report = "CANCELLED"]]
    <3>1. ex'[e].pc = "hooks" /\ ex'[e].xid = ex[e].xid /\ ex'[e].cm = ex[e].cm /\ ex'[e].cmOpen = ex[e].cmOpen
      BY <1>0, <2>2 DEF Slots
    <3> QED BY <1>2, <2>1, <3>1 DEF Blind
  <2>3. CASE ex' = [ex EXCEPT ![e] = FreeSlot]
    <3>1. ex'[e].pc = "off" /\ ex'[e].cm = 0
      BY <1>0, <2>3 DEF FreeSlot
    <3> QED BY <1>2, <2>1, <3>1 DEF Blind
  <2>4. CASE /\ run.status \in {"ABSENT", "PENDING", "RUNNING"}
             /\ ex' = [ex EXCEPT ![e] = [ex[e] EXCEPT !.pc = "decide", !.run = run.status,
                                          !.used = run.used, !.seen = [t \in Tasks |-> View(t)]]]
    <3>1. ex'[e].pc = "decide" /\ ex'[e].xid = ex[e].xid /\ ex'[e].cm = ex[e].cm
          /\ \A t \in Tasks : ex'[e].seen[t] = View(t)
      BY <1>0, <2>4 DEF Slots
    <3> QED BY <1>2, <2>1, <2>4, <3>1 DEF Blind
  <2> QED BY <1>6, <2>2, <2>3, <2>4 DEF Read
<1>7. ASSUME NEW t \in Tasks, Superseded(e, t) \/ HandlerEnds(e, t) PROVE Work(e)
  <2>1. PICK outcome : ex' = [ex EXCEPT ![e] = [ex[e] EXCEPT !.work = [ex[e].work EXCEPT ![t] = outcome]]]
    BY <1>7 DEF Superseded, HandlerEnds
  <2>2. ex'[e].pc = ex[e].pc /\ ex'[e].xid = ex[e].xid /\ ex'[e].cm = ex[e].cm /\ ex'[e].cmOpen = ex[e].cmOpen
    BY <1>0, <2>1 DEF Slots
  <2>3. UNCHANGED <<task, artifacts, mail>> /\ ex[e].pc = "calling"
    BY <1>7 DEF Superseded, HandlerEnds, ReadyToCommit, db, history, queue
  <2> QED BY <1>2, <2>2, <2>3 DEF Blind
<1>8. ASSUME NEW t \in Tasks, CommitRead(e, t) PROVE Work(e)
  <2>1. ex'[e].pc = "calling" /\ ex'[e].xid = ex[e].xid /\ ex'[e].cm = t /\ (ex'[e].cmOpen => run.status = "RUNNING")
    BY <1>0, <1>8 DEF CommitRead, ReadyToCommit, Slots
  <2>2. UNCHANGED <<task, artifacts, mail>> /\ ex[e].pc = "calling" /\ task[t].owner = ex[e].xid
    BY <1>8 DEF CommitRead, ReadyToCommit, db, history, queue
  <2> QED BY <1>2, <2>1, <2>2 DEF Blind
<1>9. CASE BuildProvider(e) \/ Join(e)
  <2>1. PICK pc \in {"calling", "top"}, built \in {TRUE, ex[e].built} :
          ex' = [ex EXCEPT ![e] = [ex[e] EXCEPT !.pc = pc, !.built = built]]
    <3>1. [ex[e] EXCEPT !.pc = "top"] = [ex[e] EXCEPT !.pc = "top", !.built = ex[e].built]
      BY <1>0 DEF Slots
    <3> QED BY <1>9, <3>1 DEF BuildProvider, Join
  <2>2. ex'[e].pc = pc /\ ex'[e].xid = ex[e].xid /\ ex'[e].cm = ex[e].cm /\ ex'[e].cmOpen = ex[e].cmOpen
    BY <1>0, <2>1 DEF Slots
  <2>3. UNCHANGED <<task, artifacts, mail>> /\ ex[e].pc # "off"
    BY <1>9 DEF BuildProvider, Join, db, history, queue
  <2> QED BY <1>2, <2>2, <2>3 DEF Blind
<1>10. CASE ProviderRefused(e)
  <2>1. ex'[e].pc = "hooks" /\ ex'[e].cm = 0 /\ ex'[e].xid = ex[e].xid
    BY <1>10, CloseRunSlot DEF ProviderRefused, Closed
  <2>2. \A t \in Tasks : task'[t] = task[t] \/ (task[t].status = "RUNNING" /\ task'[t].status = "PENDING")
    BY <1>10, RequeuedTasks DEF ProviderRefused
  <2>3. UNCHANGED <<artifacts, mail>> /\ ex[e].pc # "off"
    BY <1>10 DEF ProviderRefused, queue
  <2>4. \A t \in Tasks : /\ ~Starts(t)
                         /\ task'[t].status \in {"SUCCEEDED", "SKIPPED"} => task'[t] = task[t]
    BY <2>2 DEF Starts
  <2>5. ~Blind(e)'
    BY <2>1 DEF Blind
  <2> QED BY <2>1, <2>3, <2>4, <2>5 DEF Work
<1>11. CASE ExecutorError(e)
  <2>1. PICK s \in {FreeSlot, [FreeSlot EXCEPT !.pc = "hooks", !.xid = ex[e].xid, !.report = "FAILED", !.again = TRUE]} :
          ex' = [ex EXCEPT ![e] = s]
    BY <1>11 DEF ExecutorError
  <2>2. ex'[e].cm = 0 /\ (ex'[e].pc = "off" \/ (ex'[e].pc = "hooks" /\ ex'[e].xid = ex[e].xid))
    <3>1. ex'[e] = s
      BY <1>0, <2>1
    <3>2. CASE s = FreeSlot
      BY <3>1, <3>2 DEF FreeSlot
    <3>3. CASE s # FreeSlot
      <4>1. ex'[e] = [FreeSlot EXCEPT !.pc = "hooks", !.xid = ex[e].xid, !.report = "FAILED", !.again = TRUE]
        BY <2>1, <3>1, <3>3
      <4> QED BY <4>1 DEF FreeSlot
    <3> QED BY <3>2, <3>3
  <2>3. UNCHANGED <<task, artifacts>> /\ mail' \subseteq mail \cup {ex[e].xid} /\ ex[e].pc # "off"
    BY <1>11 DEF ExecutorError
  <2> QED BY <1>2, <2>2, <2>3 DEF Blind
<1> QED
  BY <1>1, <1>3, <1>4, <1>5, <1>6, <1>7, <1>8, <1>9, <1>10, <1>11 DEF Execution, Proceed

\* What has been delivered stays delivered.
LEMMA StillDelivered ==
  ASSUME \A t \in Tasks : artifacts[t] > 0 => artifacts'[t] > 0, NEW t \in Tasks, Delivered(t)
  PROVE  Delivered(t)'
  BY GraphAssumption DEF Delivered

LEMMA WorkKeepsBacked ==
  ASSUME TypeOK, Backed, NEW e \in Executors, Effect(e), Work(e)
  PROVE  Backed'
<1>0. /\ \A f \in Executors \ {e} : ex'[f] = ex[f]
      /\ \A t \in Tasks : artifacts[t] > 0 => artifacts'[t] > 0
  BY DEF Effect, Work
<1>1. Landed'
  <2> SUFFICES ASSUME NEW t \in Tasks, task'[t].status \in Done PROVE Delivered(t)'
    BY DEF Landed
  <2>1. CASE task[t].status \in Done
    BY <1>0, <2>1, StillDelivered DEF Backed, Landed
  <2>2. CASE task'[t].status = "SUCCEEDED" /\ task[t].status \notin Done
    BY <2>2 DEF Work, Delivered, Done
  <2>3. CASE task'[t].status = "SKIPPED" /\ task[t].status \notin Done
    <3>1. ex[e].pc = "decide" /\ t \in Skippable /\ Reviews \subseteq Seen(e, Done)
      BY <2>3 DEF Work, Done
    <3>2. \A r \in Reviews \ Skippable : artifacts[r] > 0
      BY <3>1, GraphAssumption DEF Backed, Trusted, Seen, Delivered
    <3> QED BY <1>0, <3>1, <3>2, GraphAssumption DEF Delivered
  <2> QED BY <2>1, <2>2, <2>3 DEF Done
<1>2. Trusted'
  <2> SUFFICES ASSUME NEW f \in Executors, NEW t \in Tasks, ex'[f].pc = "decide", ex'[f].seen[t] \in Done
               PROVE  Delivered(t)
    BY <1>0, StillDelivered DEF Trusted
  <2>1. CASE ex[f].pc = "decide" /\ ex'[f].seen = ex[f].seen
    BY <2>1 DEF Backed, Trusted
  <2>2. CASE ~(ex[f].pc = "decide" /\ ex'[f].seen = ex[f].seen)
    <3>1. ex'[f].seen[t] = View(t)
      BY <1>0, <2>2 DEF Work
    <3>2. task[t].status \in Done
      BY <3>1 DEF View, Done
    <3> QED BY <3>2 DEF Backed, Landed
  <2> QED BY <2>1, <2>2
<1>3. Free'
  BY DEF Work, Backed, Free
<1>4. Ids'
  BY <1>0 DEF Work, Backed, Ids
<1> QED BY <1>1, <1>2, <1>3, <1>4 DEF Backed

LEMMA OtherKeepsBacked ==
  ASSUME TypeOK, Backed, Next, \A e \in Executors : ~Execution(e)
  PROVE  Backed'
<1>1. /\ UNCHANGED <<ex, artifacts>>
      /\ \A t \in Tasks : task'[t].status = "SUCCEEDED" =>
           task[t].status = "SUCCEEDED" /\ task'[t].owner = task[t].owner
      /\ \A t \in Tasks : task'[t].status = "SKIPPED" => task[t].status = "SKIPPED"
  BY OtherRows
<1>2. \A t \in Tasks : Delivered(t)' <=> Delivered(t)
  BY <1>1 DEF Delivered
<1>3. 0 \notin mail'
  <2>1. 0 # sent + 1
    BY DEF TypeOK
  <2>2. mail' \subseteq mail \cup {sent + 1}
    BY DEF Next, Control, Probe, Sweep, Clock, CreateRun, ControlRead, Pause, Cancel, Resume, RetryRun,
           RetryTask, Enqueue, EnqueueFails, RequestDies, ProbeScan, ProbeSucceeds, ProbeFails,
           ProbeEnqueue, ProbeEnqueueFails, SweepRead, SweepWrite, SweepHooks, ExpireLease,
           BackoffElapses, queue
  <2> QED BY <2>1, <2>2 DEF Backed, Ids
<1>4. Landed'
  BY <1>1, <1>2 DEF Backed, Landed, Done
<1>5. Trusted'
  BY <1>1, <1>2 DEF Backed, Trusted
<1> QED BY <1>1, <1>3, <1>4, <1>5 DEF Backed, Free, Ids

LEMMA WorkHolds == Spec => [](TypeOK /\ Batches /\ Life /\ Backed)
<1>1. Init => Backed
  BY DEF Init, Backed, Landed, Trusted, Free, Ids, FreeSlot, Done
<1>2. Backed /\ UNCHANGED vars => Backed'
  BY DEF Backed, Landed, Trusted, Free, Ids, Delivered, vars, db, queue, history
<1>3. ASSUME TypeOK, Batches, Life, Backed, NEW e \in Executors, Execution(e) PROVE Backed'
  BY <1>3, ExecutionEffect, ExecutionWork, WorkKeepsBacked
<1>4. TypeOK /\ Batches /\ Life /\ Backed /\ [Next]_vars => Backed'
  BY <1>2, <1>3, OtherKeepsBacked
<1> QED BY <1>1, <1>4, InvariantsHold, PTL DEF Spec

\* A task is claimed only after everything it depends on has delivered,
\* whatever ran between the executor's read of the graph and its claim: an
\* execution overtaken by a sweep, a revise round or another execution never
\* starts a task on a result that was not written.
THEOREM ClaimsFollowDeps == Spec => StartsAfterDeps
<1>1. TypeOK /\ Batches /\ Life /\ Backed /\ [Next]_vars =>
        \A t \in Tasks : Starts(t) => \A d \in Deps[t] : Delivered(d)
  <2> SUFFICES ASSUME TypeOK, Batches, Life, Backed, [Next]_vars, NEW t \in Tasks, Starts(t), NEW d \in Deps[t]
               PROVE  Delivered(d)
    OBVIOUS
  <2>1. PICK e \in Executors : Execution(e)
    BY OtherRows DEF Starts, vars, db
  <2>2. ex[e].pc = "decide" /\ d \in Seen(e, Done)
    BY <2>1, ExecutionWork DEF Work
  <2> QED BY <2>2 DEF Seen, Backed, Trusted
<1> QED BY <1>1, WorkHolds, PTL DEF Spec, StartsAfterDeps

LEMMA ExecutionAlone == ASSUME NEW e \in Executors, Execution(e) PROVE UNCHANGED api
<1>1. CASE Decide(e)
  BY <1>1 DEF Decide, Recover, GatePass, GateFail, FinalGateEnds, FinalGateRevises,
              Finish, Wait, DeadEnd, Claim, ExhaustBudget, NoCredential
<1>2. CASE Commit(e)
  BY <1>2 DEF Commit, CommitReturn, CommitOk, CommitBackoff, CommitRepeat, CommitDegraded, CommitFailed
<1>3. CASE ~Decide(e) /\ ~Commit(e)
  BY <1>3 DEF Execution, Proceed, Deliver, Duplicate, Crash, Read, Superseded, CommitRead, BuildProvider,
              ProviderRefused, Join, Hooks, HandlerEnds, ExecutorError
<1> QED BY <1>1, <1>2, <1>3

\* Once every transaction that read a run before its cancel is through, the run
\* stays cancelled: nothing is claimed or committed for it, and no transaction
\* that could begins.
THEOREM CancelIsRespected == Spec => CancelStopsWork
<1>1. ASSUME TypeOK, Batches, Life, [Next]_vars, run.status = "CANCELLED", ~StaleWriter
      PROVE  /\ run'.status = "CANCELLED" /\ ~StaleWriter'
             /\ artifacts' = artifacts /\ \A t \in Tasks : ~Starts(t)
  <2>0. ctl \in [Clients -> Requests]
    BY <1>1 DEF TypeOK
  <2>1. run'.status = "CANCELLED"
    BY <1>1, FinalStep
  <2>2. \A e \in Executors : ~Blind(e)
    BY <1>1 DEF StaleWriter, Blind, Active
  <2>3. ASSUME NEW e \in Executors, Execution(e)
        PROVE  /\ \A f \in Executors : ~Blind(f)'
               /\ artifacts' = artifacts /\ \A t \in Tasks : ~Starts(t)
    <3>1. Effect(e) /\ Work(e)
      BY <1>1, <2>3, ExecutionEffect, ExecutionWork
    <3>2. \A f \in Executors \ {e} : ~Blind(f)'
      BY <2>2, <3>1 DEF Effect, Blind
    <3>3. ~Blind(e)' /\ artifacts' = artifacts
      BY <1>1, <2>2, <3>1 DEF Work, Blind
    <3>4. ex[e].pc # "decide"
      BY <1>1, <2>2 DEF Blind, Life, Decided
    <3> QED BY <3>1, <3>2, <3>3, <3>4 DEF Work
  <2>4. ASSUME \A e \in Executors : ~Execution(e)
        PROVE  /\ \A f \in Executors : ~Blind(f)'
               /\ artifacts' = artifacts /\ \A t \in Tasks : ~Starts(t)
    <3>1. UNCHANGED <<ex, artifacts>>
      BY <1>1, <2>4, OtherRows DEF vars, history
    <3>2. \A t \in Tasks : ~Starts(t)
      BY <1>1, <2>4, OtherRows DEF Starts, vars, db
    <3> QED BY <2>2, <3>1, <3>2 DEF Blind
  <2>5. \A c \in Clients : ctl[c].step = "idle"
    BY <1>1 DEF StaleWriter, Life, Requested
  <2>6. ctl' = ctl /\ sweep' # "read"
    <3>1. ASSUME NEW c \in Clients PROVE ~(Control(c) \/ Enqueue(c))
      <4>1. \A act \in {"pause", "resume", "cancel", "retry"} : "CANCELLED" \notin Allowed(act)
        BY DEF Allowed
      <4>2. ~(CreateRun(c) \/ ControlRead(c))
        BY <1>1, <4>1 DEF CreateRun, ControlRead
      <4>3. ctl[c].step = "idle"
        BY <2>5
      <4>4. ~(Pause(c) \/ Cancel(c) \/ Resume(c) \/ RetryRun(c) \/ \E t \in Tasks : RetryTask(c, t))
        BY <4>3 DEF Pause, Cancel, Resume, RetryRun, RetryTask, Writing
      <4>5. ~(Enqueue(c) \/ EnqueueFails(c) \/ RequestDies(c))
        BY <4>3 DEF Enqueue, EnqueueFails, RequestDies
      <4> QED BY <4>2, <4>4, <4>5 DEF Control
    <3>2. ASSUME NEW e \in Executors, Execution(e) PROVE ctl' = ctl /\ sweep' = sweep
      BY <3>2, ExecutionAlone DEF api
    <3>3. CASE Probe \/ ProbeEnqueue \/ Sweep
      BY <1>1, <3>3 DEF Probe, ProbeScan, ProbeSucceeds, ProbeFails, ProbeEnqueueFails, ProbeEnqueue,
                  Sweep, SweepRead, SweepWrite, SweepHooks, StaleWriter
    <3>4. CASE (\E t \in Tasks : Clock(t)) \/ UNCHANGED vars
      BY <1>1, <3>4 DEF Clock, ExpireLease, BackoffElapses, vars, api, StaleWriter
    <3>5. sweep # "read"
      BY <1>1 DEF StaleWriter
    <3> QED BY <1>1, <3>1, <3>2, <3>3, <3>4, <3>5 DEF Next
  <2>7. ~StaleWriter'
    BY <2>3, <2>4, <2>5, <2>6 DEF StaleWriter, Blind, Active
  <2> QED BY <2>1, <2>3, <2>4, <2>7
<1> QED BY <1>1, WorkHolds, PTL DEF Spec, CancelStopsWork

\* The result of a task that has succeeded is written again only by a
\* transaction that was open by then: neither a late duplicate of the message,
\* whose lease owner is the same, nor an execution that lost its lease opens
\* one.
THEOREM ArtifactsAreUnique == Spec => NoSecondArtifact
<1>1. TypeOK /\ Batches /\ Life /\ Backed /\ [Next]_vars =>
        \A t \in Tasks, e \in Executors : task[t].status = "SUCCEEDED" /\ ex[e].cm # t => ex'[e].cm # t
  <2> SUFFICES ASSUME TypeOK, Batches, Life, Backed, [Next]_vars, NEW t \in Tasks, NEW e \in Executors,
                      task[t].status = "SUCCEEDED", ex[e].cm # t, ex'[e].cm = t
               PROVE  FALSE
    OBVIOUS
  <2>0. t # 0
    BY GraphAssumption DEF Tasks
  <2>1. PICK f \in Executors : Execution(f)
    BY OtherRows DEF vars
  <2>2. f = e
    BY <2>1, ExecutionEffect DEF Effect
  <2>3. ex[e].pc # "off" /\ task[t].owner = ex[e].xid
    BY <2>0, <2>1, <2>2, ExecutionWork DEF Work
  <2> QED BY <2>3 DEF Backed, Free, Ids
<1> QED BY <1>1, WorkHolds, PTL DEF Spec, NoSecondArtifact

\* A run is completed by an execution that saw all of its tasks done or running.
LEMMA DecideEnds ==
  ASSUME TypeOK, NEW e \in Executors, Decide(e), run.status # "COMPLETED", run'.status = "COMPLETED"
  PROVE  \A t \in Tasks : ex[e].seen[t] \in Done \cup {"RUNNING"}
<1>0. ex[e] \in Slots /\ run \in RunRows /\ Started(e) \in RunRows /\ Started(e).status # "COMPLETED"
  BY StartedIsRun DEF TypeOK, Started, RunRows
<1>1. ~(Recover(e) \/ GatePass(e) \/ GateFail(e) \/ FinalGateEnds(e) \/ FinalGateRevises(e) \/ Wait(e) \/ Claim(e))
  BY <1>0 DEF Recover, GatePass, GateFail, FinalGateEnds, FinalGateRevises, Wait, Claim, RunRows, db
<1>2. ASSUME NEW status, NEW reason, CloseRun(e, status, reason) PROVE status = "COMPLETED"
  BY <1>0, <1>2 DEF CloseRun, RunRows
<1>3. ~(DeadEnd(e) \/ ExhaustBudget(e) \/ NoCredential(e))
  BY <1>2 DEF DeadEnd, ExhaustBudget, NoCredential
<1>4. Finish(e)
  BY <1>1, <1>3 DEF Decide
<1>5. Seen(e, {"FAILED"}) = {}
  BY <1>2, <1>4 DEF Finish
<1>6. \A t \in Tasks : ex[e].seen[t] \notin {"EXPIRED", "PENDING", "WAITING", "FAILED"}
  BY <1>4, <1>5 DEF Finish, Scanning, OpenTasks, Seen
<1>7. \A t \in Tasks : ex[e].seen[t] \in Views
  BY <1>0 DEF Slots
<1> QED BY <1>6, <1>7 DEF Views, TaskStatuses

\* No other step of an execution completes the run, nor does anybody else.
LEMMA OnlyDecideCompletes ==
  ASSUME TypeOK, Batches, Life, Next, run.status # "COMPLETED", run'.status = "COMPLETED"
  PROVE  \E e \in Executors : Decide(e)
<1>0. run \in RunRows
  BY DEF TypeOK
<1>1. ASSUME NEW e \in Executors, Execution(e) PROVE Decide(e)
  <2>1. ~Commit(e)
    BY <1>0 DEF Commit, CommitReturn, CommitOk, CommitBackoff, CommitRepeat, CommitDegraded, CommitFailed,
                RunRows
  <2>2. ~(ProviderRefused(e) \/ ExecutorError(e))
    BY <1>0 DEF ProviderRefused, ExecutorError, CloseRun, RunRows
  <2>3. ~(Deliver(e) \/ Duplicate(e) \/ Crash(e) \/ Read(e) \/ BuildProvider(e) \/ Join(e) \/ Hooks(e))
    BY DEF Deliver, Duplicate, Crash, Read, BuildProvider, Join, Hooks, db
  <2>4. ASSUME NEW t \in Tasks PROVE ~(Superseded(e, t) \/ CommitRead(e, t) \/ HandlerEnds(e, t))
    BY DEF Superseded, CommitRead, HandlerEnds, db
  <2> QED BY <1>1, <2>1, <2>2, <2>3, <2>4 DEF Execution, Proceed
<1>2. ASSUME NEW c \in Clients PROVE ~(Control(c) \/ Enqueue(c))
  <2>1. ~(CreateRun(c) \/ Pause(c) \/ Cancel(c) \/ Resume(c) \/ RetryRun(c) \/ \E t \in Tasks : RetryTask(c, t))
    BY <1>0 DEF CreateRun, Pause, Cancel, Resume, RetryRun, RetryTask, Reopened, RunRows
  <2>2. ~EnqueueFails(c)
    BY <1>0 DEF EnqueueFails, RunRows, Life, Requested
  <2> QED BY <2>1, <2>2 DEF Control, ControlRead, RequestDies, Enqueue, db
<1>3. ~(Probe \/ ProbeEnqueue \/ Sweep)
  BY <1>0 DEF Probe, ProbeScan, ProbeSucceeds, ProbeFails, ProbeEnqueueFails, ProbeEnqueue,
              Sweep, SweepRead, SweepWrite, SweepHooks, RunRows, db
<1>4. ASSUME NEW u \in Tasks PROVE ~Clock(u)
  BY DEF Clock, ExpireLease, BackoffElapses
<1> QED BY <1>1, <1>2, <1>3, <1>4 DEF Next

\* A run is completed only by an execution that saw each of its tasks either
\* delivered or still running: through crashes, redelivery, retries, revise
\* rounds and requests between its read and its write.
THEOREM CompletedRunsAreDone == Spec => CompletedIsDone
<1>1. TypeOK /\ Batches /\ Life /\ Backed /\ [Next]_vars =>
        (run.status # "COMPLETED" /\ run'.status = "COMPLETED" =>
          \E e \in Executors :
            /\ ex[e].pc = "decide"
            /\ \A t \in Tasks : Delivered(t) \/ ex[e].seen[t] = "RUNNING")
  <2> SUFFICES ASSUME TypeOK, Batches, Life, Backed, [Next]_vars,
                      run.status # "COMPLETED", run'.status = "COMPLETED"
               PROVE  \E e \in Executors :
                        /\ ex[e].pc = "decide"
                        /\ \A t \in Tasks : Delivered(t) \/ ex[e].seen[t] = "RUNNING"
    OBVIOUS
  <2>1. PICK e \in Executors : Decide(e)
    BY OnlyDecideCompletes DEF vars, db
  <2>2. ex[e].pc = "decide" /\ \A t \in Tasks : ex[e].seen[t] \in Done \cup {"RUNNING"}
    BY <2>1, DecideEnds, DecideIsNoCommit
  <2> QED BY <2>2 DEF Backed, Trusted
<1> QED BY <1>1, WorkHolds, PTL DEF Spec, CompletedIsDone
-----------------------------------------------------------------------------
(* The budget counter *)

\* The counter an open commit has read is no more than what has been spent.
Counted == \A e \in Executors : ex[e].cm # 0 => ex[e].used <= spent

\* What a step of an execution does to the counter.
Spends(e) ==
  /\ \/ run'.used = run.used /\ spent' = spent
     \/ /\ ex[e].cm # 0 /\ ex'[e].cm = 0
        /\ \E cost \in Nat : run'.used = ex[e].used + cost /\ spent' = spent + cost
  /\ ex'[e].cm # 0 =>
       run' = run /\ (ex'[e].used = run.used \/ (ex'[e].cm = ex[e].cm /\ ex'[e].used = ex[e].used))

LEMMA DecideSpends ==
  ASSUME TypeOK, Batches, NEW e \in Executors, Decide(e)
  PROVE  Spends(e)
<1>0. run \in RunRows /\ Started(e) \in RunRows /\ Started(e).used = run.used
  BY StartedIsRun DEF TypeOK, Started, RunRows
<1>1. ex'[e].cm = 0
  BY DecideIsNoCommit
<1>2. spent' = spent
  BY DEF Decide, Recover, GatePass, GateFail, FinalGateEnds, FinalGateRevises,
         Finish, Wait, DeadEnd, Claim, ExhaustBudget, NoCredential, history
<1>3. run'.used = run.used
  BY <1>0 DEF Decide, Recover, GatePass, GateFail, FinalGateEnds, FinalGateRevises, CloseRun,
              Finish, Wait, DeadEnd, Claim, ExhaustBudget, NoCredential, RunRows, db
<1> QED BY <1>1, <1>2, <1>3 DEF Spends

LEMMA CommitSpends ==
  ASSUME TypeOK, Batches, NEW e \in Executors, Commit(e)
  PROVE  Spends(e)
<1>1. ex[e].cm # 0 /\ ex' = [ex EXCEPT ![e] = Settled(e)]
  BY DEF Commit, CommitReturn, CommitOk, CommitBackoff, CommitRepeat, CommitDegraded, CommitFailed,
         Committing, Retryable, Repeatable, OutOfRetries
<1>2. ex'[e].cm = 0
  BY <1>1, SettledIsSlot DEF TypeOK
<1>0. run \in RunRows
  BY DEF TypeOK
<1>3. CASE CommitOk(e)
  <2>1. PICK cost \in Costs : /\ run' = [run EXCEPT !.used = ex[e].used + cost, !.streak = 0]
                              /\ spent' = spent + cost
    BY <1>3 DEF CommitOk
  <2>2. cost \in Nat /\ run'.used = ex[e].used + cost
    BY <1>0, <2>1, Constants DEF RunRows
  <2> QED BY <1>1, <1>2, <2>1, <2>2 DEF Spends
<1>4. CASE ~CommitOk(e)
  <2>1. run'.used = run.used /\ spent' = spent
    BY <1>0, <1>4 DEF Commit, CommitReturn, CommitBackoff, CommitRepeat, CommitDegraded, CommitFailed,
                      RunRows, history
  <2> QED BY <1>2, <2>1 DEF Spends
<1> QED BY <1>3, <1>4

LEMMA ExecutionSpends ==
  ASSUME TypeOK, Batches, NEW e \in Executors, Execution(e)
  PROVE  Spends(e)
<1>0. ex \in [Executors -> Slots] /\ ex[e] \in Slots /\ run \in RunRows
  BY DEF TypeOK
<1>1. CASE QuietButExecutor(e) /\ (Decide(e) \/ Commit(e))
  BY <1>1, DecideSpends, CommitSpends
\* Everything else leaves the counter alone; only an execution inside a batch
\* can have a commit open after it.
<1>2. ASSUME run'.used = run.used, spent' = spent,
             ex'[e].cm = 0 \/ (/\ run' = run
                               /\ ex'[e].used = run.used \/ (ex'[e].cm = ex[e].cm /\ ex'[e].used = ex[e].used))
      PROVE  Spends(e)
  BY <1>2 DEF Spends
<1>3. ASSUME NEW s, ex' = [ex EXCEPT ![e] = s] PROVE ex'[e] = s
  BY <1>0, <1>3
<1>4. FreeSlot.cm = 0
  BY DEF FreeSlot
<1>5. CASE Deliver(e)
  <2>1. PICK x \in mail : ex' = [ex EXCEPT ![e] = [FreeSlot EXCEPT !.pc = "top", !.xid = x]]
    BY <1>5 DEF Deliver
  <2>2. ex'[e].cm = 0
    BY <1>3, <2>1 DEF FreeSlot
  <2> QED BY <1>2, <1>5, <2>2 DEF Deliver, db, history
<1>6. CASE Duplicate(e)
  BY <1>2, <1>6 DEF Duplicate, db, history
<1>7. CASE Crash(e) \/ Hooks(e)
  BY <1>2, <1>3, <1>4, <1>7 DEF Crash, Hooks, db
<1>8. CASE Read(e)
  <2>1. ex[e].cm = 0 /\ UNCHANGED <<run, spent>>
    BY <1>8 DEF Read, Batches, db, history
  <2>2. ex'[e].cm = 0
    <3>1. CASE ex' = [ex EXCEPT ![e] = [ex[e] EXCEPT !.pc = "hooks", !.report = "CANCELLED"]]
      BY <1>0, <2>1, <3>1 DEF Slots
    <3>2. CASE ex' = [ex EXCEPT ![e] = FreeSlot]
      BY <1>3, <1>4, <3>2
    <3>3. CASE ex' = [ex EXCEPT ![e] = [ex[e] EXCEPT !.pc = "decide", !.run = run.status,
                                          !.used = run.used, !.seen = [t \in Tasks |-> View(t)]]]
      BY <1>0, <2>1, <3>3 DEF Slots
    <3> QED BY <1>8, <3>1, <3>2, <3>3 DEF Read
  <2> QED BY <1>2, <2>1, <2>2
<1>9. ASSUME NEW t \in Tasks, Superseded(e, t) \/ HandlerEnds(e, t) PROVE Spends(e)
  <2>1. PICK outcome : ex' = [ex EXCEPT ![e] = [ex[e] EXCEPT !.work = [ex[e].work EXCEPT ![t] = outcome]]]
    BY <1>9 DEF Superseded, HandlerEnds
  <2>2. ex'[e].cm = ex[e].cm /\ ex'[e].used = ex[e].used
    BY <1>0, <2>1 DEF Slots
  <2>3. UNCHANGED <<run, spent>>
    BY <1>9 DEF Superseded, HandlerEnds, db, history
  <2> QED BY <1>2, <2>2, <2>3
<1>10. ASSUME NEW t \in Tasks, CommitRead(e, t) PROVE Spends(e)
  <2>1. ex'[e].used = run.used
    BY <1>0, <1>10 DEF CommitRead, Slots
  <2> QED BY <1>2, <1>10, <2>1 DEF CommitRead, db, history
<1>11. CASE BuildProvider(e) \/ Join(e)
  <2>1. PICK pc \in {"calling", "top"}, built \in {TRUE, ex[e].built} :
          ex' = [ex EXCEPT ![e] = [ex[e] EXCEPT !.pc = pc, !.built = built]]
    <3>1. [ex[e] EXCEPT !.pc = "top"] = [ex[e] EXCEPT !.pc = "top", !.built = ex[e].built]
      BY <1>0 DEF Slots
    <3> QED BY <1>11, <3>1 DEF BuildProvider, Join
  <2>2. ex'[e].cm = ex[e].cm /\ ex'[e].used = ex[e].used
    BY <1>0, <2>1 DEF Slots
  <2> QED BY <1>2, <1>11, <2>2 DEF BuildProvider, Join, db, history
<1>12. CASE ProviderRefused(e)
  <2>1. ex'[e].cm = 0
    BY <1>12, CloseRunSlot DEF ProviderRefused, Closed
  <2>2. run'.used = run.used /\ spent' = spent
    BY <1>0, <1>12 DEF ProviderRefused, CloseRun, RunRows
  <2> QED BY <1>2, <2>1, <2>2
<1>13. CASE ExecutorError(e)
  <2>1. run'.used = run.used /\ spent' = spent
    BY <1>0, <1>13 DEF ExecutorError, RunRows
  <2>2. ex'[e].cm = 0
    <3>1. CASE ex' = [ex EXCEPT ![e] = FreeSlot]
      BY <1>3, <1>4, <3>1
    <3>2. CASE ex' = [ex EXCEPT ![e] = [FreeSlot EXCEPT !.pc = "hooks", !.xid = ex[e].xid,
                                          !.report = "FAILED", !.again = TRUE]]
      BY <1>3, <3>2 DEF FreeSlot
    <3> QED BY <1>13, <3>1, <3>2 DEF ExecutorError
  <2> QED BY <1>2, <2>1, <2>2
<1> QED
  BY <1>1, <1>5, <1>6, <1>7, <1>8, <1>9, <1>10, <1>11, <1>12, <1>13 DEF Execution, Proceed
LEMMA BudgetStep ==
  TypeOK /\ Batches /\ Life /\ Counted /\ BudgetIsSpent /\ [Next]_vars => Counted' /\ BudgetIsSpent'
<1>1. ASSUME TypeOK, Batches, Life, Counted, BudgetIsSpent, NEW e \in Executors, Execution(e)
      PROVE  Counted' /\ BudgetIsSpent'
  <2>1. Spends(e) /\ \A f \in Executors \ {e} : ex'[f] = ex[f]
    BY <1>1, ExecutionSpends, ExecutionEffect DEF Effect
  <2>2. run.used \in Nat /\ spent \in Nat /\ \A f \in Executors : ex[f].used \in Nat
    BY <1>1 DEF TypeOK, RunRows, Slots
  <2>3. CASE run'.used = run.used /\ spent' = spent
    BY <1>1, <2>1, <2>3 DEF Counted, BudgetIsSpent, Spends
  <2>4. CASE ~(run'.used = run.used /\ spent' = spent)
    <3>1. PICK cost \in Nat : run'.used = ex[e].used + cost /\ spent' = spent + cost
      BY <2>1, <2>4 DEF Spends
    <3>2. ex[e].cm # 0 /\ ex'[e].cm = 0
      BY <2>1, <2>4 DEF Spends
    <3>3. BudgetIsSpent'
      BY <1>1, <2>2, <3>1, <3>2 DEF Counted, BudgetIsSpent
    <3>4. \A f \in Executors \ {e} : ex'[f].cm # 0 => ex'[f].used <= spent'
      BY <1>1, <2>1, <2>2, <3>1 DEF Counted
    <3> QED BY <3>2, <3>3, <3>4 DEF Counted
  <2> QED BY <2>3, <2>4
<1>2. ASSUME TypeOK, Counted, BudgetIsSpent, Next, \A e \in Executors : ~Execution(e)
      PROVE  Counted' /\ BudgetIsSpent'
  <2>0. run \in RunRows
    BY <1>2 DEF TypeOK
  <2>1. UNCHANGED ex
    BY <1>2, OtherRows
  <2>2. run'.used = run.used /\ spent' = spent
    BY <1>2, <2>0
       DEF Next, Control, Probe, Sweep, Clock, CreateRun, ControlRead, Pause, Cancel, Resume, RetryRun,
           RetryTask, Reopened, Enqueue, EnqueueFails, RequestDies, ProbeScan, ProbeSucceeds, ProbeFails,
           ProbeEnqueue, ProbeEnqueueFails, SweepRead, SweepWrite, SweepHooks, ExpireLease,
           BackoffElapses, RunRows, db, history
  <2> QED BY <1>2, <2>1, <2>2 DEF Counted, BudgetIsSpent
<1>3. Counted /\ BudgetIsSpent /\ UNCHANGED vars => Counted' /\ BudgetIsSpent'
  BY DEF Counted, BudgetIsSpent, vars, db, history
<1> QED BY <1>1, <1>2, <1>3

\* The run's token counter never exceeds the tokens of the committed results:
\* commits of two executions that overlap can lose a charge, and none is
\* charged twice.
THEOREM BudgetIsBounded == Spec => []BudgetIsSpent
<1>1. Init => Counted /\ BudgetIsSpent
  BY DEF Init, Counted, BudgetIsSpent, FreeSlot
<1> QED BY <1>1, BudgetStep, InvariantsHold, PTL DEF Spec
=============================================================================
