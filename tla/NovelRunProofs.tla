--------------------------- MODULE NovelRunProofs ---------------------------
(***************************************************************************)
(* Proofs about NovelRun, for any number of chapters and retries, any set  *)
(* of tasks and any scenarios.                                             *)
(***************************************************************************)
EXTENDS NovelRun, TLAPS

Pcs == {"none", "queued", "chapter", "begin", "drafting", "drafted", "commit", "finish", "raised",
        "fail", "done"}

\* A task that is at a chapter is at one of those that were requested.
AtChapter ==
  \A t \in Tasks : task[t].pc \in {"begin", "drafting", "drafted", "commit"} => task[t].at <= Chapters

LEMMA Constants ==
  /\ Chapters \in Nat /\ MaxRetries \in Nat /\ Tasks \subseteq Nat /\ NoTask \notin Tasks
  /\ 1 \in 1 .. Chapters + 1
  BY NovelAssumption DEF NoTask

LEMMA FirstRow == Idle.saw \in Runs /\ Idle \in Deliveries
<1>1. [status |-> "QUEUED", owner |-> NoTask, lease |-> "none", active |-> NoTask] \in Runs
  BY DEF Runs, Statuses, Ids
<1>2. 0 \in 0 .. MaxRetries
  BY Constants
<1> QED BY <1>1, <1>2, Constants DEF Idle, Deliveries

\* A change of the status, of the lease or of the checkpoint leaves a run row.
LEMMA RowFields ==
  ASSUME NEW r \in Runs, NEW s \in Statuses, NEW a \in Ids, NEW l \in {"none", "live", "lapsed"}
  PROVE  /\ [r EXCEPT !.status = s] \in Runs /\ [r EXCEPT !.lease = l] \in Runs
         /\ [r EXCEPT !.active = a, !.lease = l] \in Runs
  BY DEF Runs

LEMMA RowParts ==
  ASSUME NEW r \in Runs
  PROVE  /\ r.status \in Statuses /\ r.owner \in Ids /\ r.active \in Ids
         /\ r.lease \in {"none", "live", "lapsed"}
  BY DEF Runs

\* Wherever a task goes next, it stays a delivery, and at a chapter.
LEMMA GoesTo ==
  ASSUME TypeOK, AtChapter, NEW t \in Tasks, NEW pc \in Pcs, NEW at \in 1 .. Chapters + 1,
         Goto(t, pc, at), pc \in {"begin", "drafting", "drafted", "commit"} => at <= Chapters
  PROVE  task' \in [Tasks -> Deliveries] /\ AtChapter'
<1> DEFINE next == [Idle EXCEPT !.pc = pc, !.at = at, !.tries = task[t].tries]
<1>1. next \in Deliveries /\ next.pc = pc /\ next.at = at
  <2>1. Idle \in Deliveries /\ task[t].tries \in 0 .. MaxRetries
    BY FirstRow DEF TypeOK, Deliveries
  <2> HIDE DEF Idle
  <2> QED BY <2>1 DEF Deliveries, Pcs
<1>2. task' = [task EXCEPT ![t] = next]
  BY DEF Goto
<1> HIDE DEF next
<1> QED BY <1>1, <1>2 DEF TypeOK, AtChapter

LEMMA Ends ==
  ASSUME TypeOK, AtChapter, NEW t \in Tasks, End(t)
  PROVE  task' \in [Tasks -> Deliveries] /\ AtChapter'
  BY GoesTo, Constants DEF End, Pcs

LEMMA Queued ==
  ASSUME TypeOK, AtChapter, NEW t \in Tasks, NEW tries \in 0 .. MaxRetries,
         task' = [task EXCEPT ![t] = [Idle EXCEPT !.pc = "queued", !.tries = tries]]
  PROVE  task' \in [Tasks -> Deliveries] /\ AtChapter'
<1>1. [Idle EXCEPT !.pc = "queued", !.tries = tries] \in Deliveries
  BY FirstRow DEF Deliveries
<1>2. [Idle EXCEPT !.pc = "queued", !.tries = tries].pc = "queued"
  BY DEF Idle
<1> QED BY <1>1, <1>2 DEF TypeOK, AtChapter

LEMMA Spent ==
  ASSUME TypeOK, NEW what \in {"controls", "faults", "slow"}, Spend(what)
  PROVE  left' \in Bounds
  BY DEF TypeOK, Spend, Bounds

\* The steps of a task keep the types.
LEMMA StepTypes ==
  ASSUME TypeOK, AtChapter, NEW t \in Tasks, Step(t)
  PROVE  TypeOK' /\ AtChapter'
<1>0. task[t] \in Deliveries /\ task[t].saw \in Runs /\ run \in Runs
  BY DEF TypeOK, Deliveries
<1>1. CASE Open(t)
  <2>1. CASE End(t) /\ UNCHANGED run
    BY <1>1, <2>1, Ends DEF Open, TypeOK
  <2>2. CASE Goto(t, "chapter", 1)
    <3>1. task' \in [Tasks -> Deliveries] /\ AtChapter'
      BY <2>2, GoesTo, Constants DEF Pcs
    <3>2. CASE UNCHANGED run
      BY <1>1, <3>1, <3>2 DEF Open, TypeOK
    <3>3. CASE run' = [run EXCEPT !.owner = t, !.lease = "live",
                         !.status = IF @ \in {"QUEUED", "RETRYING"} THEN "RUNNING" ELSE @]
      <4>1. (IF run.status \in {"QUEUED", "RETRYING"} THEN "RUNNING" ELSE run.status) \in Statuses
        BY <1>0, RowParts DEF Statuses
      <4>2. run' \in Runs
        BY <1>0, <3>3, <4>1 DEF Runs, Ids
      <4> QED BY <1>1, <3>1, <4>2 DEF Open, TypeOK
    <3> QED BY <1>1, <3>2, <3>3 DEF Open
  <2> QED BY <1>1, <2>1, <2>2 DEF Open
<1>2. CASE Read(t)
  <2>1. /\ Transaction(t) \in Pcs
        /\ Transaction(t) \in {"begin", "commit"} => task[t].at <= Chapters
    <3>1. task[t].at \in 1 .. Chapters + 1 /\ (task[t].pc = "drafted" => task[t].at <= Chapters)
      BY <1>0 DEF Deliveries, AtChapter
    <3> QED BY <3>1, Constants DEF Transaction, Pcs
  <2>2. PICK pc \in Pcs : /\ pc \in {"begin", "commit"} => task[t].at <= Chapters
                          /\ pc \notin {"drafting", "drafted"}
                          /\ task' = [task EXCEPT ![t].pc = pc, ![t].saw = run]
    BY <1>2, <2>1 DEF Read, Transaction
  <2>3. task' = [task EXCEPT ![t] = [task[t] EXCEPT !.pc = pc, !.saw = run]]
    BY <2>2
  <2>4. [task[t] EXCEPT !.pc = pc, !.saw = run] \in Deliveries
    BY <1>0 DEF Deliveries, Pcs
  <2>5. task' \in [Tasks -> Deliveries]
    BY <2>3, <2>4 DEF TypeOK
  <2>6. task'[t].pc = pc /\ task'[t].at = task[t].at
    BY <1>0, <2>3 DEF TypeOK, Deliveries
  <2>7. \A u \in Tasks \ {t} : task'[u] = task[u]
    BY <2>3 DEF TypeOK
  <2>8. AtChapter'
    BY <2>2, <2>6, <2>7 DEF AtChapter
  <2> QED BY <1>2, <2>5, <2>8 DEF Read, TypeOK
<1>3. CASE GiveWay(t)
  BY <1>3, Ends DEF GiveWay, TypeOK
<1>4. Checkpointed(task[t].saw) \in Runs
  BY <1>0, RowFields, RowParts DEF Checkpointed
<1>5. CASE Begin(t)
  <2>1. task[t].at <= Chapters /\ task[t].at \in 1 .. Chapters + 1
    BY <1>0, <1>5 DEF Begin, AtChapter, Deliveries
  <2>2. task' \in [Tasks -> Deliveries] /\ AtChapter'
    BY <1>5, <2>1, GoesTo DEF Begin, Pcs
  <2> QED BY <1>4, <1>5, <2>2 DEF Begin, TypeOK
<1>6. CASE OverBudget(t)
  BY <1>6, GoesTo, Constants DEF OverBudget, Pcs, TypeOK
<1>7. CASE Draft(t)
  <2>1. task[t].at <= Chapters /\ task[t].at \in 1 .. Chapters + 1
    BY <1>0, <1>7 DEF Draft, AtChapter, Deliveries
  <2>2. task' \in [Tasks -> Deliveries] /\ AtChapter'
    BY <1>7, <2>1, GoesTo, Constants DEF Draft, Pcs
  <2>3. left' \in Bounds
    BY <1>7, Spent DEF Draft, TypeOK
  <2> QED BY <1>7, <2>2, <2>3 DEF Draft, TypeOK
<1>8. CASE Commit(t)
  <2>1. task[t].at <= Chapters /\ task[t].at \in 1 .. Chapters + 1
    BY <1>0, <1>8 DEF Commit, AtChapter, Deliveries
  <2>2. task[t].at + 1 \in 1 .. Chapters + 1 /\ task[t].at \in 1 .. Chapters
    BY <2>1, Constants
  <2>3. task' \in [Tasks -> Deliveries] /\ AtChapter'
    BY <1>8, <2>2, GoesTo DEF Commit, Pcs
  <2>4. run' \in Runs
    BY <1>0, <1>4, <1>8, RowFields, RowParts DEF Commit
  <2> QED BY <1>8, <2>2, <2>3, <2>4 DEF Commit, TypeOK
<1>9. CASE Finish(t)
  <2>1. task' \in [Tasks -> Deliveries] /\ AtChapter'
    BY <1>9, Ends DEF Finish
  <2>2. run' \in Runs /\ blind' \in BOOLEAN
    BY <1>0, <1>9, RowFields DEF Finish, Statuses, TypeOK
  <2> QED BY <1>9, <2>1, <2>2 DEF Finish, TypeOK
<1>10. CASE Fail(t)
  <2>1. task' \in [Tasks -> Deliveries] /\ AtChapter'
    <3>1. CASE End(t)
      BY <3>1, Ends
    <3>2. CASE task[t].tries < MaxRetries /\ ~End(t)
      <4>1. task[t].tries + 1 \in 0 .. MaxRetries
        BY <1>0, <3>2, Constants DEF Deliveries
      <4> QED BY <1>10, <3>2, <4>1, Queued DEF Fail, Retried
    <3> QED BY <1>10, <3>1, <3>2 DEF Fail, Retried
  <2>2. run' \in Runs /\ blind' \in BOOLEAN /\ stranded' \in BOOLEAN
    BY <1>0, <1>10, RowFields DEF Fail, Statuses, TypeOK
  <2> QED BY <1>10, <2>1, <2>2 DEF Fail, TypeOK
<1> QED BY <1>1, <1>2, <1>3, <1>5, <1>6, <1>7, <1>8, <1>9, <1>10 DEF Step

\* Faults, requests, leases and the sweep keep the types.
LEMMA OtherTypes ==
  ASSUME TypeOK, AtChapter, Next, \A t \in Tasks : ~Step(t)
  PROVE  TypeOK' /\ AtChapter'
<1>0. run \in Runs /\ Statuses # {}
  BY DEF TypeOK, Statuses
<1>1. ASSUME NEW t \in Tasks, OpenRefused(t) PROVE TypeOK' /\ AtChapter'
  <2>1. run' \in Runs
    BY <1>0, <1>1 DEF OpenRefused, Runs, Statuses, Ids
  <2> QED BY <1>1, <2>1, Ends, Spent DEF OpenRefused, TypeOK
<1>2. ASSUME NEW t \in Tasks, Crash(t) \/ OpenRaises(t) PROVE TypeOK' /\ AtChapter'
  BY <1>2, GoesTo, Constants, Spent DEF Crash, OpenRaises, Pcs, TypeOK
<1>3. ASSUME NEW target \in {"PAUSED", "CANCELLED"}, Halt(target) PROVE TypeOK' /\ AtChapter'
  <2>1. run' \in Runs
    BY <1>0, <1>3 DEF Halt, Runs, Statuses
  <2> QED BY <1>3, <2>1, Spent DEF Halt, TypeOK, AtChapter
<1>4. CASE Restart
  <2>1. run' \in Runs
    BY <1>0, <1>4 DEF Restart, Successor, Runs, Statuses, Ids
  <2>2. api' \in [pc : {"idle", "send", "record"}, sent : Ids]
    BY <1>4 DEF Restart, Ids
  <2> QED BY <1>4, <2>1, <2>2, Spent DEF Restart, TypeOK, AtChapter
<1>5. CASE Dispatch
  <2>1. api' \in [pc : {"idle", "send", "record"}, sent : Ids]
    BY <1>5 DEF Dispatch, TypeOK
  <2>2. task' \in [Tasks -> Deliveries] /\ AtChapter'
    <3>1. CASE api.sent \in Tasks
      <4>1. [Idle EXCEPT !.pc = "queued"] \in Deliveries /\ [Idle EXCEPT !.pc = "queued"].pc = "queued"
        BY FirstRow DEF Deliveries, Idle
      <4>2. task' = [task EXCEPT ![api.sent] = [Idle EXCEPT !.pc = "queued"]]
        BY <1>5 DEF Dispatch
      <4> HIDE DEF Idle
      <4> QED BY <3>1, <4>1, <4>2 DEF TypeOK, AtChapter
    <3>2. CASE api.sent \notin Tasks
      BY <1>5, <3>2 DEF Dispatch, TypeOK, AtChapter
    <3> QED BY <3>1, <3>2
  <2> QED BY <1>5, <2>1, <2>2 DEF Dispatch, TypeOK
<1>6. CASE DispatchRefused
  <2>1. run' \in Runs
    BY <1>0, <1>6 DEF DispatchRefused, Runs, Statuses
  <2> QED BY <1>6, <2>1, Spent DEF DispatchRefused, TypeOK, AtChapter, Ids
<1>7. CASE Record
  <2>1. run' \in Runs
    BY <1>0, <1>7 DEF Record, Runs, TypeOK
  <2> QED BY <1>7, <2>1 DEF Record, TypeOK, AtChapter, Ids
<1>8. CASE RequestDies
  BY <1>8, Spent DEF RequestDies, TypeOK, AtChapter, Ids
<1>9. CASE LapseDead \/ LapseLive
  <2>1. run' \in Runs
    BY <1>0, <1>9 DEF LapseDead, LapseLive, Lapse, Runs
  <2> QED BY <1>9, <2>1, Spent DEF LapseDead, LapseLive, TypeOK, AtChapter
<1>10. CASE SweepSelect
  BY <1>10 DEF SweepSelect, TypeOK, AtChapter
<1>11. CASE SweepUpdate
  <2>1. run' \in Runs
    BY <1>0, <1>11 DEF SweepUpdate, Runs, Statuses, Ids
  <2> QED BY <1>11, <2>1, FirstRow DEF SweepUpdate, TypeOK, AtChapter
<1> QED
  BY <1>1, <1>2, <1>3, <1>4, <1>5, <1>6, <1>7, <1>8, <1>9, <1>10, <1>11 DEF Next, Request, Sweep

LEMMA TypeInit == Init => TypeOK /\ AtChapter
<1> SUFFICES ASSUME Init PROVE TypeOK /\ AtChapter
  OBVIOUS
<1>1. left \in Bounds /\ budget \in BOOLEAN
  BY NovelAssumption DEF Init
<1>2. Idle.pc = "none"
  BY DEF Idle
<1>3. api \in [pc : {"idle", "send", "record"}, sent : Ids]
  BY DEF Init, Ids
<1> QED BY <1>1, <1>2, <1>3, FirstRow DEF Init, TypeOK, AtChapter

LEMMA TypeStep == TypeOK /\ AtChapter /\ [Next]_vars => TypeOK' /\ AtChapter'
<1>1. TypeOK /\ AtChapter /\ UNCHANGED vars => TypeOK' /\ AtChapter'
  BY DEF TypeOK, AtChapter, vars
<1> QED BY <1>1, StepTypes, OtherTypes

\* The type invariant of NovelRun: a task drafts the chapters that were requested.
THEOREM TypeCorrect == Spec => [](TypeOK /\ AtChapter)
  BY TypeInit, TypeStep, PTL DEF Spec

-----------------------------------------------------------------------------
(* A cancelled run stays cancelled *)

\* The sweep updates what it selected as running.
SweptRunning == sweeper.pc = "update" => sweeper.saw.status = "RUNNING"

LEMMA SweptStep == TypeOK /\ SweptRunning /\ [Next]_vars => SweptRunning'
<1> SUFFICES ASSUME TypeOK, SweptRunning, [Next]_vars PROVE SweptRunning'
  OBVIOUS
<1>1. sweeper' = sweeper \/ SweepSelect \/ SweepUpdate
  BY DEF Next, Step, Open, Read, GiveWay, Begin, OverBudget, Draft, Commit, Finish, Fail,
         OpenRefused, OpenRaises, Crash, Halt, Restart, Request, Dispatch, Record, DispatchRefused,
         RequestDies, LapseDead, LapseLive, Sweep, vars
<1> QED BY <1>1 DEF SweptRunning, SweepSelect, SweepUpdate

\* Who changes the status of a run.
LEMMA StatusStep ==
  ASSUME TypeOK, [Next]_vars, run'.status # run.status
  PROVE  \/ \E t \in Tasks : Open(t) \/ Finish(t) \/ Fail(t) \/ OpenRefused(t)
         \/ \E target \in {"PAUSED", "CANCELLED"} : Halt(target)
         \/ Restart \/ DispatchRefused \/ SweepUpdate
<1>0. run \in Runs
  BY DEF TypeOK
<1>1. ASSUME NEW t \in Tasks, Begin(t) \/ Commit(t) PROVE run'.status = run.status
  BY <1>0, <1>1 DEF Begin, Commit, Checkpointed, Runs
<1>2. CASE Record \/ LapseDead \/ LapseLive
  BY <1>0, <1>2 DEF Record, LapseDead, LapseLive, Lapse, Runs
<1> QED
  BY <1>1, <1>2
     DEF Next, Step, Read, GiveWay, OverBudget, Draft, Crash, OpenRaises, Request, Dispatch, RequestDies, Sweep,
         SweepSelect, vars

LEMMA CancelStep ==
  ASSUME TypeOK, SweptRunning, [Next]_vars, run.status = "CANCELLED", run'.status # "CANCELLED"
  PROVE  blind'
<1>1. ASSUME NEW t \in Tasks, Open(t) \/ OpenRefused(t) PROVE FALSE
  BY <1>1 DEF Open, OpenRefused
<1>2. ASSUME NEW t \in Tasks, Finish(t) \/ Fail(t) PROVE blind'
  BY <1>2 DEF Finish, Fail, Stale
<1>3. Transition[run.status] = {}
  BY DEF Transition
<1>4. ASSUME NEW target \in {"PAUSED", "CANCELLED"}, Halt(target) PROVE FALSE
  BY <1>3, <1>4 DEF Halt
<1>5. ~Restart
  BY <1>3 DEF Restart
<1>6. CASE DispatchRefused
  BY <1>6 DEF DispatchRefused
<1>7. CASE SweepUpdate
  BY <1>7 DEF SweepUpdate, SweptRunning, Stale
<1> QED BY <1>1, <1>2, <1>4, <1>5, <1>6, <1>7, StatusStep

\* A cancelled run is reopened only by who had read it before the cancel.
THEOREM CancelIsRespected == Spec => CancelSticks
<1>1. Init => SweptRunning
  BY DEF Init, SweptRunning
<1>2. ASSUME TypeOK, SweptRunning, [Next]_vars
      PROVE  [run.status = "CANCELLED" /\ run'.status # "CANCELLED" => blind']_vars
  BY <1>2, CancelStep
<1> QED BY <1>1, <1>2, TypeInit, TypeStep, SweptStep, PTL DEF Spec, CancelSticks
=============================================================================
