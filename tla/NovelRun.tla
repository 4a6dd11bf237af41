------------------------------ MODULE NovelRun ------------------------------
(***************************************************************************)
(* A run of the novel generation workflow.  A celery task drafts the       *)
(* requested chapters one after the other under a lease on the run row;    *)
(* pause, resume, retry and cancel come from requests, and a resume or a   *)
(* retry enqueues a successor that the predecessor must give way to.  The  *)
(* run row carries a checkpoint document with the id of the task that was  *)
(* enqueued last; whoever writes the document writes all of it.            *)
(*                                                                         *)
(* The database is PostgreSQL.  Requests, the first transaction of a task  *)
(* and the lease renewer read the row FOR UPDATE and are one step each;    *)
(* the other transactions of a task read without a lock and write later.   *)
(***************************************************************************)
EXTENDS Naturals, FiniteSets

CONSTANTS
  Chapters,   \* the number of chapters requested
  Tasks,      \* task ids (numbers); a task's id stands for its lease owner too
  MaxRetries, \* max_retries of the celery task
  Scenarios   \* how much of each thing a run sees

NoTask == 0
\* controls: requests; faults: provider errors, workers that die, brokers that refuse, API
\* processes that die; slow: leases that lapse under a live task.
Bounds == [controls : Nat, faults : Nat, slow : Nat]
ASSUME NovelAssumption ==
  /\ Chapters \in Nat /\ MaxRetries \in Nat /\ Tasks \subseteq Nat \ {NoTask}
  /\ Scenarios \subseteq [budget : BOOLEAN, bounds : Bounds]

VARIABLES
  run,      \* the run row: status, lease owner, lease expiry, active_task_id
  drafts,   \* the chapters that got a version from the run
  task,     \* the deliveries of generate_novel
  api,      \* the request that has committed its transition and enqueues a task
  sweeper,  \* recover_expired in progress: the row it selected
  budget,   \* whether the tokens of the run suffice
  left,     \* what is left of each bound
  blind,    \* history: a row was written by who had not read its last change
  stranded  \* history: a request died between its commit and its dispatch, or the last
            \* retry of a task raised before it had opened a QUEUED run

vars == <<run, drafts, task, api, sweeper, budget, left, blind, stranded>>

Statuses == {"QUEUED", "RUNNING", "RETRYING", "RECOVERING", "PAUSED", "BUDGET_BLOCKED",
             "COMPLETED", "FAILED", "CANCELLED"}
\* ALLOWED_TRANSITIONS.
Transition ==
  [QUEUED |-> {"RUNNING", "CANCELLED"},
   RUNNING |-> {"PAUSED", "RETRYING", "COMPLETED", "FAILED", "CANCELLED", "RECOVERING"},
   PAUSED |-> {"QUEUED", "CANCELLED"}, BUDGET_BLOCKED |-> {"QUEUED", "CANCELLED"},
   RETRYING |-> {"RUNNING", "FAILED", "PAUSED"},
   RECOVERING |-> {"QUEUED", "PAUSED", "FAILED"},
   FAILED |-> {"QUEUED"}, COMPLETED |-> {}, CANCELLED |-> {}]
Ids == Tasks \cup {NoTask}
Runs == [status : Statuses, owner : Ids, lease : {"none", "live", "lapsed"}, active : Ids]

-----------------------------------------------------------------------------

Idle == [pc |-> "none", at |-> 1, tries |-> 0,
         saw |-> [status |-> "QUEUED", owner |-> NoTask, lease |-> "none", active |-> NoTask]]
\* What a task does next; it forgets what it had read.
Goto(t, pc, at) == task' = [task EXCEPT ![t] = [Idle EXCEPT !.pc = pc, !.at = at,
                                                           !.tries = task[t].tries]]
End(t) == Goto(t, "done", 1)
Spend(what) == left[what] > 0 /\ left' = [left EXCEPT ![what] = @ - 1]
Stale(saw) == <<saw.status, saw.owner>> # <<run.status, run.owner>>

\* An id that no row, snapshot or request remembers.
Fresh(t) == /\ task[t].pc \in {"none", "done"}
            /\ t \notin {run.owner, run.active, sweeper.saw.owner, api.sent}
            /\ \A u \in Tasks : t \notin {task[u].saw.owner, task[u].saw.active}
Unused(t) == Fresh(t) /\ \A u \in Tasks : u < t => ~Fresh(u)

\* create_workflow has committed the run with its command.
Init ==
  /\ run = Idle.saw
  /\ drafts = {}
  /\ task = [t \in Tasks |-> Idle]
  /\ api \in [pc : {"send"}, sent : {t \in Tasks : \A u \in Tasks : t <= u}]
  /\ sweeper = [pc |-> "idle", saw |-> Idle.saw]
  /\ \E s \in Scenarios : budget = s.budget /\ left = s.bounds
  /\ blind = FALSE /\ stranded = FALSE

-----------------------------------------------------------------------------
(* The task *)
\* Mutant: a retrying run keeps its status.
OpenQueued(t) ==
  /\ task[t].pc = "queued"
  /\ IF run.status = "CANCELLED" \/ (run.owner \notin {NoTask, t} /\ run.lease = "live")
       THEN End(t) /\ UNCHANGED run
       ELSE /\ run' = [run EXCEPT !.owner = t, !.lease = "live",
                         !.status = IF @ \in {"QUEUED"} THEN "RUNNING" ELSE @]
            /\ Goto(t, "chapter", 1)
  /\ UNCHANGED <<drafts, api, sweeper, budget, left, blind, stranded>>

\* The first transaction, under FOR UPDATE: only a cancelled run is left alone; a queued
\* or retrying one becomes RUNNING, any other keeps its status.
Open(t) ==
  /\ task[t].pc = "queued"
  /\ IF run.status = "CANCELLED" \/ (run.owner \notin {NoTask, t} /\ run.lease = "live")
       THEN End(t) /\ UNCHANGED run
       ELSE /\ run' = [run EXCEPT !.owner = t, !.lease = "live",
                         !.status = IF @ \in {"QUEUED", "RETRYING"} THEN "RUNNING" ELSE @]
            /\ Goto(t, "chapter", 1)
  /\ UNCHANGED <<drafts, api, sweeper, budget, left, blind, stranded>>

\* No provider, no credential or no chapter: the run fails.
OpenRefused(t) ==
  /\ task[t].pc = "queued" /\ Spend("faults")
  /\ run.status \in {"QUEUED", "RUNNING", "RETRYING", "RECOVERING"}
  /\ run.owner \in {NoTask, t} \/ run.lease # "live"
  /\ run' = [run EXCEPT !.status = "FAILED", !.owner = t, !.lease = "live"]
  /\ End(t)
  /\ UNCHANGED <<drafts, api, sweeper, budget, blind, stranded>>

\* A credential that does not decrypt, a provider that is not built, a context that does
\* not compile: the first transaction raises and is rolled back, the status with it.
OpenRaises(t) ==
  /\ task[t].pc = "queued" /\ Spend("faults")
  /\ run.status # "CANCELLED"
  /\ run.owner \in {NoTask, t} \/ run.lease # "live"
  /\ Goto(t, "raised", 1)
  /\ UNCHANGED <<run, drafts, api, sweeper, budget, blind, stranded>>

\* A later transaction reads the run: before a chapter, after its draft, at the end, or
\* in the exception handler.
Transaction(t) == IF task[t].pc = "drafted" THEN "commit"
             ELSE IF task[t].pc = "raised" THEN "fail"
             ELSE IF task[t].at > Chapters THEN "finish" ELSE "begin"
Read(t) ==
  /\ task[t].pc \in {"chapter", "drafted", "raised"}
  /\ task' = [task EXCEPT ![t].pc = Transaction(t), ![t].saw = run]
  /\ UNCHANGED <<run, drafts, api, sweeper, budget, left, blind, stranded>>

\* superseded, and the checks around it.
Superseded(t, saw) == saw.status = "RETRYING" \/ saw.active \notin {NoTask, t} \/ saw.owner # t
GivesWay(t) == task[t].saw.status \in {"CANCELLED", "PAUSED"} \/ Superseded(t, task[t].saw)

GiveWay(t) ==
  /\ task[t].pc \in {"begin", "commit"} /\ GivesWay(t)
  /\ End(t)
  /\ UNCHANGED <<run, drafts, api, sweeper, budget, left, blind, stranded>>

\* The whole checkpoint document is written back, the active task id as it was read.
Checkpointed(saw) == [run EXCEPT !.active = saw.active, !.lease = "live"]
Begin(t) ==
  /\ task[t].pc = "begin" /\ ~GivesWay(t) /\ budget
  /\ run' = Checkpointed(task[t].saw)
  /\ blind' = (blind \/ Stale(task[t].saw) \/ task[t].saw.active # run.active)
  /\ Goto(t, "drafting", task[t].at)
  /\ UNCHANGED <<drafts, api, sweeper, budget, left, stranded>>

\* RUNNING has no transition to BUDGET_BLOCKED: the block raises.
OverBudget(t) ==
  /\ task[t].pc = "begin" /\ ~GivesWay(t) /\ ~budget
  /\ Goto(t, "raised", 1)
  /\ UNCHANGED <<run, drafts, api, sweeper, budget, left, blind, stranded>>

\* The writer and editor models answer, or one raises.
Draft(t) ==
  /\ task[t].pc = "drafting"
  /\ \/ Goto(t, "drafted", task[t].at) /\ UNCHANGED left
     \/ Goto(t, "raised", 1) /\ Spend("faults")
  /\ UNCHANGED <<run, drafts, api, sweeper, budget, blind, stranded>>

\* The version is appended and becomes the active one.
Commit(t) ==
  /\ task[t].pc = "commit" /\ ~GivesWay(t)
  /\ drafts' = drafts \cup {task[t].at}
  /\ run' = [Checkpointed(task[t].saw) EXCEPT !.lease = run.lease]
  /\ blind' = (blind \/ Stale(task[t].saw) \/ task[t].saw.active # run.active)
  /\ Goto(t, "chapter", task[t].at + 1)
  /\ UNCHANGED <<api, sweeper, budget, left, stranded>>

\* After the last chapter only the status is asked for.
Finish(t) ==
  /\ task[t].pc = "finish"
  /\ IF task[t].saw.status = "RUNNING"
       THEN /\ run' = [run EXCEPT !.status = "COMPLETED"]
            /\ blind' = (blind \/ Stale(task[t].saw))
       ELSE UNCHANGED <<run, blind>>
  /\ End(t)
  /\ UNCHANGED <<drafts, api, sweeper, budget, left, stranded>>
\* celery retries a task that raised, under the same id.
Retried(t) ==
  IF task[t].tries < MaxRetries
    THEN task' = [task EXCEPT ![t] = [Idle EXCEPT !.pc = "queued", !.tries = task[t].tries + 1]]
    ELSE End(t)
\* Mutant: the exception handler does not ask for the status.
FailAnyStatus(t) ==
  /\ task[t].pc = "fail"
  /\ run' = [run EXCEPT !.status = "FAILED"]
  /\ blind' = (blind \/ Stale(task[t].saw))
  /\ Retried(t)
  /\ UNCHANGED <<drafts, api, sweeper, budget, left, stranded>>

\* The exception handler fails a run in progress, whoever drives it.  It leaves a QUEUED
\* run alone, and the last retry of the task leaves it to nobody.
Fail(t) ==
  /\ task[t].pc = "fail"
  /\ IF task[t].saw.status \in {"RUNNING", "RETRYING", "RECOVERING"}
       THEN /\ run' = [run EXCEPT !.status = "FAILED"]
            /\ blind' = (blind \/ Stale(task[t].saw))
       ELSE UNCHANGED <<run, blind>>
  /\ stranded' = (stranded \/ (task[t].saw.status = "QUEUED" /\ task[t].tries = MaxRetries))
  /\ Retried(t)
  /\ UNCHANGED <<drafts, api, sweeper, budget, left>>

\* The worker dies: the task is redelivered.
Crash(t) ==
  /\ task[t].pc \notin {"none", "queued", "done"} /\ Spend("faults")
  /\ Goto(t, "queued", 1)
  /\ UNCHANGED <<run, drafts, api, sweeper, budget, blind, stranded>>

-----------------------------------------------------------------------------
(* Requests *)

Halt(target) ==
  /\ target \in Transition[run.status] /\ Spend("controls")
  /\ run' = [run EXCEPT !.status = target]
  /\ UNCHANGED <<drafts, task, api, sweeper, budget, blind, stranded>>

\* resume and retry: the lease is cleared and the transition committed before the
\* successor is enqueued.
Successor(status) == IF "QUEUED" \in Transition[status] THEN "QUEUED" ELSE "RETRYING"
Restart ==
  /\ api.pc = "idle" /\ Successor(run.status) \in Transition[run.status] /\ Spend("controls")
  /\ run' = [run EXCEPT !.status = Successor(@), !.owner = NoTask, !.lease = "none"]
  /\ \E t \in Tasks : Unused(t) /\ api' = [pc |-> "send", sent |-> t]
  /\ UNCHANGED <<drafts, task, sweeper, budget, blind, stranded>>

Dispatch ==
  /\ api.pc = "send" /\ api' = [api EXCEPT !.pc = "record"]
  /\ task' = [task EXCEPT ![api.sent] = [Idle EXCEPT !.pc = "queued"]]
  /\ UNCHANGED <<run, drafts, sweeper, budget, left, blind, stranded>>
\* The broker refuses: the run fails, whatever it has become.
DispatchRefused ==
  /\ api.pc = "send" /\ Spend("faults")
  /\ blind' = (blind \/ run.status \notin {"QUEUED", "RETRYING"})
  /\ run' = [run EXCEPT !.status = "FAILED"]
  /\ api' = [pc |-> "idle", sent |-> NoTask]
  /\ UNCHANGED <<drafts, task, sweeper, budget, stranded>>
\* set_task: the document of the request's session, with the new id.
Record ==
  /\ api.pc = "record"
  /\ run' = [run EXCEPT !.active = api.sent]
  /\ api' = [pc |-> "idle", sent |-> NoTask]
  /\ UNCHANGED <<drafts, task, sweeper, budget, left, blind, stranded>>
RequestDies ==
  /\ api.pc # "idle" /\ Spend("faults")
  /\ stranded' = (stranded \/ api.pc = "send")
  /\ api' = [pc |-> "idle", sent |-> NoTask]
  /\ UNCHANGED <<run, drafts, task, sweeper, budget, blind>>

-----------------------------------------------------------------------------
(* Leases *)

Live(t) == t # NoTask /\ task[t].pc \notin {"none", "queued", "done"}
\* The renewer keeps the lease of a task that drafts a chapter of a RUNNING run.
Renewed == \E t \in Tasks : run.owner = t /\ task[t].pc = "drafting" /\ run.status = "RUNNING"
Lapse == run.lease = "live" /\ ~Renewed /\ run' = [run EXCEPT !.lease = "lapsed"]
LapseDead ==
  /\ ~Live(run.owner) /\ Lapse
  /\ UNCHANGED <<drafts, task, api, sweeper, budget, left, blind, stranded>>
LapseLive ==
  /\ Live(run.owner) /\ Lapse /\ Spend("slow")
  /\ UNCHANGED <<drafts, task, api, sweeper, budget, blind, stranded>>

\* recover_expired selects the row and updates it by its key.  Nothing enqueues a task.
SweepSelect ==
  /\ sweeper.pc = "idle" /\ run.status = "RUNNING" /\ run.lease = "lapsed"
  /\ sweeper' = [pc |-> "update", saw |-> run]
  /\ UNCHANGED <<run, drafts, task, api, budget, left, blind, stranded>>
SweepUpdate ==
  /\ sweeper.pc = "update"
  /\ run' = [run EXCEPT !.status = "RECOVERING", !.owner = NoTask, !.lease = "none"]
  /\ blind' = (blind \/ Stale(sweeper.saw))
  /\ sweeper' = [pc |-> "idle", saw |-> Idle.saw]
  /\ UNCHANGED <<drafts, task, api, budget, left, stranded>>

-----------------------------------------------------------------------------

Step(t) == \/ Open(t) \/ Read(t) \/ GiveWay(t) \/ Begin(t) \/ OverBudget(t) \/ Draft(t)
           \/ Commit(t) \/ Finish(t) \/ Fail(t)
Request == Dispatch \/ Record
Sweep == SweepSelect \/ SweepUpdate

Next ==
  \/ \E t \in Tasks : Step(t) \/ OpenRefused(t) \/ OpenRaises(t) \/ Crash(t)
  \/ \E target \in {"PAUSED", "CANCELLED"} : Halt(target)
  \/ Restart \/ Request \/ DispatchRefused \/ RequestDies
  \/ LapseDead \/ LapseLive \/ Sweep

Spec == /\ Init /\ [][Next]_vars
        /\ \A t \in Tasks : WF_vars(Step(t))
        /\ WF_vars(Request) /\ WF_vars(LapseDead) /\ WF_vars(Sweep)

-----------------------------------------------------------------------------
(* Properties *)

Deliveries == [pc : {"none", "queued", "chapter", "begin", "drafting", "drafted", "commit",
                     "finish", "raised", "fail", "done"},
               at : 1 .. Chapters + 1, tries : 0 .. MaxRetries, saw : Runs]
TypeOK ==
  /\ run \in Runs /\ drafts \subseteq 1 .. Chapters /\ task \in [Tasks -> Deliveries]
  /\ api \in [pc : {"idle", "send", "record"}, sent : Ids]
  /\ sweeper \in [pc : {"idle", "update"}, saw : Runs]
  /\ left \in Bounds /\ {budget, blind, stranded} \subseteq BOOLEAN

\* A cancelled run stays cancelled: a late draft, a provider error, a redelivery, a retry
\* of the task or the sweep do not reopen it, unless they had read it before the cancel.
CancelSticks ==
  [][run.status = "CANCELLED" /\ run'.status # "CANCELLED" => blind']_vars

\* No run stays QUEUED, RUNNING or RETRYING for ever: it ends, is stopped, or becomes
\* RECOVERING, whatever tasks died, raised, were redelivered or gave way to one another,
\* unless its request died before the dispatch, or every try of its task raised before the
\* run was opened.
LeavesActive ==
  (run.status \in {"QUEUED", "RUNNING", "RETRYING"} /\ ~stranded)
     ~> (run.status \notin {"QUEUED", "RUNNING", "RETRYING"} \/ stranded)

\* A task that lost the run to a successor fails it no more (the PermissionError branch of
\* generate_novel says so of a revoked lease).
SuccessorIsSafe ==
  [][\A t \in Tasks : task[t].pc = "fail" /\ task'[t].pc # "fail" /\ run.owner \notin {t, NoTask}
       => run'.status = run.status]_vars
=============================================================================
