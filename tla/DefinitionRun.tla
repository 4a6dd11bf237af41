---------------------------- MODULE DefinitionRun ----------------------------
(***************************************************************************)
(* A run of a workflow definition.  A task of the queue walks the nodes of *)
(* the run in topological order, one transaction per node, under a lease   *)
(* on the run row; pause, resume, cancel and retry come from requests; two *)
(* beat tasks take a run whose lease lapsed back to the queue.             *)
(*                                                                         *)
(* The database is PostgreSQL (the celery profile): an UPDATE of the run   *)
(* row locks it until its transaction ends, a plain SELECT waits for       *)
(* nothing and sees what is committed.  A node is RUNNING only inside the  *)
(* transaction that works on it, so no other one ever sees it RUNNING.     *)
(***************************************************************************)
EXTENDS Naturals, Sequences, FiniteSets

CONSTANTS
  Order,      \* the node keys in topological order
  Tasks,      \* task ids of execute_v2_run (numbers); a task's id is its lease owner
  Scenarios   \* how the run was created and how much of each thing happens to it

Nodes == {Order[i] : i \in DOMAIN Order}
NoOne == 0
\* controls: pause, resume, cancel and retry requests; faults: handlers that raise,
\* workers that die, brokers that refuse; slow: leases that lapse under a live
\* worker; deletes: of the definition.
Bounds == [controls : Nat, faults : Nat, slow : Nat, deletes : Nat]

ASSUME WalkAssumption ==
  /\ Order \in Seq(STRING) /\ \A i, j \in DOMAIN Order : Order[i] = Order[j] => i = j
  /\ Tasks \subseteq Nat \ {NoOne}
  /\ \A s \in Scenarios : s.over \subseteq Nodes /\ s.bounds \in Bounds

VARIABLES
  run,      \* the workflow_runs row: status, lease owner and lease expiry
  node,     \* the status of each workflow_node_states row
  retries,  \* its retry_count
  done,     \* how often the effects of the node's handler were committed
  task,     \* the deliveries of execute_v2_run
  api,      \* the request that is enqueueing a task
  sweeper,  \* the beat task in progress
  defined,  \* whether the definition still exists
  over,     \* nodes whose reservation exceeds the limits of the run
  left,     \* what is left of each bound
  blind,    \* history: a run row was written by who had not read its last change
  stranded  \* history: the task that should drive the run was lost

rows == <<run, node, retries, done>>
vars == <<rows, task, api, sweeper, defined, over, left, blind, stranded>>

Terminal == {"COMPLETED", "FAILED", "CANCELLED"}
Stopped == Terminal \cup {"PAUSED", "BUDGET_BLOCKED"}
Active == {"QUEUED", "RUNNING", "RECOVERING"}
NodeStatuses == {"PENDING", "COMPLETED", "FAILED", "BLOCKED"}
Leases == {"none", "live", "lapsed"}
Run(status, owner, lease) == [status |-> status, owner |-> owner, lease |-> lease]
Runs == [status : Active \cup Stopped, owner : Tasks \cup {NoOne}, lease : Leases]

-----------------------------------------------------------------------------
(* Rows and locks *)
\* Mutant: the heartbeat is written with the result of the node, so that nothing is locked.
FreeUnlocked == api.pc # "commit"

Free == /\ \A t \in Tasks : task[t].pc # "working"
        /\ api.pc # "commit"

\* A session writes the columns it changed of the row it had read; a renewed lease is
\* always a change.
Write(saw, new) ==
  /\ Free
  /\ run' = [status |-> IF new.status = saw.status THEN run.status ELSE new.status,
             owner |-> IF new.owner = saw.owner THEN run.owner ELSE new.owner,
             lease |-> IF new.lease = "none" /\ saw.lease = "none" THEN run.lease ELSE new.lease]
Overwrites(saw) == <<saw.status, saw.owner>> # <<run.status, run.owner>>
Flush(saw, new) == Write(saw, new) /\ blind' = (blind \/ Overwrites(saw))

\* acquire_lease: refused while another owner's lease is live.
Acquirable(saw, t) == saw.owner \in {NoOne, t} \/ saw.lease # "live"
\* _release_run_lease: the lease is cleared whoever holds it.
Released(status) == Run(status, NoOne, "none")
NoRequest == [pc |-> "idle", action |-> "none", sent |-> NoOne]
NoSweep == [pc |-> "idle", saw |-> Released("QUEUED")]
NoTask == [pc |-> "none", at |-> 1, saw |-> Released("QUEUED"), whole |-> FALSE]
Spend(what) == left[what] > 0 /\ left' = [left EXCEPT ![what] = @ - 1]
Goto(t, pc) == task' = [task EXCEPT ![t].pc = pc]
End(t) == task' = [task EXCEPT ![t] = [NoTask EXCEPT !.pc = "done"]]
Whole == \A n \in Nodes : node[n] = "COMPLETED"

\* A task id that is not in use, a new one or one that nobody remembers.
Fresh(t) == /\ task[t].pc \in {"none", "done"} /\ t \notin {run.owner, sweeper.saw.owner}
            /\ \A u \in Tasks : task[u].saw.owner # t
Send(t) == /\ Fresh(t) /\ \A u \in Tasks : u < t => ~Fresh(u)
           /\ task' = [task EXCEPT ![t] = [NoTask EXCEPT !.pc = "queued"]]

\* WorkflowRunService.create has committed; the route has yet to enqueue the executor.
\* A run whose reservations exceed a limit starts blocked and is not enqueued.
Init ==
  /\ \E s \in Scenarios :
       /\ over = s.over /\ left = s.bounds
       /\ run = Released(IF s.over = {} THEN "RUNNING" ELSE "BUDGET_BLOCKED")
       /\ node = [n \in Nodes |-> IF s.over = {} THEN "PENDING" ELSE "BLOCKED"]
       /\ api = [NoRequest EXCEPT !.pc = IF s.over = {} THEN "create" ELSE "idle"]
  /\ retries = [n \in Nodes |-> 0] /\ done = [n \in Nodes |-> 0]
  /\ task = [t \in Tasks |-> NoTask]
  /\ sweeper = NoSweep
  /\ defined = TRUE /\ blind = FALSE /\ stranded = FALSE

-----------------------------------------------------------------------------
(* The executor *)

\* execute, _prepare: the run is read.  A stopped run ends the task, even if the request
\* that enqueued it to resume the run has not committed yet.
Deliver(t) ==
  /\ task[t].pc = "queued"
  /\ IF run.status \in Stopped
       THEN End(t)
       ELSE task' = [task EXCEPT ![t].pc = "prepare", ![t].saw = run]
  /\ stranded' = (stranded \/ (/\ api.pc = "commit" /\ api.sent = t
                              /\ (run.status \in Stopped \/ ~Acquirable(run, t))))
  /\ UNCHANGED <<rows, api, sweeper, defined, over, left, blind>>

\* _prepare: the lease is taken, then the definition is loaded.
Prepare(t) ==
  LET saw == task[t].saw IN
  /\ task[t].pc = "prepare"
  /\ IF ~Acquirable(saw, t)
       THEN End(t) /\ UNCHANGED <<run, blind>>
       ELSE IF defined
         THEN /\ Flush(saw, Run(IF saw.status = "QUEUED" THEN "RUNNING" ELSE saw.status, t, "live"))
              /\ task' = [task EXCEPT ![t] = [NoTask EXCEPT !.pc = "walk"]]
         ELSE Flush(saw, Released("FAILED")) /\ End(t)
  /\ UNCHANGED <<node, retries, done, api, sweeper, defined, over, left, stranded>>

Finalizing(t) == task[t].at > Len(Order)
\* _execute_node and _finalize: the run is read again, in _finalize the nodes too.
Check(t) ==
  /\ task[t].pc = "walk"
  /\ task' = [task EXCEPT ![t].pc = "checked", ![t].saw = run,
                             ![t].whole = Finalizing(t) /\ Whole]
  /\ UNCHANGED <<rows, api, sweeper, defined, over, left, blind, stranded>>
\* Mutant: a cancel after the last node is not looked for.
StopsAtNodes(t) == task[t].saw.status \in IF Finalizing(t) THEN {"PAUSED", "BUDGET_BLOCKED"}
                                                    ELSE Stopped

\* _finalize takes a FAILED run on; a completed one is completed again.
Stops(t) == task[t].saw.status \in IF Finalizing(t) THEN {"CANCELLED", "PAUSED", "BUDGET_BLOCKED"}
                                                    ELSE Stopped
Checked(t) == task[t].pc = "checked" /\ UNCHANGED <<api, sweeper, defined, over, stranded>>

\* The run was paused, cancelled, blocked or ended: the lease is released.
Stop(t) ==
  /\ Checked(t) /\ Stops(t)
  /\ Flush(task[t].saw, Released(task[t].saw.status))
  /\ End(t)
  /\ UNCHANGED <<node, retries, done, left>>

\* Another owner holds the run.  _finalize does not ask.
Leave(t) ==
  /\ Checked(t) /\ ~Stops(t) /\ ~Finalizing(t) /\ task[t].saw.owner # t
  /\ End(t)
  /\ UNCHANGED <<rows, left, blind>>

Holds(t) == Checked(t) /\ ~Stops(t) /\ ~Finalizing(t) /\ task[t].saw.owner = t
Node(t) == Order[task[t].at]
Advance(t) == task' = [task EXCEPT ![t] = [NoTask EXCEPT !.pc = "walk", !.at = task[t].at + 1]]

\* _execute_node: the heartbeat locks the run row, and only then the node is read.
Skip(t) ==
  /\ Holds(t) /\ node[Node(t)] = "COMPLETED"
  /\ Flush(task[t].saw, [task[t].saw EXCEPT !.lease = "live"])
  /\ Advance(t)
  /\ UNCHANGED <<node, retries, done, left>>

\* A blocked node, or one whose reservation exceeds the budget, blocks the run.
Block(t) ==
  /\ Holds(t)
  /\ \/ node[Node(t)] = "BLOCKED"
     \/ node[Node(t)] = "PENDING" /\ Node(t) \in over
  /\ Flush(task[t].saw, Released("BUDGET_BLOCKED"))
  /\ node' = [node EXCEPT ![Node(t)] = "BLOCKED"]
  /\ End(t)
  /\ UNCHANGED <<retries, done, left>>

\* A node that is neither pending nor running fails the run.
Refuse(t) ==
  /\ Holds(t) /\ node[Node(t)] = "FAILED"
  /\ Flush(task[t].saw, Released("FAILED"))
  /\ End(t)
  /\ UNCHANGED <<node, retries, done, left>>

\* The node is marked RUNNING, its budget reserved and its handler called, all in the
\* transaction that holds the run row.
Work(t) ==
  /\ Holds(t) /\ Free /\ node[Node(t)] = "PENDING" /\ Node(t) \notin over
  /\ task' = [task EXCEPT ![t] = [NoTask EXCEPT !.pc = "working", !.at = task[t].at]]
  /\ UNCHANGED <<rows, left, blind>>

\* The handler returned.  The lease check before the commit compares what the session
\* loaded at the start, so it cannot fail.
Complete(t) ==
  /\ task[t].pc = "working"
  /\ run' = [run EXCEPT !.lease = "live"]
  /\ node' = [node EXCEPT ![Node(t)] = "COMPLETED"]
  /\ done' = [done EXCEPT ![Node(t)] = @ + 1]
  /\ Advance(t)
  /\ UNCHANGED <<retries, api, sweeper, defined, over, left, blind, stranded>>

\* The handler raised: the transaction is rolled back.
Raise(t) ==
  /\ task[t].pc = "working" /\ Spend("faults") /\ Goto(t, "failing")
  /\ UNCHANGED <<rows, api, sweeper, defined, over, blind, stranded>>

\* _mark_failed, in a new transaction: the run and the node fail, whatever became of
\* them and whoever holds the lease since the rollback.
MarkFailed(t) ==
  /\ task[t].pc = "failing" /\ Free
  /\ run' = Released("FAILED")
  /\ node' = [node EXCEPT ![Node(t)] = "FAILED"]
  /\ End(t)
  /\ UNCHANGED <<retries, done, api, sweeper, defined, over, left, blind, stranded>>
\* Mutant: the nodes are not looked at again at the end.
FinalizeAnyway(t) ==
  /\ Checked(t) /\ Finalizing(t) /\ ~Stops(t)
  /\ Flush(task[t].saw, Released("COMPLETED"))
  /\ End(t)
  /\ UNCHANGED <<node, retries, done, left>>

\* _finalize: completed, or failed because a node is not.
Finalize(t) ==
  /\ Checked(t) /\ Finalizing(t) /\ ~Stops(t)
  /\ Write(task[t].saw, Released(IF task[t].whole THEN "COMPLETED" ELSE "FAILED"))
  /\ blind' = (blind \/ Overwrites(task[t].saw) \/ task[t].whole # Whole)
  /\ End(t)
  /\ UNCHANGED <<node, retries, done, left>>

\* The worker dies; the broker redelivers the task under the same id (acks_late,
\* reject_on_worker_lost).
Crash(t) ==
  /\ task[t].pc \notin {"none", "queued", "done"} /\ Spend("faults")
  /\ task' = [task EXCEPT ![t] = [NoTask EXCEPT !.pc = "queued"]]
  /\ UNCHANGED <<rows, api, sweeper, defined, over, blind, stranded>>

-----------------------------------------------------------------------------
(* Requests *)

\* The first dispatch.  If the broker refuses, the route puts the run back to QUEUED.
CreateSend ==
  /\ api.pc = "create"
  /\ \/ (\E t \in Tasks : Send(t)) /\ UNCHANGED <<run, left, blind>>
     \/ Flush(Released("RUNNING"), Released("QUEUED")) /\ Spend("faults") /\ UNCHANGED task
  /\ api' = NoRequest
  /\ UNCHANGED <<node, retries, done, sweeper, defined, over, stranded>>

\* The API dies before the dispatch of the committed run.
CreateCrash ==
  /\ api.pc = "create" /\ Spend("faults")
  /\ api' = NoRequest /\ stranded' = TRUE
  /\ UNCHANGED <<rows, task, sweeper, defined, over, blind>>

\* WorkflowRunService.control under SELECT ... FOR UPDATE.
Allowed(action) ==
  [pause |-> Active, resume |-> {"PAUSED", "BUDGET_BLOCKED", "RECOVERING"},
   cancel |-> (Active \cup Stopped) \ {"COMPLETED", "CANCELLED"},
   retry |-> {"FAILED", "PAUSED", "BUDGET_BLOCKED"}][action]
Control(action) == Free /\ run.status \in Allowed(action) /\ Spend("controls")

Halt(action) ==
  /\ Control(action)
  /\ run' = [run EXCEPT !.status = IF action = "pause" THEN "PAUSED" ELSE "CANCELLED"]
  /\ UNCHANGED <<node, retries, done, task, api, sweeper, defined, over, blind, stranded>>

\* Resume and retry enqueue the executor before they commit.
Restart(action) ==
  /\ Control(action) /\ api.pc = "idle"
  /\ \/ \E t \in Tasks : Send(t) /\ api' = [pc |-> "commit", action |-> action, sent |-> t]
     \/ left.faults > 0 /\ api' = [pc |-> "commit", action |-> action, sent |-> NoOne] /\ UNCHANGED task
  /\ UNCHANGED <<rows, sweeper, defined, over, blind, stranded>>
RestartCommit ==
  LET again == {n \in Nodes : api.action = "retry" /\ node[n] \in {"FAILED", "BLOCKED"}} IN
  /\ api.pc = "commit"
  /\ run' = Released(IF api.sent = NoOne THEN "QUEUED" ELSE "RUNNING")
  /\ node' = [n \in Nodes |-> IF n \in again THEN "PENDING" ELSE node[n]]
  /\ retries' = [n \in Nodes |-> IF n \in again THEN retries[n] + 1 ELSE retries[n]]
  /\ api' = NoRequest
  /\ UNCHANGED <<done, task, sweeper, defined, over, left, blind, stranded>>

\* WorkflowDefinitionService.delete: the runs of the definition stay.
DeleteDefinition ==
  /\ Spend("deletes") /\ defined' = FALSE
  /\ UNCHANGED <<rows, task, api, sweeper, over, blind, stranded>>

-----------------------------------------------------------------------------
(* Recovery *)

\* Time: a lease lapses when its holder is gone, or works longer than its term.
Held == run.owner # NoOne /\ task[run.owner].pc \notin {"none", "queued", "done"}
Lapse == run.lease = "live" /\ run' = [run EXCEPT !.lease = "lapsed"]
LapseDead ==
  /\ ~Held /\ Lapse
  /\ UNCHANGED <<node, retries, done, task, api, sweeper, defined, over, left, blind, stranded>>
LapseLive ==
  /\ Held /\ Lapse /\ Spend("slow")
  /\ UNCHANGED <<node, retries, done, task, api, sweeper, defined, over, blind, stranded>>
\* Mutant: a run in RECOVERING is left to the requests.
SweepRunning ==
  /\ sweeper.pc = "idle"
  /\ \/ run.status = "RUNNING" /\ run.lease = "lapsed"
  /\ sweeper' = [pc |-> IF run.status = "RUNNING" THEN "recover" ELSE "requeue", saw |-> run]
  /\ UNCHANGED <<rows, task, api, defined, over, left, blind, stranded>>

\* repository.recover_expired selects a running run whose lease lapsed, and
\* recover_expired_workflow_nodes a run in RECOVERING; each then updates it by its key.
\* Neither finds a node to put back: none is committed as RUNNING.
SweepSelect ==
  /\ sweeper.pc = "idle"
  /\ \/ run.status = "RUNNING" /\ run.lease = "lapsed"
     \/ run.status = "RECOVERING"
  /\ sweeper' = [pc |-> IF run.status = "RUNNING" THEN "recover" ELSE "requeue", saw |-> run]
  /\ UNCHANGED <<rows, task, api, defined, over, left, blind, stranded>>
SweepUpdate ==
  /\ sweeper.pc # "idle"
  /\ Flush(sweeper.saw, Released(IF sweeper.pc = "recover" THEN "RECOVERING" ELSE "QUEUED"))
  /\ sweeper' = NoSweep
  /\ UNCHANGED <<node, retries, done, task, api, defined, over, left, stranded>>

\* Every tick sends a task for a run it finds QUEUED, sent before or not.
Requeue ==
  /\ run.status = "QUEUED" /\ \E t \in Tasks : Send(t)
  /\ UNCHANGED <<rows, api, sweeper, defined, over, left, blind, stranded>>

-----------------------------------------------------------------------------

Walk(t) == \/ Deliver(t) \/ Prepare(t) \/ Check(t) \/ Stop(t) \/ Leave(t) \/ Skip(t)
           \/ Block(t) \/ Refuse(t) \/ Work(t) \/ Complete(t) \/ MarkFailed(t) \/ Finalize(t)
Request == CreateSend \/ RestartCommit
Recovery == LapseDead \/ SweepSelect \/ SweepUpdate \/ Requeue

Next ==
  \/ \E t \in Tasks : Walk(t) \/ Raise(t) \/ Crash(t)
  \/ Request \/ CreateCrash
  \/ \E action \in {"pause", "cancel"} : Halt(action)
  \/ \E action \in {"resume", "retry"} : Restart(action)
  \/ DeleteDefinition
  \/ Recovery \/ LapseLive

\* Workers, the API and the beat keep running; users, faults and slow handlers need not.
Spec == /\ Init /\ [][Next]_vars
        /\ \A t \in Tasks : WF_vars(Walk(t))
        /\ WF_vars(Request) /\ WF_vars(LapseDead)
        /\ WF_vars(SweepSelect) /\ WF_vars(SweepUpdate) /\ WF_vars(Requeue)

-----------------------------------------------------------------------------
(* Properties *)

Deliveries == [pc : {"none", "queued", "prepare", "walk", "checked", "working", "failing", "done"},
               at : 1 .. Len(Order) + 1, saw : Runs, whole : BOOLEAN]
TypeOK ==
  /\ run \in Runs /\ node \in [Nodes -> NodeStatuses]
  /\ retries \in [Nodes -> Nat] /\ done \in [Nodes -> Nat]
  /\ task \in [Tasks -> Deliveries]
  /\ api \in [pc : {"idle", "create", "commit"},
              action : {"none", "resume", "retry"}, sent : Tasks \cup {NoOne}]
  /\ sweeper \in [pc : {"idle", "recover", "requeue"}, saw : Runs]
  /\ over \subseteq Nodes /\ left \in Bounds
  /\ {defined, blind, stranded} \subseteq BOOLEAN

\* A chapter version or an export is written once for each time the node was asked for:
\* two tasks of one run, a redelivery, a pause and a resume, or a lease that lapsed under
\* a long handler never commit the effects of a node twice, because the heartbeat that
\* locks the run row comes before the node is read.
WorkedOnce == \A n \in Nodes : done[n] <= 1 + retries[n]

\* A completed run is complete, even when a handler of an earlier delivery failed late
\* (_mark_failed takes the node back), unless its last update relied on rows that had changed.
CompletedIsWhole == run.status = "COMPLETED" /\ ~blind => Whole

\* A cancelled run stays cancelled.  Only a handler that failed (_mark_failed asks for
\* nothing) or a transaction that had read the run before the cancel reopens it.
CancelSticks ==
  [][run.status = "CANCELLED" /\ run'.status # "CANCELLED"
       => blind' \/ \E t \in Tasks : task[t].pc = "failing" /\ task'[t].pc = "done"]_vars

\* A run that should be running comes to an end or a stop, over crashed workers, refused
\* dispatches and lapsed leases, unless nobody was left to drive it.
RunSettles ==
  (run.status \in Active /\ ~stranded /\ ~blind) ~> (run.status \in Stopped \/ stranded \/ blind)
=============================================================================
