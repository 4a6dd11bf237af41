# A TLA+ model of ProseForge's execution core

ProseForge writes novels with teams of language-model agents.  Its hard part is
not the writing: it is keeping long, expensive, restartable work consistent
while queue messages are delivered twice, leases expire, users pause and
cancel, providers go down and processes die.  These modules model that part,
check it with TLC on small instances and prove the central facts with TLAPS.

All source paths below are relative to `src/proseforge/`.

## 1. The system

| Component | State it keeps | Operations | What is hard |
|---|---|---|---|
| Local task queue (`infrastructure/tasks/local.py`, `worker.py`) | rows of `task_jobs`: status, attempts, lease token, lease, due time; the worker pool and its `_active_jobs` | enqueue, cancel, claim, complete, retry, release, recover_expired, start, stop | statements of one transaction interleave with other workers; leases are not renewed; stop cancels workers anywhere |
| Queue backends (`infrastructure/tasks/*`, `workflows/celery_app.py`) | broker messages | late ack, redelivery, beat schedule | duplicates, redelivery after death |
| Agent run executor (`workflows/agent_executor.py`) | `agent_runs`, `agent_tasks`, `agent_artifacts`, `agent_events`, and the locals of one execution | recover, gates, claim a batch, call models in parallel, commit each result, close the run | reads without locks, two executors of one run, leases, retries, automatic pause |
| Run creation and control (`application/agents/create_run.py`, `api/routes/agent_runs.py`) | the run row | create, pause, resume, cancel, retry run, retry task | commit first, enqueue after, roll back on failure |
| Auto-resume prober (`application/agents/auto_resume.py`) | probe events | scan, probe, resume | a model call between read and write |
| Message sweeper (`application/messages/sweeper.py`) | run and message rows | fail runs whose executor is lost; fail expired messages; replay message and chapter write-backs | decides on what it read |
| Batch dispatcher (`application/agents/batch_dispatch.py`) | `batch.*` events, idempotency keys | plan after analysis, dispatch the next chapter, close, terminate, stall | hooks lost, repeated and concurrent |
| Chat generation (`application/conversations/*`, `application/tools/orchestrator.py`, `workflows/tasks.py`) | message row, its numbered chunks, tool log | send, claim, stream, cancel, retry, continue, tool rounds | stop races the last transaction; redelivery; two retries |
| Chapter memory (`application/retrieval/indexing.py`, `application/work/*`, `application/revision/*`) | active versions, summaries, recaps, retrieval documents, job rows, proposals | edit, approve, write back, index, summarize, roll up, recompute, rebuild | a model call or an embedding between the read of a version and the write of what was made from it |
| Definition workflows (`application/workflows/*`, `workflows/v2_tasks.py`) | run and node rows, lease | prepare, work on a node, finalise, control, recover | two recovery channels, control before commit, late failures |
| Novel workflow (`workflows/tasks.py`, `application/workflows/control.py`) | run row, checkpoint document, chapters | draft, checkpoint, renew, pause, resume, retry, cancel, recover | a document written whole by several parties; predecessor and successor |
| Promise ledger (`application/agents/promise_handlers.py`, `pinpoint_rewrite.py`, `application/story_bible/*`) | `story_bible_entries` rows of kind promise | contract, rewrite, verify, register, sync; the user's edits | version counter without a check |
| Local model server (`infrastructure/embeddings/llama_server.py`) | lock files, weights, status file, server processes | download, start, share, restart | several processes, stale locks, dead owners |
| Event log (`infrastructure/events/*`) | numbered events per stream | append, publish, subscribe | sequence allocation |
| Task graphs, ranking, prompts, provider clients, sandbox, operations, accounts, UI | — | — | data, I/O and presentation: see section 6 |

They interact through the database and the queue.  The API commits a run and
enqueues `proseforge.agents.execute_run`; a queue worker calls `execute_run`;
every terminal exit calls `run_terminal_hooks`, which writes the chat message
and the chapter, and lets the batch dispatcher create the next run; writing the
chapter queues the jobs that index and summarize it; the prober and the
sweepers are periodic tasks on the same rows.

What makes each correct, in a line: a queue job is executed by one worker at a
time and closed once, with the result of the execution that holds it; a run's
task starts after what it depends on and yields one artifact, a cancelled run
does nothing more, a completed run is done and is reported, and no active run is
left undriven; a batch writes its chapters in order, one at a time, and ends; a
reply is streamed by one worker, loses no frame, settles, and stays cancelled
once the user was told so; an index or a recap that claims to be current is;
a node's effects are committed once; evidence for a promise is counted once,
kept, and missed aloud; the local model is downloaded and served once, and a
dead process stops nobody for good.  `PROJECT.json` lists the hazards behind
these, line by line, with the property that covers each.

## 2. Modules

| Module | What it is |
|---|---|
| `LocalTaskQueue` | the `task_jobs` table and the worker pool, statement by statement |
| `ExclusiveQueue` | what a task queue promises (abstract); `LocalTaskQueue` refines it |
| `AgentRun` | one agent run and everyone who writes it: executions, clients, prober, sweeper |
| `BatchChain` | the batch dispatcher: the hooks of a batch, the chapter runs, and who changes them |
| `SerialChain` | what the dispatcher promises (abstract); `BatchChain` refines it |
| `MessageReply` | one assistant message: a streamed reply, or the placeholder of a run |
| `ChapterMemory` | versions, summaries, recaps, retrieval documents and the jobs between them |
| `DefinitionRun` | a run of a workflow definition (V2) |
| `NovelRun` | a run of the novel generation workflow (V1) |
| `PromiseLedger` | the promise rows, the runs that write them, and the user |
| `ModelServer` | the local embedding model, shared through lock files |
| `MC…` | instances for TLC: graphs, scenarios, symmetry sets |
| `LocalTaskQueueProofs`, `AgentRunProofs`, `ChapterMemoryProofs`, `MessageReplyProofs`, `NovelRunProofs`, `PromiseLedgerProofs`, `ModelServerProofs` | TLAPS proofs of one model each |
| `WorkflowProofs` | TLAPS proofs of `BatchChain` and of `DefinitionRun` |

Three conventions run through the newer modules.  A transaction that decides on
what it read is two steps, the read and the write, unless the code locks the
row.  A boolean or set of history (`blind`, `stranded`, `stolen`, `calm`) records
that a write relied on a row that had changed, or that the party that should go
on was lost; a property that the code breaks in just that case names it, and
section 4 says what happens without it.  What may go wrong in a behaviour is
given by `Scenarios`: the initial state picks one, and `left` counts down what
is left of each fault.

### LocalTaskQueue

State: one function per column (`status`, `attempts`, `token`, `lease`, `due`),
and per worker its place in `_run_loop` (`pc`), the job it selected or runs
(`held`) and the token it read (`fence`).  `seen` is what `recover_expired` has
selected and not yet flushed, `active` is `_active_jobs`.  `mode` follows
start, stop, its grace period and the death of the process.

| Actions | Code |
|---|---|
| `Enqueue`, `Cancel` | `local.py` enqueue, cancel |
| `SweepRead`, `SweepWrite` | `recover_expired`: the SELECT, and the flush by primary key |
| `ClaimSelect`, `ClaimNothing`, `ClaimCommit`/`ClaimLost`, `ClaimRead` | `claim`: SELECT, conditional UPDATE and commit, the second read |
| `HandlerReturns`, `HandlerRaises`, `Complete`, `Retry` | `_run_loop`, `_finish`, `retry` |
| `BusyStatement`, `WorkerDies` | database errors that are caught, and those that are not |
| `StopBegin`, `LeaveLoop`, `GraceTimeout`, `Release`, `Unwind`, `StopEnd` | `LocalQueueWorker.stop` and cancellation |
| `Crash`, `Start`, `ExpireLease`, `BackoffElapses` | process death, restart, time |

SQLite is run with the driver's legacy transactions: a SELECT alone takes no
snapshot, so the read and the write of `recover_expired` and of `claim` are
separate steps.  Nothing renews a lease, and the native handlers include whole
novels and agent runs, so a lease may run out under a live worker at any time;
`MaxFaults` bounds how often, together with stops, crashes and database errors.
`torn` records the jobs for which `claim` or `recover_expired` was overtaken
between its two statements: the code gives no promise for these (section 4), and
the abstract queue calls them broken.

### AgentRun

State: `run` is the `agent_runs` row with what its events say of it (failure
streak, automatic pause, failed probes); `task` the `agent_tasks` rows; `ex`
one record per worker slot with the locals of `execute_run`; `ctl` the control
request of each client; `probe` and `sweep` the periodic tasks; `mail` the
messages not yet delivered.

A transaction that decides on what it read is two actions, the read (`Read`,
`CommitRead`, `ControlRead`, `SweepRead`) and the write, as none of them locks
the rows; the prober's resume does and is one.  The properties of safety hold of
the split transactions, and say what the transactions that were open at a cancel,
or at a first commit, may still do (`StaleWriter`, `cm`).  `Interleave = FALSE`
makes them atomic and `Overlap = FALSE` keeps executions apart: only the liveness
run uses these, to stay small.

| Actions | Code |
|---|---|
| `Deliver`, `Duplicate`, `Crash` | celery: late ack, visibility timeout, redelivery under the same task id |
| `Read`, `Recover`, `GatePass`, `GateFail`, `FinalGateEnds`, `FinalGateRevises`, `Finish`, `Wait`, `DeadEnd` | the loop of `execute_run`, branch by branch |
| `Claim`, `ExhaustBudget`, `NoCredential` | the claim loop (812-903): conditional updates, the budget check, give-backs |
| `BuildProvider`, `ProviderRefused` | 960-983 |
| `HandlerEnds`, `Superseded`, `CommitRead`, `CommitReturn`, `CommitOk`, `CommitBackoff`, `CommitRepeat`, `CommitDegraded`, `CommitFailed`, `Join` | `run_claimed`: the model call and the commit under `commit_lock` |
| `ExecutorError`, `Hooks` | the outer except, `run_terminal_hooks` |
| `CreateRun`, `ControlRead`, `Pause`, `Resume`, `Cancel`, `RetryRun`, `RetryTask`, `Enqueue`, `EnqueueFails`, `RequestDies` | `create_agent_run`, `_control` |
| `ProbeScan`, `ProbeSucceeds`, `ProbeFails`, `ProbeEnqueue`, `ProbeEnqueueFails` | `probe_auto_paused_runs`, `_resume_after_probe` |
| `SweepRead`, `SweepWrite`, `SweepHooks` | pass 2 of `sweep_stale_run_messages` |
| `ExpireLease`, `BackoffElapses` | time |

Abstractions: what a model says is one of five outcomes; a gate's verdict is a
choice; the lane budgets are the constant `LaneLimit`; fault injection
(`fault_mode`), chat notices and other runs (the cap on active runs) are left
out; the chapter write-back is `ChapterMemory`'s; the task counters and the
limit of a run are taken as they are at the write; the two error transactions
(provider refused, outer except) are one action each; after an executor error
the rest of the batch is dropped at once, where the code lets handlers that are
about to commit do so until the event loop is closed; celery's three retries
are bounded by `MaxFailures`.  Tokens are small integers: a lane's limits of
hundreds of thousands matter only through comparisons.

### BatchChain

State: the `batch.*` events of the analyze run (`planned`, `events`), the status
of each chapter's run (`ch`), the messages and executions it has (`driven`), and
per handler the hook it is in (`hook`): the run and status it was fired with and
how far it has come; per user the control request in progress (`asked`): the run,
the status it read and the one it is to write.  `ch` is what `AgentRun` shows of one run, reduced to its
status; FAILED stands for BUDGET_EXHAUSTED too, which the dispatcher and the
control requests treat alike.

| Actions | Code |
|---|---|
| `AnalyzeCompletes`, `ChapterSettles`, `ObserveCancel`, `SweepLost` | the terminal exits that call `on_run_terminal` (executor, sweeper) |
| `Start`, `LeaveChapter`, `Redeliver` | the rest of an execution, seen from outside |
| `HookRead` (`Decision`) | `_load_batch_plan` and the decisions of `_plan_batch_after_analyze` and `_advance_batch_after_chapter` |
| `Replay`, `CreateChapter`, `CapReached`, `Enqueue`, `EnqueueFails`, `Stall` | `_dispatch_chapter`, `create_agent_run` and its failures |
| `Terminate`, `Close` | `batch.terminated`, `batch.completed` |
| `HookLost` | an exception `on_run_terminal` swallows, or the death of the process |
| `AskControl`, `ControlChapter`, `Redrive`, `TakeBack`, `AskLost` | `_control`: the unlocked read, the write of the status, the enqueue, the write-back of the old status when it fails, and the death of the process before it |
| `LeaveWorkMode` | the project's mode |

A hook's read of plan and end is a step of its own, as nothing locks them, and so
is a request's read of the run: what it writes goes over whatever the run has
become, a chapter that has ended in between included (`reopened`).
The creation of a run is one step: the partial unique index on the idempotency
key makes a lost race the same as finding the run.  In that case the hook's
transaction is dropped, its `batch.planned` event included.  An execution that
read its run before a pause, a cancel or the sweeper may still close it over
them, as `AgentRun` has it; `MaxFaults` bounds these with the other faults.  Left out: outlines with
fewer than two chapters (no batch), the text of goals and summaries, the
chapter write-back, deletion of a project (as leaving work mode), a retry of a
paused run (as a resume).  `BatchInit`, `BatchNext`, `BatchSpec` and
`BatchTypeOK` carry a prefix because `WorkflowProofs` extends this module together
with `DefinitionRun`.

### MessageReply

State: the message row (`owner`, `status`, `body`, `hash`), the numbered
`chunks`, the tool log, the broker's `queue`; per worker slot its place in
`generate_chat` and the row its session loaded; the user's `request`s; the agent
`run` a placeholder stands for and the processes that report it; `heard`, the
last terminal event on the stream.  `blind` collects which writes relied on a
status that had changed.

| Actions | Code |
|---|---|
| `SendChat`, `SendEnqueue`, `SendFails`, `SendRun`, `RunStart` | `send_message.py`, `dispatcher.py`, `swarm_entry.py` |
| `Stop`, `StopPublish`, `RequeueRead`, `RequeueWrite`, `RequeueEnqueue` | `stop_message`, `_requeue_message` (retry, continue): two transactions |
| `Take`, `Redeliver`, `Crash`, `Retry` | celery's delivery, death and `autoretry` of the chat task |
| `Prepass`, `Gate`, `Claim`, `ClaimLost`, `CompileFails`, `Build`, `Refuse` | `generate_chat` up to the stream |
| `Start`, `Open`, `Frame`, `Probe`, `StreamEnds`, `Flush`, `Append`, `Finish`, `Complete`, `Fail`, `Failing`, `Publish` | `GenerateReply.execute` with its cancel probe and chunk batcher |
| `ToolScan`, `ToolWrite`, `CircuitBreak`, `Raised`, `Fallback` | `run_tool_rounds`, and the except branches of `generate_chat` |
| `RunEnds`, `RunRevived`, `SweepRun`, `WriterLoad`, `WriterWrite`, `WriterPublish` | the terminal hook, the retry of a run, the sweeper's replay, `writeback_run_message` |

The text is its length and the tool fence it ends in.  Context compilation,
search and reasoning settings are one step that succeeds or fails.

### ChapterMemory

A text is the set of (chapter, version) pairs it was made from: an indexed
chapter has one, a recap several, so "current" is a comparison of sets.  State:
`active`, `written` and `summarized` versions, `recap` and `doc` (text, stale or
live), the `jobs` rows, proposals, and the place of each writer and worker.

| Actions | Code |
|---|---|
| `EditBegin`/`EditCommit`, `ApproveBegin`/`ApproveCommit`, `RejectBegin`/`RejectCommit`, `Propose`, `WritebackBegin`/`WritebackCommit`, `Put`, `Abort` | the writers; each ends in `SetActive`, which is `set_active_version` with everything it queues and invalidates |
| `IndexStart`/`IndexWrite`, `SummarizeStart`/`SummarizeWrite`/`SummarizeRollup`, `RollupStart`/`RollupWrite` | the jobs: the read before the embedding or the model call, and the write after |
| `Skip`, `Retried`, `Raise`, `Kill`, `Sweep`, `Rearm` | superseded jobs, failed attempts, dead workers, `sweep_pending_jobs`, the ten-minute re-arm |
| `Recompute`, `SaveSettings`, `Rebuild` | the recap recomputation of a scene pack, `put_embedding_settings` |

The queue that carries a row to a worker is `LocalTaskQueue`'s; here a pending
row may be delivered at any time, as the sweep dispatches again whatever stays
pending.  An indexing job may write a text that is no longer current; it is
excused (`blind`) only if it was overtaken: its row was taken from its worker,
or another job of the same source came to its end while it worked (`late`).
`RowLocks` says whether FOR UPDATE locks (PostgreSQL) or not (SQLite); the run has
it FALSE, the weaker of the two, and the proofs do not depend on it.
Left out: eras, volume boundaries, the state ledger and conflict rows, hunk
arithmetic.

### DefinitionRun

State: the run row (`status`, `owner`, `lease`), the node rows (`node`,
`retries`), `done` (how often a node's effects were committed), the deliveries
of `execute_v2_run`, the request in progress, the beat task in progress, and
whether the definition still exists.  The database is PostgreSQL: an UPDATE
holds the row's lock to the end of its transaction (`Free`), and a flush sends
only the columns whose value differs from what the session read (`Write`).
`Flush` is such a write which also records in `blind` whether status or owner
had changed since they were read (`Overwrites`).

| Actions | Code |
|---|---|
| `Deliver`, `Prepare`, `Check`, `Stop`, `Leave`, `Skip`, `Block`, `Refuse`, `Work`, `Complete`, `Raise`, `MarkFailed`, `Finalize` | `execute` and its transactions |
| `CreateSend`, `CreateCrash`, `Halt`, `Restart`, `RestartCommit` | `create_run`, `control_run`: the enqueue comes before the commit |
| `DeleteDefinition` | `definition_service.delete` |
| `SweepSelect`, `SweepUpdate`, `Requeue`, `LapseDead`, `LapseLive`, `Crash` | the recovery channels, leases, death |

Each node handler is one effect that is committed with the node's completion.
One sweeper runs at a time.  `MarkFailed` merges an unlocked read of the rows with
their write: it writes FAILED whatever it read, so what is left out are commits of
others in the few statements between the two.  Event rows, token counters and the replays of
idempotency keys are left out.

### NovelRun

State: the run row (status, lease owner, lease expiry, and `active_task_id` of
the checkpoint document: the task enqueued last), `drafts` (the chapters that
got a version from the run), the celery tasks, the request in progress, the
sweeper.  `Renewed` is the lease renewer, which beats while a chapter is drafted
and revokes the task when the run was taken over.

| Actions | Code |
|---|---|
| `Open`, `OpenRefused`, `OpenRaises`, `Read`, `Begin`, `Draft`, `GivesWay`, `Commit`, `Finish`, `Retried`, `Fail` (in `Step`) | `generate_novel` |
| `Halt`, `Restart`, `Dispatch`, `Record`, `DispatchRefused`, `RequestDies` | `control.py`: the transition, the enqueue, `set_task` |
| `SweepSelect`, `SweepUpdate` | `recover_expired` |

The writer and editor calls are one step that answers or raises.  The first
transaction may take the run (`Open`), fail it (`OpenRefused`), or raise
(`OpenRaises`: a credential that does not decrypt, a provider that is not built,
the context): then it is rolled back, the exception handler finds the run QUEUED
and leaves it, and the last retry of the task leaves it to nobody (`stranded`).

### PromiseLedger

State: the table `rows` (a row's id is its place), per run the step it is in and
its open transaction (`tx`: what it read, what it will write), `form` (the page
the user looks at) and what the run reported.  `Flushed` is SQLAlchemy's commit:
the columns that differ from what was read, no version in the WHERE clause; it
may collide with the unique key.

| Actions | Code |
|---|---|
| `Contract`, `RewriteRead`/`RewriteCommit`, `NoRewrite` | the contract of a run, `reconcile_promise_evidence` |
| `VerifyRead`/`VerifyCommit`/`VerifyFail`/`VerifyNone`/`VerifySkip`, `Report` | `_run_verify` |
| `RegisterRead`/`RegisterCommit`/`RegisterNone`, `SyncRead`/`SyncCommit`/`SyncNone` | `_run_register`, `sync_promises_from_goal` |
| `Look`, `Patch`, `ChangeStatus`, `ToggleExclude`, `Pin`, `Create` | the user's requests (`api/routes/story_bible.py`) |

Notes, categories and anchors are a bit that says whether `value_json` changed.

### ModelServer

State: the weights on disk and the status file, the two lock files with their
holder and whether they are old enough to be broken, the server processes, and
per calling process its place in the attempt.  Every system call is a step:
`Open` (O_EXCL), `Stat`, `Break` (judged stale), `Unlink`, `PollFetch`,
`PollServe`, `Fetch`, `Spawn`, `Await`, `Request`, `Restart`.  The servers
themselves (`Bind`, `Loaded`, `Gone`, `Exits`) are external.  A server that was
terminated may answer until it is gone (`MayAnswer`).  `stolen` records that a
lock grew old under its living holder, or that a lock that was not stale was
removed.  A new server takes one of the `FreeSlots`; their number is the only
bound on server processes.  The one assumption on time (`Settled`) is that a
server that starts has bound its port, or exited as the port is in use, before
any server has loaded its weights and before a lock is fifteen minutes old:
loading takes seconds to minutes, binding moments.  Not modelled: servers that
hang, a missing binary, the file that registers the server's pid and port for
whoever stops it, the fastembed backend.

## 3. Runs

| Run | Instance | What it shows |
|---|---|---|
| `queue_late` | 2 jobs, 2 workers, 2 attempts, two faults: stops, crashes, database errors, leases that run out under a live worker | `RegisteredIsHeld`, `ClosedIsFinal`, `EventuallyClosed`, and the refinement of `ExclusiveQueue` |
| `agent_serial` | a review chain of four tasks with both gates, one executor, one request, one crash | `RunSettles` |
| `agent_overlap` | a joining graph, two executors, every transaction split, a budget of one token, a request, a crash and duplicates or lost leases, two of these in one behaviour (`FewDisturbances`) | `StartsAfterDeps`, `CancelStopsWork`, `NoSecondArtifact`, `CompletedIsDone` |
| `agent_outage` | one task, every transaction split, one crash, one request, one failure of the queue, retryable and fatal answers, the prober | `NothingLeftClaimed`, `ActiveIsDriven`, `FinalUnlessStale` |
| `batch_serial` | two chapters, two handlers, one user with two requests, two faults: failed dispatches and enqueues, lost hooks, lost requests, redeliveries, late writers | `EndsOnce`, the refinement of `SerialChain`, `BatchMovesOn` |
| `reply_contended` | two workers, one request, two reporting processes, one tool call, two faults, up to the first write on a changed row (`Informed`) | `OneStream`, `NoFrameLost`, `ReportsTheRun`, `CancelHolds` |
| `reply_settles` | one worker, one request, one reporting process, one fault | `MessageSettles`, `TailEnds`, `PlaceholderSettles` |
| `memory_revised` | two chapters in two versions, one proposal, two writers, two workers, no row locks, eight scenarios | `IndexCatchesUp`, `FreshRecapIsCurrent`, `StaleRecapIsNotServed`, `FreshRecapIsServed`, `JobsSettle` |
| `workflow_driven` | two nodes, two tasks, five scenarios | `WorkedOnce`, `CompletedIsWhole`, `CancelSticks`, `RunSettles` |
| `novel_resumed` | two chapters, two tasks, one retry, five scenarios | `CancelSticks`, `LeavesActive` |
| `ledger_shared` | one key, two runs, two chapters, two quotes, five scenarios | `OneCount`, `NoSilentMiss`, `SettledOnEvidence`, `FulfilmentsKept` |
| `model_shared` | two processes, four server slots: no fault, one of each, one of each and a crash, two slow ones, two crashes | `OneAtWork`, `Blameless`, `Heals` |

Bounds.  Two workers, executors, handlers, writers or processes are the least
that can overlap, and every conflict in the code is between two parties over one
row.  Two jobs make the order of claims and the reuse of a worker matter; two
attempts tell the last from the others.  Four tasks carry the only structure the
executor's loop knows of: the review battery, the merge, the revise stage; the
joining graph is the least in which a task can be claimed too early; two
disturbances are what it takes to bring a second execution and to cancel, or to
crash, while both are there.  Two chapters of a batch let a hook, or a late
request, of the first run beside the second, which is also the last; chapters
that are neither are in the theorems, which hold for any number.  Two faults on
the queue let a lease run out under a slow worker and the next one crash, or run
late too.  Two frames make one that is stored and one
that is not; two rounds of tools make a repetition.  Two versions of a chapter
make an old one and a new one; the second chapter closes the volume.  Three
changes and one dead worker are the least in which a job that is armed again
ends between the read and the write of a later one.  Two nodes, or two chapters
of a novel, make one that is done when the other fails.  One key is enough for
promises, as rows of different keys share nothing but the table; two quotes and
two chapters make evidence that differs in one of the two.  Four server slots
let two processes have a dying server each and a new one each.  Two crashes let
one process die over a fresh lock after another left an old one, which both
found.  Otherwise one crash, stop, duplicate or failure of each kind is enough
to interrupt any step, and the other parties go on around it; the scenarios
combine those that meet in the code, so that their sum, not their product, is
explored.  These limits (`Max…`, `Scenarios`) are the only bounds that the code
does not have; they appear as guards of the actions they are named for, or as
budgets in `left`.

Deadlock is not checked where everything may be closed and the system rests:
all runs but `model_shared`, whose callers go on for ever.

Fairness.  Only weak fairness is used, of the parties that the runtime
schedules: worker tasks of the event loop and celery tasks that have begun,
requests that have been received, the beat's sweepers, the delivery of messages,
time (leases, back-offs), servers that load or stop.  `AgentRun` and
`BatchChain` and the queue state theirs in `FairSpec`, the others in `Spec`.
Users, crashes, refusals, slow handlers, the prober and deliveries that were
lost are never assumed to act or not to act.

Stated but not run, because a run with them would ask nothing new, or because
the code breaks them (section 4): the type invariant of each module (all nine
proved; `BatchChain`'s is `BatchTypeOK`), `SuccessWasEarned`,
`ClosedChangesOnlyBySweep`, `OneOwner`, `AttemptsBounded` (proved instead),
`DecidedOnce` (violated where rows are not locked), `OneAtATime`, `EnqueuedOnce`, `NothingBegunAfterEnd` (proved
instead), `BudgetIsSpent` (proved instead), `CompletionIsReported`,
`HashCoversBody` and `FreshStartsEmpty` (proved instead), `StatusMoves` (proved
instead), `CancelledIsFinal`, `ToolsNeverRaise`, `WrittenBackOnce`,
`SuccessorIsSafe`, `CancelEndsBatch`, `RefusedOnlyIfUnsupported`.

## 4. Findings

Where a property is named, TLC shows the finding: state the property as it is
written there (or without its history variable) in the module's run and it is
violated.  `PROJECT.json` quotes the documents.

Queue, runs and batches
- `ClosedIsFinal` without `torn`: `recover_expired`
  (`infrastructure/tasks/local.py:235`) reopens a job that was closed between
  its SELECT and its UPDATE.  `ClosedChangesOnlyBySweep`, proved, says that
  nothing else can.
- `CompletedIsDone` without the tasks seen RUNNING: a message redelivered before
  the leases of a dead executor run out lets the new execution complete the run
  with a task still RUNNING (`workflows/agent_executor.py:766`).
- `CancelStopsWork` without `StaleWriter`: a transaction that read the run before
  its cancel commits a claim, or an artifact, for the cancelled run
  (`agent_executor.py:1032`), where the comment says that nothing half-done stays.
- Two artifacts of one task: two deliveries of one message have the same
  `lease_owner`, so both pass the owner check, and both commit if both have read
  the row before either writes (`agent_executor.py:1036`).  `NoSecondArtifact`
  says that nothing else can.
- `BudgetIsSpent` with equality: commits of two executions that overlap lose the
  charge of one (`agent_executor.py:1142`).
- `RefusedOnlyIfUnsupported`: an execution that loses all claims of its first
  batch has read no credential and fails the run as `provider-not-supported`
  (`agent_executor.py:969`).
- `CancelEndsBatch`: a chapter that is paused, left by its executor and then
  cancelled fires no hook: the batch neither goes on nor records its end
  (`agent_executor.py:725`).
- `OneAtATime` without `reopened`: a request writes the status it decided on, or
  the one it takes back to, over a chapter that has completed since; the chapter
  is open again beside the next one (`api/routes/agent_runs.py:297`, `309`).

Messages and memory
- `ToolsNeverRaise`: a tool call that fails twice inserts a second log row under
  one key, and the result block is lost (`application/tools/orchestrator.py:194`).
- `WrittenBackOnce`: two write-backs of one run both write, the second over an
  edit made in between (`agent_executor.py:173`).
- `FreshRecapIsCurrent` without `blind`: a rollup clears the stale flag of a recap
  made from the old version (`application/work/rollup_recap.py:386`).
- `StaleRecapIsNotServed` without `blind`: an `index_recap` job revives the
  document of a recap that became stale meanwhile
  (`application/retrieval/indexing.py:449`).
- A forced index rebuild deletes summaries and rollups that were waiting, and
  queues indexing jobs only (`api/routes/embedding_settings.py:225`).
- `FreshRecapIsServed` without "superseded": a recap that is computed again with
  the text it had is taken for indexed, though its chunks were superseded when it
  became stale, and is served no more (`application/retrieval/indexing.py:392`).
- `DecidedOnce`: on SQLite FOR UPDATE locks nothing, and an approval and a
  rejection of one proposal both succeed
  (`infrastructure/database/repositories/revision.py:34`).

Workflows
- `RunSettles` without `stranded`: resume and retry enqueue before they commit; a
  faster worker quits and nobody selects the run
  (`api/routes/workflow_definitions.py:147`).
- In the native profile nothing recovers a definition run whose process died
  (`application/workflows/recover_run.py:16`; read from the source).
- `CancelSticks` without its exception: `_mark_failed` fails a run that was
  cancelled or completed meanwhile (`application/workflows/executor.py:395`).
- An exceeded token budget of a novel run raises instead of blocking the run
  (`domain/workflow/state.py:8`); a novel run in RECOVERING is queued by nobody
  (`infrastructure/database/repositories/workflow.py:101`).
- `LeavesActive` without the strandings of `Fail`: a first transaction that raises
  leaves the run QUEUED, and after the last retry nobody drives it
  (`workflows/tasks.py:269`).
- `SuccessorIsSafe`: a superseded task whose provider raises fails its
  successor's run (`workflows/tasks.py:269`).

Promises and the model server
- `FulfilmentsKept` and `StatusMoves` without `Stale`: four writers set version+1
  without checking it, so evidence, an exclusion by the user or a status can be
  lost (`application/agents/promise_handlers.py:656`).
- A redelivered verification reports what it fulfilled as missed
  (`promise_handlers.py:678`); a second row of a key makes ordinary updates
  collide (`api/routes/story_bible.py:81`).
- `Blameless` without `calm`: the stat of a lock file that its holder has removed
  raises FileNotFoundError out of `ensure_ready`
  (`infrastructure/embeddings/llama_server.py:366`).
- `OneAtWork` without `stolen`: a download that takes longer than fifteen minutes
  loses its lock to a second one (`llama_server.py:367`); and two processes that
  found one leftover lock old remove it one after the other, the second removing
  the fresh lock of the first (`llama_server.py:536`), which takes a second crash
  to come to two servers.
- A restart of the server starts nothing if the old server still answers
  (`llama_server.py:579`).

Not findings, as no document says otherwise: a hook lost with its process is not
fired again, so its batch stops without an event (`BatchMovesOn` excuses it); two
hooks that read the batch before either writes may end it twice, or begin a
chapter after its end (`EndsOnce` and `NothingBegunAfterEnd` say that nothing
else can); a stop that commits between the last read and the write of a reply is
overturned (`CancelHolds` says that nothing else can).

## 5. Proofs

`LocalTaskQueueProofs` proves, for any number of jobs, any set of workers and
any limits:

- `TypeCorrect`: the types, with `HeldWhileBusy` (a worker names a job exactly
  while it is busy), without which `status[held[w]]` has no type.
- `ResultsAreEarned`: `SuccessWasEarned` and `RegisteredIsHeld`, whatever the
  timing.  `SuccessWasEarned` alone is not inductive: `complete` needs that a
  worker in "returned" has logged the return under the token it holds, and the
  registration needs that an entry of `_active_jobs` belongs to a worker between
  its claim and its finally clause.
- `ClosedJobs`: the action property `ClosedChangesOnlyBySweep`.
- `ExclusiveClaims`: `OneOwner` and `AttemptsBounded`, of every job that is not
  torn and whatever handlers outlast their leases.  "One holder" is false of this
  queue: a slow worker goes on beside the one that took its job over.  What holds
  is that one of them can still close the job.  `UntornInv` says, of jobs that are
  not torn, that a claim not yet read back has a live lease on a RUNNING row
  (`CommittedIsLeased`), so that the token it reads is its own, and that a job
  that can be claimed has an attempt left (`AttemptsLeft`).
- `ClosedForGood`: from the same invariant, `ClosedIsFinal`.

Its last part proves `QueueIsExclusive`: `ImplementsExclusiveQueue`.  Under the
invariants above, taken together as `Sound`, each step of the rows, the workers
and the sweeper is the abstract `Take`, `Lapse`, `Settle`, `Vanish` or `Reclaim`,
or changes nothing the abstract queue shows.  No theorem assumes that a handler
ends within its lease.

`AgentRunProofs` proves, for any task graph, any executors and clients, any
limits and any bounds on the environment, whether executions overlap or not:

- `TypeCorrect`: the types, with every transaction split.
- `BatchesAreGivenBack`: `NothingLeftClaimed`.  The invariant `Claims` says who
  holds a RUNNING task: an execution whose message owns the row, unless the one
  that owned it died.  `Batches` says that an execution holds tasks only inside a
  batch, so a loop that starts again has given everything back.
- `ActiveRunsAreDriven` and `FinalStatusesLast`: `ActiveIsDriven` and
  `FinalUnlessStale`, from the invariant `Life`.  `ActiveIsDriven` alone is not
  inductive: a request may only send a message for what it read (`Requested`),
  an execution decides on a run it read as active (`Decided`), nothing is sent
  for a run that does not exist (`Unborn`), and only a started run is probed
  (`Probed`).  The two dozen steps of an execution are first summed up in one
  relation, `Effect`, and the invariant is proved of that.
- `ClaimsFollowDeps`, `ArtifactsAreUnique`, `CancelIsRespected` and
  `CompletedRunsAreDone`: `StartsAfterDeps`, `NoSecondArtifact`,
  `CancelStopsWork` and `CompletedIsDone`, all with split transactions.  The
  invariant `Backed` says that a task that is done has delivered (`Landed`), that
  what a deciding execution read as done still has (`Trusted`; the task may have
  been reopened since, but artifacts stay), that nobody owns a task that has
  succeeded (`Free`), and that every execution has an id (`Ids`).  `Blind` says
  which executions may act on a run they read before its cancel: those that are
  deciding, have an open commit, or have not built their provider; a cancelled run
  gains none.  The steps of an execution are summed up in the relation `Work`.
- `BudgetIsBounded`: `BudgetIsSpent`.  The counter that an open commit has read is
  at most what had been spent (`Counted`), so a commit writes at most what has
  been spent with it; equality is what overlapping commits break (section 4).

`WorkflowProofs` proves of `BatchChain`, for any number of chapters, any set of
handlers and any bounds:

- `BatchTypeCorrect`: the types, with `HooksAim` (a hook that dispatches is not the
  last chapter's), without which its target is no chapter.
- `SerialChapters`: `OneAtATime`.  The invariant `OrderInv` says that a running
  hook's chapter has settled, that everything before a begun chapter has
  settled, that a request is about a chapter that was begun, and that a settled
  chapter is open again only if a request's write opened it (`reopened`).
- `NoChapterTwice`: `EnqueuedOnce`.  A hook about to enqueue is the only one with
  its target, which nobody enqueued before.
- `BatchEndsOnce` and `NothingAfterEnd`: while no two hooks have overlapped, one
  at most is past its read, and the batch is as it read it.
- `Refinement`: `ImplementsSerialChain`, step by step under `OrderInv`.

Its second part proves of `DefinitionRun`, for any definition (a sequence of
distinct nodes), any deliveries and scenarios:

- `TypeCorrect`: the types, with `AtNode` (who works on a node is at a node of the
  definition).
- `NodesWorkedOnce`: `WorkedOnce`.  The invariant `Exclusive` follows the row lock
  that the heartbeat takes: one delivery works at a time and no request commits
  while it does, the node it works on is still pending, and a pending node has
  been done no more often than it was retried.
- `CompletedRunsAreWhole` and `CancelIsRespected`: `CompletedIsWhole` and
  `CancelSticks`.  `Informed` says what a party about to write had read: a delivery an
  active run, the sweeper the status it selects, and a request's own flush keeps
  the row as it left it.  Everything else that changes the status has read it in
  the same step, or is recorded in `blind`.

`NovelRunProofs` proves, for any number of chapters and retries, any tasks and
scenarios: `TypeCorrect`, with `AtChapter`, and `CancelIsRespected`
(`CancelSticks`), for which the sweeper must have selected a run that was
RUNNING (`SweptRunning`).

`ChapterMemoryProofs` proves, for any finite set of chapters, any versions, levels,
proposals, writers, workers and scenarios:

- `TypeCorrect`: the types, with the facts that a worker's job is in the table and
  an approver's proposal exists.
- `RecapsAreCurrent` and `StaleRecapsAreSuperseded`: `FreshRecapIsCurrent` and
  `StaleRecapIsNotServed`.  Both are inductive with the types, as a change of a
  version and the invalidation of what was made from the old one are one
  transaction, and a rollup or an indexing that was under way is in `blind`.
- `IndexIsCurrent`: `IndexCatchesUp`.  The invariant `IndexInv` adds three parts.
  `Served`: a chapter that is indexed is live.  `Claims`: a worker's attempt is
  one of its row's, so that a row claimed again is never mistaken for its own.
  `Reads`: what a worker read is current, or another indexing job of the chapter
  has not come to a good end (`Another`), or the worker is overtaken.

An earlier version of `IndexCatchesUp` excused a worker only if a *later* row
had overtaken it.  It passed its run, and was not inductive: after three changes
and the death of a worker, an earlier row that the sweeper arms again can end
between the read and the write of a later one.  The history field `late` and the
scenario with three changes come from there.

`PromiseLedgerProofs` proves, for any keys, runs, chapters, quotes and scenarios:

- `SafeTypeOK`: the types.  The hard part is the lemma `FlushedIsSound`: a commit
  mixes the columns of three versions of a row, what was read, what was made of
  it and what is there now, and the result must still be a row.
- `SafeOneCount`: `OneCount`.  The invariant `TableOK` says so of every version of
  a row that anyone holds: in the table, in a transaction and on the user's page.
- `SafeNoSilentMiss`: `NoSilentMiss`, from `RunOK`, which follows the keys of a
  verification from its read to its report.
- `EvidenceIsKept` and `PromisesAdvance`: the action properties `FulfilmentsKept`
  and `StatusMoves`.  The invariant `AllHonest` is about open transactions: the
  objects of each advance the rows it read (`Advances`: the evidence stays, the
  status moves as promises do).  A commit writes such a row into the table,
  unless the row changed in between, which is `Stale`.
- `SettledHasEvidence`: `SettledOnEvidence`.  `AllSettle` says that a verification
  under way resolves a row only if the list it made of it has the required length.

`MessageReplyProofs` proves, for any workers, requests, writers and tool calls, and
any bounds on frames, rounds, retries and faults:

- `TypeCorrect`: the types, with `Placed`: a message is a reply or a placeholder and
  the machinery of the other rests, and a step that goes on from a read knows
  what it read.
- `OneStreamAtATime` and `CancelIsRespected`: `OneStream` and `CancelHolds`.  The
  invariant `Claimed` follows the claim: one execution at most owns the message,
  whoever is past its claim does, and while it streams the row is STREAMING or
  CANCELLED, so no second claim can succeed.  All of it holds while `blind` is
  empty; a write on a row that had changed ends it, and nothing else does.
- `FramesAreKept`: `NoFrameLost`.  `Numbered` says that the stored frames are the
  first ones and that the holder's buffer continues them, which the frames a
  cancelled batch drops do not break, as its stream cannot complete any more.
- `HashIsCurrent` and `FreshTextIsEmpty`: `HashCoversBody` and `FreshStartsEmpty`.
  `Hashed` says that what the holder has loaded is still the row's text, `Begun`
  that there is text exactly from the first frame on.
- `PlaceholderReports`: `ReportsTheRun`.  `Reported` says that the end of the run
  is in the placeholder, or in the hands of a writer that will not skip it.

`ModelServerProofs` proves, for any processes, any number of servers and any faults:

- `TypeCorrect`: the types, with `Safe`, which holds of locks and servers whatever
  happens.  `HoldersHold`: whoever is between the open of a lock file and its
  unlink created that file, and it has not grown stale.  `ServersApart`: there is
  one server process at most, counting those that are starting or dying, and one
  that has not bound its port is behind the lock of the caller that waits for it,
  or behind what a crash left of that lock; without that second part a process
  could find the port free and start another.
- `OneServerAtATime`: `OneAtWork`, which counts live servers only and is not
  inductive: it says nothing of locks.
- `AttemptsSucceed`: `Blameless`.  `Calm` says what holds until something fails from
  outside: no lock is left over, old or stolen, no server is dying, a caller that
  asks has an answering server, one that waits has a living one, and one that is
  about to start a server finds none.  Each step of a caller, however it meets
  the others at the locks and at the port, leads to a place whose promise holds.

An earlier version of `stolen` recorded only locks that grew old under a living
holder.  `OneAtWork` passed its run with it, and was not inductive: two processes
that judged one leftover lock together remove it one after the other, and a
second crash then lets two servers start.  The wider history and the scenario
with two crashes come from there (section 4).

The assumptions are those named in the modules: `JobsAssumption`,
`WorkersAssumption`, `AttemptsAssumption` and `BoundsAssumption` of
`LocalTaskQueue`; `GraphAssumption`, `BudgetAssumption`,
`LimitsAssumption`, `OutcomesAssumption` and `TimingAssumption` of `AgentRun`;
`ChaptersAssumption` and `BoundsAssumption` of `BatchChain`; `SourceAssumption`
and `LockAssumption` of `ChapterMemory`; `WalkAssumption` of `DefinitionRun`;
`NovelAssumption` of `NovelRun`; `LedgerAssumption` of `PromiseLedger`;
`FramesAssumption` of `MessageReply`; `SlotsAssumption` and `FaultsAssumption`
of `ModelServer`.  TLC evaluates them in every run of the module.  No theorem
assumes more than these: `Interleave`, `Overlap` and `RowLocks` are arbitrary in
the proofs.

Every invariant and every action property that a run checks, and both
refinements, are stated by one of these theorems, but for `FreshRecapIsServed`,
which is only model-checked: its induction has to follow a recap, its document
and its queue of jobs at once.  Only model-checked too are the
liveness properties, as liveness under fairness, like ENABLED, is outside what
the installed provers do: `EventuallyClosed`, `RunSettles` (of both modules),
`BatchMovesOn`, `MessageSettles`, `TailEnds`, `PlaceholderSettles`, `JobsSettle`,
`LeavesActive` and `Heals`.

## 6. Not modelled

The map names about a seventh of the implementation's lines.  The rest is:

- Text work: prompts, parsing of model answers, review checks and their merge,
  ranking, hunks, exports, run summaries.  They transform data inside one
  transaction of an action that is modelled, and keep no state of their own.
- Task graph construction and intent recognition: they run once, before anything
  else; `AgentRun` takes the graph as a constant.
- Conversation branches, accounts, credentials, model settings, plugins: CRUD, one
  transaction each.
- Provider clients, search engines, web tools, the sandbox, the fastembed backend:
  network, process and file I/O.
- Backups, migrations, upgrades, the CLI, the web UI, packaging: operated by one
  administrator, or presentation.

Two compositions are informal: `AgentRun` and `BatchChain` meet in the status of a
chapter's run, `LocalTaskQueue` and the others in "a message may be delivered
again"; that one shows the other only the steps it assumes is argued above and
not checked.
