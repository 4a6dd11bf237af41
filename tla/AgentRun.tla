------------------------------ MODULE AgentRun ------------------------------
(***************************************************************************)
(* One agent run: the row of agent_runs, its task graph, and everyone who  *)
(* writes them.  Executions of execute_run (workflows/agent_executor.py)   *)
(* started by queue deliveries, the control API (api/routes/agent_runs.py),*)
(* run creation (application/agents/create_run.py), the auto-resume prober *)
(* (application/agents/auto_resume.py) and the stale-run sweeper           *)
(* (application/messages/sweeper.py).                                      *)
(*                                                                         *)
(* No transaction of these reads under a lock, except the prober's: a      *)
(* transaction that decides on what it read is two actions, the read and   *)
(* the write, and the write lands on whatever the rows have become.  The   *)
(* two error transactions of the executor are one action each.  A task's   *)
(* attempt counters and the run's limit are taken as they are at the write.*)
(* Tasks are numbered in creation order, the order a batch is claimed in.  *)
(***************************************************************************)
EXTENDS Integers, FiniteSets

CONSTANTS
    NTasks,        \* tasks 1..NTasks
    Deps,          \* depends_on
    Reviews,       \* the review battery the first gate waits for
    MergeTask, RewriteTask, RecheckTask,   \* the revise stage (0: not in the graph)
    Skippable,     \* review_council and the revise stage: skipped by a passed gate
    TaskBudget,    \* token_budget of each task
    LaneLimit,     \* the run budget ensure_lane_budgets computes
    Costs,         \* tokens a model call may really use
    MaxParallel,   \* max_parallel_tasks
    MaxAttempts,   \* DEFAULT_MAX_ATTEMPTS
    MaxRetryable,  \* RETRYABLE_MAX_ATTEMPTS
    PauseStreak,   \* AUTO_PAUSE_STREAK
    MaxRounds,     \* MAX_REVISE_ROUNDS
    MaxProbes,     \* MAX_RESUME_PROBES
    Executors,     \* worker slots that can execute the run
    Clients,       \* concurrent control requests
    Outcomes,      \* how a handler may end
    Overlap,       \* may deliveries, leases and the sweeper overtake a live execution?
    Interleave,    \* may a transaction run between the read and the write of another?
    MaxControls, MaxCrashes, \* bounds: control requests, process deaths,
    MaxFailures,   \* infrastructure failures,
    MaxDuplicates  \* duplicate deliveries and leases lost by a live execution

Tasks == 1..NTasks

ASSUME GraphAssumption ==
    /\ NTasks \in Nat \ {0}
    /\ Deps \in [Tasks -> SUBSET Tasks]
    /\ Reviews \subseteq Tasks /\ Skippable \subseteq Tasks
    /\ {MergeTask, RewriteTask, RecheckTask} \subseteq Tasks \cup {0}
ASSUME BudgetAssumption ==
    /\ TaskBudget \in [Tasks -> Nat] /\ LaneLimit \in Nat /\ Costs \subseteq Nat
ASSUME LimitsAssumption ==
    /\ {MaxAttempts, MaxRetryable, PauseStreak, MaxRounds, MaxParallel} \subseteq Nat \ {0}
    /\ {MaxProbes, MaxControls, MaxCrashes, MaxFailures, MaxDuplicates} \subseteq Nat
ASSUME OutcomesAssumption ==
    Outcomes \subseteq {"ok", "invalid", "retryable", "fatal", "denied"}
ASSUME TimingAssumption == Overlap \in BOOLEAN /\ Interleave \in BOOLEAN

VARIABLES
    run,       \* the agent_runs row and what its event log says of it
    task,      \* the agent_tasks rows
    ex,        \* the execution in each worker slot
    ctl,       \* the control request of each client
    probe,     \* the prober: "idle", "probing" or "queue"
    sweep,     \* the sweeper: "idle", "read" or "hooks"
    mail, sent,    \* undelivered queue messages, and how many were ever sent
    controls, crashes, failures, duplicates,   \* bounded event counters
    reported,  \* history: the completion was handed to run_terminal_hooks
    artifacts, \* history: artifacts committed, per task
    spent,     \* history: tokens of the committed artifacts
    abandoned, \* history: tasks whose execution died while holding them
    unsupported  \* history: build_provider really refused the provider

db      == <<run, task>>
api     == <<ctl, probe, sweep>>
queue   == <<mail, sent>>
bounds  == <<controls, crashes, failures, duplicates>>
history == <<reported, artifacts, spent, abandoned, unsupported>>
vars    == <<db, ex, api, queue, bounds, history>>

Closed      == {"COMPLETED", "FAILED", "CANCELLED", "BUDGET_EXHAUSTED"}
RunStatuses == {"ABSENT", "PENDING", "RUNNING", "PAUSED"} \cup Closed
Done        == {"SUCCEEDED", "SKIPPED"}
TaskStatuses == {"PENDING", "RUNNING", "FAILED"} \cup Done

\* terminal_reason, as far as anything depends on it.
Reasons == {"none", "tasks", "dependency", "budget", "credential", "provider",
            "error", "executor lost", "queue", "user"}

\* (Mutant of View: no lease ever runs out.)
ViewTrustingLeases(t) ==
    IF task[t].status = "PENDING" /\ task[t].waiting THEN "WAITING" ELSE task[t].status

\* What an execution reads of a task: its status, with a RUNNING row whose
\* lease has run out and a PENDING row in back-off told apart.
View(t) ==
    IF task[t].status = "RUNNING" /\ task[t].lease # "live" THEN "EXPIRED"
    ELSE IF task[t].status = "PENDING" /\ task[t].waiting THEN "WAITING"
    ELSE task[t].status

Views == TaskStatuses \cup {"EXPIRED", "WAITING"}
-----------------------------------------------------------------------------
\* A free slot, and the local variables of execute_run at its start.  cm is
\* the task whose commit transaction has read its rows, used the tokens the
\* open transaction read off the run.
FreeSlot ==
    [pc |-> "off", xid |-> 0, run |-> "ABSENT", seen |-> [t \in Tasks |-> "PENDING"],
     gate |-> FALSE, final |-> FALSE, round |-> 1, laned |-> FALSE, built |-> FALSE,
     work |-> [t \in Tasks |-> "none"], cm |-> 0, cmOpen |-> FALSE, used |-> 0,
     report |-> "none", again |-> FALSE]

Slots ==
    [pc : {"off", "top", "decide", "provider", "calling", "hooks"}, xid : Nat,
     run : RunStatuses, seen : [Tasks -> Views],
     gate : BOOLEAN, final : BOOLEAN, round : Nat, laned : BOOLEAN, built : BOOLEAN,
     work : [Tasks -> {"none", "calling"} \cup Outcomes],
     cm : Tasks \cup {0}, cmOpen : BOOLEAN, used : Nat,
     report : {"none"} \cup Closed, again : BOOLEAN]

TaskRows ==
    [status : TaskStatuses, attempts : Nat, retryable : Nat, owner : Nat,
     lease : {"none", "live", "expired"}, waiting : BOOLEAN]

RunRows ==
    [status : RunStatuses, reason : Reasons, used : Nat, limit : Nat,
     streak : Nat, autoPaused : BOOLEAN, probes : Nat]

IdleRequest == [step |-> "idle", act |-> "none", back |-> "ABSENT"]

Requests ==
    [step : {"idle", "read", "queue"},
     act : {"none", "create", "pause", "cancel", "resume", "retry"}, back : RunStatuses]

TypeOK ==
    /\ run \in RunRows
    /\ task \in [Tasks -> TaskRows]
    /\ ex \in [Executors -> Slots]
    /\ ctl \in [Clients -> Requests]
    /\ probe \in {"idle", "probing", "queue"} /\ sweep \in {"idle", "read", "hooks"}
    /\ mail \subseteq Nat /\ sent \in Nat
    /\ controls \in Nat /\ crashes \in Nat /\ failures \in Nat /\ duplicates \in Nat
    /\ reported \in BOOLEAN
    /\ artifacts \in [Tasks -> Nat] /\ spent \in Nat
    /\ abandoned \subseteq Tasks /\ unsupported \in BOOLEAN

Init ==
    /\ run = [status |-> "ABSENT", reason |-> "none", used |-> 0, limit |-> 0,
              streak |-> 0, autoPaused |-> FALSE, probes |-> 0]
    /\ task = [t \in Tasks |-> [status |-> "PENDING", attempts |-> 0, retryable |-> 0,
                                owner |-> 0, lease |-> "none", waiting |-> FALSE]]
    /\ ex = [e \in Executors |-> FreeSlot]
    /\ ctl = [c \in Clients |-> IdleRequest]
    /\ probe = "idle" /\ sweep = "idle"
    /\ mail = {} /\ sent = 0
    /\ controls = 0 /\ crashes = 0 /\ failures = 0 /\ duplicates = 0
    /\ reported = FALSE /\ artifacts = [t \in Tasks |-> 0] /\ spent = 0
    /\ abandoned = {} /\ unsupported = FALSE

\* Which transactions have read and not yet written.
Executing == {e \in Executors : ex[e].pc # "off"}
Reading   == {e \in Executors : ex[e].pc = "decide" \/ ex[e].cm # 0}
Deciding  == {c \in Clients : ctl[c].step = "read"}

\* With Interleave = FALSE every transaction is atomic.
QuietButExecutor(e) ==
    Interleave \/ (Reading \subseteq {e} /\ Deciding = {} /\ sweep # "read")
QuietButClient(c) ==
    Interleave \/ (Reading = {} /\ Deciding \subseteq {c} /\ sweep # "read")
QuietButSweeper == Interleave \/ (Reading = {} /\ Deciding = {})
Quiet == QuietButSweeper /\ (Interleave \/ sweep # "read")
-----------------------------------------------------------------------------
(* Deliveries.  A message is acknowledged when execute_run returns; a dead *)
(* worker's message is delivered again under the same task id.             *)

LiveLease == \E t \in Tasks : task[t].status = "RUNNING" /\ task[t].lease = "live"

Deliver(e) ==
    /\ ex[e].pc = "off"
    /\ Overlap \/ (Executing = {} /\ ~LiveLease)
    /\ \E x \in mail :
        /\ mail' = mail \ {x}
        /\ ex' = [ex EXCEPT ![e] = [FreeSlot EXCEPT !.pc = "top", !.xid = x]]
    /\ UNCHANGED <<db, api, sent, bounds, history>>

\* The broker delivers a message again while its first delivery still runs.
Duplicate(e) ==
    /\ Overlap /\ duplicates < MaxDuplicates
    /\ ex[e].pc # "off"
    /\ mail' = mail \cup {ex[e].xid}
    /\ duplicates' = duplicates + 1
    /\ UNCHANGED <<db, ex, api, sent, controls, crashes, failures, history>>

Holding(e) == {t \in Tasks : ex[e].work[t] # "none"}

Crash(e) ==
    /\ ex[e].pc # "off" /\ crashes < MaxCrashes
    /\ crashes' = crashes + 1
    /\ mail' = mail \cup {ex[e].xid}
    /\ abandoned' = abandoned \cup Holding(e)
    /\ ex' = [ex EXCEPT ![e] = FreeSlot]
    /\ UNCHANGED <<db, api, sent, controls, failures, duplicates,
                   reported, artifacts, spent, unsupported>>
-----------------------------------------------------------------------------
(* The top of the loop: one transaction that reads the run and its tasks,  *)
(* and then commits one of the branches below.                             *)

Top(slot) == [slot EXCEPT !.pc = "top", !.run = "ABSENT", !.used = 0,
                          !.seen = FreeSlot.seen]

\* The run is over, or paused: leave; a cancelled run is reported first.
Read(e) ==
    /\ ex[e].pc = "top"
    /\ \/ /\ run.status = "CANCELLED"
          /\ ex' = [ex EXCEPT ![e] = [@ EXCEPT !.pc = "hooks", !.report = "CANCELLED"]]
       \/ /\ run.status \in {"PAUSED", "COMPLETED", "FAILED", "BUDGET_EXHAUSTED"}
          /\ ex' = [ex EXCEPT ![e] = FreeSlot]
       \/ /\ run.status \in {"ABSENT", "PENDING", "RUNNING"}
          /\ ex' = [ex EXCEPT ![e] =
                       [@ EXCEPT !.pc = "decide", !.run = run.status, !.used = run.used,
                                 !.seen = [t \in Tasks |-> View(t)]]]
    /\ UNCHANGED <<db, api, queue, bounds, history>>

\* A run read as PENDING is started by whatever the transaction commits.
Started(e) == IF ex[e].run = "PENDING" THEN [run EXCEPT !.status = "RUNNING"] ELSE run

Seen(e, S)  == {t \in Tasks : ex[e].seen[t] \in S}
OpenTasks(e) == Seen(e, {"PENDING", "WAITING"})
\* (Mutant of ReadyTasks: ready as soon as no dependency is still open.)
ReadyTasksOnceTried(e) == {t \in Seen(e, {"PENDING"}) : Deps[t] \cap OpenTasks(e) = {}}
ReadyTasks(e) == {t \in Seen(e, {"PENDING"}) : Deps[t] \subseteq Seen(e, Done)}

\* UPDATE ... SET status, lease_owner by primary key.
Requeued(S) ==
    [t \in Tasks |-> IF t \in S THEN [task[t] EXCEPT !.status = "PENDING", !.owner = 0]
                                ELSE task[t]]

\* Close the run with this status; the hooks follow the commit.
CloseRun(e, status, reason) ==
    /\ run' = [run EXCEPT !.status = status, !.reason = reason]
    /\ ex' = [ex EXCEPT ![e] = [FreeSlot EXCEPT !.pc = "hooks", !.xid = ex[e].xid,
                                                !.report = status]]

Recover(e) ==
    /\ ex[e].pc = "decide" /\ Seen(e, {"EXPIRED"}) # {}
    /\ run' = Started(e)
    /\ task' = Requeued(Seen(e, {"EXPIRED"}))
    /\ ex' = [ex EXCEPT ![e] = Top(@)]
    /\ abandoned' = abandoned \ Seen(e, {"EXPIRED"})
    /\ UNCHANGED <<api, queue, bounds, reported, artifacts, spent, unsupported>>

\* maybe_evaluate_gate(): once per execution, when the battery is done and
\* the merge still to do.  What the gate says of the draft is open.
AtGate(e) ==
    /\ ~ex[e].gate /\ Reviews # {} /\ MergeTask \in OpenTasks(e)
    /\ Reviews \subseteq Seen(e, Done)

GatePass(e) ==
    /\ ex[e].pc = "decide" /\ Seen(e, {"EXPIRED"}) = {} /\ AtGate(e)
    /\ run' = Started(e)
    /\ task' = [t \in Tasks |-> IF t \in Skippable \cap OpenTasks(e)
                                THEN [task[t] EXCEPT !.status = "SKIPPED"] ELSE task[t]]
    /\ ex' = [ex EXCEPT ![e] = [Top(@) EXCEPT !.gate = TRUE]]
    /\ UNCHANGED <<api, queue, bounds, history>>

GateFail(e) ==
    /\ ex[e].pc = "decide" /\ Seen(e, {"EXPIRED"}) = {} /\ AtGate(e)
    /\ ex' = [ex EXCEPT ![e].gate = TRUE]
    /\ UNCHANGED <<db, api, queue, bounds, history>>

\* maybe_evaluate_final_gate(): after recheck, until passed or out of rounds.
AtFinalGate(e) ==
    /\ ~ex[e].final /\ RewriteTask # 0
    /\ RecheckTask \in Seen(e, {"SUCCEEDED"})

FinalGateEnds(e) ==
    /\ ex[e].pc = "decide" /\ Seen(e, {"EXPIRED"}) = {} /\ ~AtGate(e) /\ AtFinalGate(e)
    /\ run' = Started(e)
    /\ ex' = [ex EXCEPT ![e] = [@ EXCEPT !.final = TRUE, !.run = "RUNNING"]]
    /\ UNCHANGED <<task, api, queue, bounds, history>>

FinalGateRevises(e) ==
    /\ ex[e].pc = "decide" /\ Seen(e, {"EXPIRED"}) = {} /\ ~AtGate(e) /\ AtFinalGate(e)
    /\ ex[e].round < MaxRounds
    /\ run' = Started(e)
    /\ task' = Requeued({RewriteTask, RecheckTask})
    /\ ex' = [ex EXCEPT ![e] = [Top(@) EXCEPT !.round = ex[e].round + 1]]
    /\ UNCHANGED <<api, queue, bounds, history>>

Scanning(e) ==
    /\ ex[e].pc = "decide" /\ Seen(e, {"EXPIRED"}) = {} /\ ~AtGate(e) /\ ~AtFinalGate(e)

\* (Mutant of Finish: failed tasks are not looked for.)
FinishAnyway(e) ==
    /\ Scanning(e) /\ OpenTasks(e) = {}
    /\ CloseRun(e, "COMPLETED", run.reason)
    /\ UNCHANGED <<task, api, queue, bounds, history>>

\* No PENDING task is left: the run is done.
Finish(e) ==
    /\ Scanning(e) /\ OpenTasks(e) = {}
    /\ IF Seen(e, {"FAILED"}) # {} THEN CloseRun(e, "FAILED", "tasks")
                                   ELSE CloseRun(e, "COMPLETED", run.reason)
    /\ UNCHANGED <<task, api, queue, bounds, history>>

\* Nothing to claim yet: sleep, until a back-off or a foreign lease runs out.
Wait(e) ==
    /\ Scanning(e) /\ OpenTasks(e) # {} /\ ReadyTasks(e) = {}
    /\ Seen(e, {"WAITING", "RUNNING"}) # {}
    /\ run' = IF Seen(e, {"PENDING"}) = {} \/ Seen(e, {"RUNNING"}) = {}
              THEN Started(e) ELSE run
    /\ ex' = [ex EXCEPT ![e] = Top(@)]
    /\ UNCHANGED <<task, api, queue, bounds, history>>

DeadEnd(e) ==
    /\ Scanning(e) /\ OpenTasks(e) # {} /\ ReadyTasks(e) = {}
    /\ Seen(e, {"WAITING", "RUNNING"}) = {}
    /\ CloseRun(e, "FAILED", "dependency")
    /\ UNCHANGED <<task, api, queue, bounds, history>>
-----------------------------------------------------------------------------
(* Claiming a batch: a conditional UPDATE per ready task, in order, until  *)
(* max_parallel of them are won or one does not fit the run's budget.      *)

Won(e) == {t \in ReadyTasks(e) : task[t].status = "PENDING"}
WonBefore(e, t) == {u \in Won(e) : u < t}
Tried(e) == {t \in ReadyTasks(e) : Cardinality(WonBefore(e, t)) < MaxParallel}
\* The first claim's event reads the run again, under its lock.
UsedAt(e, t) == IF WonBefore(e, t) = {} THEN ex[e].used ELSE run.used
OverBudget(e) ==
    {t \in Tried(e) : ex[e].laned /\ UsedAt(e, t) + TaskBudget[t] > run.limit}

Claimed(e, row) ==
    [row EXCEPT !.status = "RUNNING", !.attempts = @ + 1, !.owner = ex[e].xid,
                !.lease = "live", !.waiting = FALSE]

Larger(m, n) == IF m >= n THEN m ELSE n

Claim(e) ==
    LET batch == Won(e) \cap Tried(e)
    IN  /\ Scanning(e) /\ ReadyTasks(e) # {} /\ OverBudget(e) = {}
        /\ task' = [t \in Tasks |-> IF t \in batch THEN Claimed(e, task[t]) ELSE task[t]]
        /\ run' = IF ex[e].laned THEN Started(e)
                  ELSE [Started(e) EXCEPT !.limit = Larger(@, LaneLimit)]
        /\ ex' = [ex EXCEPT ![e] =
                    [Top(@) EXCEPT !.pc = "provider", !.laned = TRUE,
                        !.work = [t \in Tasks |-> IF t \in batch THEN "calling" ELSE "none"]]]
        /\ UNCHANGED <<api, queue, bounds, history>>

\* A batch claimed and given back in the same transaction: the attempt stays.
GivenBack(e, S) ==
    [t \in Tasks |-> IF t \in S
                     THEN [Claimed(e, task[t]) EXCEPT !.status = "PENDING", !.owner = 0]
                     ELSE task[t]]

\* The first task that does not fit stops the run; what was won before it
\* goes back.
ExhaustBudget(e) ==
    /\ Scanning(e)
    /\ \E t \in OverBudget(e) :
        /\ \A u \in OverBudget(e) : t <= u
        /\ task' = [GivenBack(e, WonBefore(e, t)) EXCEPT ![t].status = "FAILED"]
    /\ CloseRun(e, "BUDGET_EXHAUSTED", "budget")
    /\ UNCHANGED <<api, queue, bounds, history>>

\* No credential for the provider the batch needs.
NoCredential(e) ==
    LET batch == Won(e) \cap Tried(e)
    IN  /\ Scanning(e) /\ OverBudget(e) = {} /\ batch # {}
        /\ ~ex[e].built /\ failures < MaxFailures
        /\ failures' = failures + 1
        /\ task' = GivenBack(e, batch)
        /\ CloseRun(e, "FAILED", "credential")
        /\ UNCHANGED <<api, queue, controls, crashes, duplicates, history>>
-----------------------------------------------------------------------------
(* The provider, built once per execution.  Its credential was read with   *)
(* the first batch won: an execution that won nothing yet has none, and    *)
(* the KeyError reads like an unknown provider.                            *)

BuildProvider(e) ==
    /\ ex[e].pc = "provider" /\ (ex[e].built \/ Holding(e) # {})
    /\ ex' = [ex EXCEPT ![e].pc = "calling", ![e].built = TRUE]
    /\ UNCHANGED <<db, api, queue, bounds, history>>

ProviderRefused(e) ==
    /\ ex[e].pc = "provider" /\ ~ex[e].built
    /\ task' = Requeued({t \in Holding(e) : task[t].status = "RUNNING"})
    /\ CloseRun(e, "FAILED", "provider")
    /\ UNCHANGED <<api, queue, controls, crashes, duplicates,
                   reported, artifacts, spent, abandoned>>
    /\ IF Holding(e) = {}
       THEN UNCHANGED <<failures, unsupported>>
       ELSE /\ failures < MaxFailures
            /\ failures' = failures + 1
            /\ unsupported' = TRUE
-----------------------------------------------------------------------------
(* The batch: handlers run in parallel, outside any transaction; commits   *)
(* are one at a time (commit_lock).                                        *)

HandlerEnds(e, t) ==
    /\ ex[e].pc = "calling" /\ ex[e].work[t] = "calling"
    /\ \E outcome \in Outcomes :
        ex' = [ex EXCEPT ![e].work[t] = outcome]
    /\ UNCHANGED <<db, api, queue, bounds, history>>

ReadyToCommit(e, t) ==
    ex[e].pc = "calling" /\ ex[e].cm = 0 /\ ex[e].work[t] \in Outcomes

\* lease-unavailable: the claim is no longer this execution's.
Superseded(e, t) ==
    /\ ReadyToCommit(e, t) /\ task[t].owner # ex[e].xid
    /\ ex' = [ex EXCEPT ![e].work[t] = "none"]
    /\ UNCHANGED <<db, api, queue, bounds, history>>

\* (Mutants of CommitRead: the lease owner, or the run's status, is not checked.)
CommitReadUnfenced(e, t) ==
    /\ ReadyToCommit(e, t)
    /\ ex' = [ex EXCEPT ![e] = [@ EXCEPT !.cm = t, !.cmOpen = run.status = "RUNNING",
                                         !.used = run.used]]
    /\ UNCHANGED <<db, api, queue, bounds, history>>

CommitReadUnstoppable(e, t) ==
    /\ ReadyToCommit(e, t) /\ task[t].owner = ex[e].xid
    /\ ex' = [ex EXCEPT ![e] = [@ EXCEPT !.cm = t, !.cmOpen = TRUE, !.used = run.used]]
    /\ UNCHANGED <<db, api, queue, bounds, history>>

CommitRead(e, t) ==
    /\ ReadyToCommit(e, t) /\ task[t].owner = ex[e].xid
    /\ ex' = [ex EXCEPT ![e] = [@ EXCEPT !.cm = t, !.cmOpen = run.status = "RUNNING",
                                         !.used = run.used]]
    /\ UNCHANGED <<db, api, queue, bounds, history>>

Settled(e) == [ex[e] EXCEPT !.work[ex[e].cm] = "none", !.cm = 0,
                            !.cmOpen = FALSE, !.used = 0]

\* (Mutant of CommitReturn: the task stays claimed.)
CommitReturnNothing(e) ==
    /\ ex[e].cm # 0 /\ ~ex[e].cmOpen
    /\ ex' = [ex EXCEPT ![e] = Settled(e)]
    /\ UNCHANGED <<db, api, queue, bounds, history>>

\* The run was paused or closed meanwhile: the task goes back.
CommitReturn(e) ==
    /\ ex[e].cm # 0 /\ ~ex[e].cmOpen
    /\ task' = Requeued({ex[e].cm})
    /\ ex' = [ex EXCEPT ![e] = Settled(e)]
    /\ UNCHANGED <<run, api, queue, bounds, history>>

Committing(e, outcomes) ==
    ex[e].cm # 0 /\ ex[e].cmOpen /\ ex[e].work[ex[e].cm] \in outcomes

CommitOk(e) ==
    LET t == ex[e].cm
    IN  /\ Committing(e, {"ok"})
        /\ \E cost \in Costs :
            /\ run' = [run EXCEPT !.used = ex[e].used + cost, !.streak = 0]
            /\ spent' = spent + cost
        /\ task' = [task EXCEPT ![t].status = "SUCCEEDED", ![t].owner = 0]
        /\ artifacts' = [artifacts EXCEPT ![t] = @ + 1]
        /\ ex' = [ex EXCEPT ![e] = Settled(e)]
        /\ UNCHANGED <<api, queue, bounds, reported, abandoned, unsupported>>

\* A provider failure worth retrying: back off, and pause the whole run when
\* too many come in a row.
Retryable(e) ==
    Committing(e, {"retryable"}) /\ task[ex[e].cm].retryable < MaxRetryable

CommitBackoff(e) ==
    LET streak == run.streak + 1
    IN  /\ Retryable(e)
        /\ task' = [task EXCEPT ![ex[e].cm] =
                      [@ EXCEPT !.status = "PENDING", !.owner = 0, !.waiting = TRUE,
                                !.retryable = task[ex[e].cm].retryable + 1]]
        /\ run' = IF streak >= PauseStreak
                  THEN [run EXCEPT !.streak = streak, !.status = "PAUSED", !.autoPaused = TRUE]
                  ELSE [run EXCEPT !.streak = streak]
        /\ ex' = [ex EXCEPT ![e] = Settled(e)]
        /\ UNCHANGED <<api, queue, bounds, history>>

\* Any other failure is retried while attempts, less the retryable ones, last.
Repeatable(e) ==
    /\ Committing(e, {"fatal"})
    /\ task[ex[e].cm].attempts - task[ex[e].cm].retryable < MaxAttempts

CommitRepeat(e) ==
    /\ Repeatable(e)
    /\ task' = [task EXCEPT ![ex[e].cm] = [@ EXCEPT !.status = "PENDING", !.owner = 0,
                                                    !.waiting = FALSE]]
    /\ run' = [run EXCEPT !.streak = 0]
    /\ ex' = [ex EXCEPT ![e] = Settled(e)]
    /\ UNCHANGED <<api, queue, bounds, history>>

\* The last failure: recheck degrades to a warning artifact, others fail.
OutOfRetries(e) ==
    Committing(e, {"retryable", "fatal"}) /\ ~Retryable(e) /\ ~Repeatable(e)

CommitDegraded(e) ==
    /\ OutOfRetries(e) /\ ex[e].cm = RecheckTask
    /\ task' = [task EXCEPT ![RecheckTask].status = "SUCCEEDED", ![RecheckTask].owner = 0]
    /\ run' = [run EXCEPT !.streak = 0]
    /\ artifacts' = [artifacts EXCEPT ![RecheckTask] = @ + 1]
    /\ ex' = [ex EXCEPT ![e] = Settled(e)]
    /\ UNCHANGED <<api, queue, bounds, reported, spent, abandoned, unsupported>>

CommitFailed(e) ==
    /\ Committing(e, {"denied", "invalid"}) \/ (OutOfRetries(e) /\ ex[e].cm # RecheckTask)
    /\ task' = [task EXCEPT ![ex[e].cm].status = "FAILED", ![ex[e].cm].owner = 0]
    /\ run' = [run EXCEPT !.streak = 0]
    /\ ex' = [ex EXCEPT ![e] = Settled(e)]
    /\ UNCHANGED <<api, queue, bounds, history>>

\* gather() returns when every handler has been settled.
Join(e) ==
    /\ ex[e].pc = "calling" /\ Holding(e) = {}
    /\ ex' = [ex EXCEPT ![e].pc = "top"]
    /\ UNCHANGED <<db, api, queue, bounds, history>>

\* An exception that no branch expects: the run fails unless it is already
\* closed or paused, the rest of the batch dies with the event loop, and the
\* message is retried.
ExecutorError(e) ==
    /\ ex[e].pc \notin {"off", "hooks"} /\ failures < MaxFailures
    /\ failures' = failures + 1
    /\ abandoned' = abandoned \cup Holding(e)
    /\ IF run.status \in {"PENDING", "RUNNING"}
       THEN /\ run' = [run EXCEPT !.status = "FAILED", !.reason = "error"]
            /\ ex' = [ex EXCEPT ![e] = [FreeSlot EXCEPT !.pc = "hooks", !.xid = ex[e].xid,
                                            !.report = "FAILED", !.again = TRUE]]
            /\ UNCHANGED mail
       ELSE /\ ex' = [ex EXCEPT ![e] = FreeSlot]
            /\ mail' = mail \cup {ex[e].xid}
            /\ UNCHANGED run
    /\ UNCHANGED <<task, api, sent, controls, crashes, duplicates,
                   reported, artifacts, spent, unsupported>>

\* run_terminal_hooks(): the message writeback and the batch dispatcher.
Hooks(e) ==
    /\ ex[e].pc = "hooks"
    /\ reported' = (reported \/ ex[e].report = "COMPLETED")
    /\ mail' = IF ex[e].again THEN mail \cup {ex[e].xid} ELSE mail
    /\ ex' = [ex EXCEPT ![e] = FreeSlot]
    /\ UNCHANGED <<db, api, sent, bounds, artifacts, spent, abandoned, unsupported>>

\* The lease of a live handler is renewed every 20 s of its 60; that of a dead
\* execution, or of one whose renewer fell behind, runs out.
ExpireLease(t) ==
    /\ task[t].status = "RUNNING" /\ task[t].lease = "live"
    /\ task' = [task EXCEPT ![t].lease = "expired"]
    /\ IF \E e \in Executors : t \in Holding(e)
       THEN Overlap /\ duplicates < MaxDuplicates /\ duplicates' = duplicates + 1
       ELSE UNCHANGED duplicates
    /\ UNCHANGED <<run, ex, api, queue, controls, crashes, failures, history>>

BackoffElapses(t) ==
    /\ task[t].status = "PENDING" /\ task[t].waiting
    /\ task' = [task EXCEPT ![t].waiting = FALSE]
    /\ UNCHANGED <<run, ex, api, queue, bounds, history>>
-----------------------------------------------------------------------------
(* Creation and control.  Both commit the run first and enqueue after; a   *)
(* failed enqueue writes the previous status back.                         *)

QueueStep(c, act, back) == ctl' = [ctl EXCEPT ![c] = [step |-> "queue", act |-> act, back |-> back]]
RequestEnds(c) == ctl' = [ctl EXCEPT ![c] = IdleRequest]

CreateRun(c) ==
    /\ run.status = "ABSENT" /\ ctl[c].step = "idle"
    /\ run' = [run EXCEPT !.status = "PENDING"]
    /\ QueueStep(c, "create", "FAILED")
    /\ UNCHANGED <<task, ex, probe, sweep, queue, bounds, history>>

Allowed(act) ==
    [pause  |-> {"PENDING", "RUNNING"},
     resume |-> {"PAUSED"},
     cancel |-> {"PENDING", "RUNNING", "PAUSED", "FAILED", "BUDGET_EXHAUSTED"},
     retry  |-> {"FAILED", "PAUSED", "BUDGET_EXHAUSTED"}][act]

ControlRead(c) ==
    /\ ctl[c].step = "idle" /\ controls < MaxControls
    /\ \E act \in {"pause", "resume", "cancel", "retry"} :
        /\ run.status \in Allowed(act)
        /\ ctl' = [ctl EXCEPT ![c] = [step |-> "read", act |-> act, back |-> run.status]]
    /\ controls' = controls + 1
    /\ UNCHANGED <<db, ex, probe, sweep, queue, crashes, failures, duplicates, history>>

Writing(c, act) == ctl[c].step = "read" /\ ctl[c].act = act

Pause(c) ==
    /\ Writing(c, "pause")
    /\ run' = [run EXCEPT !.status = "PAUSED"]
    /\ RequestEnds(c)
    /\ UNCHANGED <<task, ex, probe, sweep, queue, bounds, history>>

Cancel(c) ==
    /\ Writing(c, "cancel")
    /\ run' = [run EXCEPT !.status = "CANCELLED", !.reason = "user"]
    /\ RequestEnds(c)
    /\ UNCHANGED <<task, ex, probe, sweep, queue, bounds, history>>

Resume(c) ==
    /\ Writing(c, "resume")
    /\ run' = [run EXCEPT !.status = "RUNNING"]
    /\ QueueStep(c, "resume", ctl[c].back)
    /\ UNCHANGED <<task, ex, probe, sweep, queue, bounds, history>>

\* Retrying an exhausted run raises its budget by half.
Reopened(c) ==
    IF ctl[c].back = "BUDGET_EXHAUSTED"
    THEN [run EXCEPT !.status = "RUNNING",
                     !.limit = Larger((3 * @) \div 2, run.used + 1)]
    ELSE [run EXCEPT !.status = "RUNNING"]

\* Retry of the run: every FAILED task starts afresh.
RetryRun(c) ==
    /\ Writing(c, "retry")
    /\ task' = [t \in Tasks |->
                  IF task[t].status = "FAILED"
                  THEN [task[t] EXCEPT !.status = "PENDING", !.attempts = 0,
                                       !.retryable = 0, !.waiting = FALSE]
                  ELSE task[t]]
    /\ run' = Reopened(c)
    /\ QueueStep(c, "retry", ctl[c].back)
    /\ UNCHANGED <<ex, probe, sweep, queue, bounds, history>>

\* Retry of one task, whatever its status.
RetryTask(c, t) ==
    /\ Writing(c, "retry")
    /\ task' = [task EXCEPT ![t].status = "PENDING", ![t].attempts = @ + 1]
    /\ run' = Reopened(c)
    /\ QueueStep(c, "retry", ctl[c].back)
    /\ UNCHANGED <<ex, probe, sweep, queue, bounds, history>>

Enqueue(c) ==
    /\ ctl[c].step = "queue"
    /\ sent' = sent + 1
    /\ mail' = mail \cup {sent + 1}
    /\ RequestEnds(c)
    /\ UNCHANGED <<db, ex, probe, sweep, bounds, history>>

EnqueueFails(c) ==
    /\ ctl[c].step = "queue" /\ failures < MaxFailures
    /\ failures' = failures + 1
    /\ run' = [run EXCEPT !.status = ctl[c].back,
                          !.reason = IF ctl[c].act = "create" THEN "queue" ELSE @]
    /\ RequestEnds(c)
    /\ UNCHANGED <<task, ex, probe, sweep, queue, controls, crashes, duplicates, history>>

\* The API process dies between the commit and the enqueue.
RequestDies(c) ==
    /\ ctl[c].step = "queue" /\ crashes < MaxCrashes
    /\ crashes' = crashes + 1
    /\ RequestEnds(c)
    /\ UNCHANGED <<db, ex, probe, sweep, queue, controls, failures, duplicates, history>>
-----------------------------------------------------------------------------
(* probe_auto_paused_runs(): a one-token call decides, a locked re-read    *)
(* keeps the answer from reviving a run that is no longer paused.          *)

ProbeScan ==
    /\ probe = "idle" /\ run.status = "PAUSED" /\ run.autoPaused
    /\ run.probes < MaxProbes
    /\ probe' = "probing"
    /\ UNCHANGED <<db, ex, ctl, sweep, queue, bounds, history>>

\* (Mutant of ProbeSucceeds: the run is not read again after the call.)
ProbeSucceedsBlindly ==
    /\ probe = "probing"
    /\ run' = [run EXCEPT !.status = "RUNNING"] /\ probe' = "queue"
    /\ UNCHANGED <<task, ex, ctl, sweep, queue, bounds, history>>

ProbeSucceeds ==
    /\ probe = "probing"
    /\ IF run.status = "PAUSED"
       THEN run' = [run EXCEPT !.status = "RUNNING"] /\ probe' = "queue"
       ELSE UNCHANGED run /\ probe' = "idle"
    /\ UNCHANGED <<task, ex, ctl, sweep, queue, bounds, history>>

ProbeFails ==
    /\ probe = "probing"
    /\ run' = IF run.status = "PAUSED" THEN [run EXCEPT !.probes = @ + 1] ELSE run
    /\ probe' = "idle"
    /\ UNCHANGED <<task, ex, ctl, sweep, queue, bounds, history>>

ProbeEnqueue ==
    /\ probe = "queue"
    /\ sent' = sent + 1
    /\ mail' = mail \cup {sent + 1}
    /\ probe' = "idle"
    /\ UNCHANGED <<db, ex, ctl, sweep, bounds, history>>

\* (Mutant of ProbeEnqueueFails: the run stays RUNNING.)
ProbeEnqueueFailsQuietly ==
    /\ probe = "queue" /\ failures < MaxFailures
    /\ failures' = failures + 1
    /\ probe' = "idle"
    /\ UNCHANGED <<db, ex, ctl, sweep, queue, controls, crashes, duplicates, history>>

ProbeEnqueueFails ==
    /\ probe = "queue" /\ failures < MaxFailures
    /\ failures' = failures + 1
    /\ run' = IF run.status = "RUNNING" THEN [run EXCEPT !.status = "PAUSED"] ELSE run
    /\ probe' = "idle"
    /\ UNCHANGED <<task, ex, ctl, sweep, queue, controls, crashes, duplicates, history>>
-----------------------------------------------------------------------------
(* Pass 2 of sweep_stale_run_messages(): a RUNNING run without a live lease*)
(* or a scheduled back-off, silent for ten minutes, has lost its executor. *)

SweepRead ==
    /\ sweep = "idle" /\ run.status = "RUNNING"
    /\ ~LiveLease /\ \A t \in Tasks : View(t) # "WAITING"
    /\ Overlap \/ Executing = {}
    /\ sweep' = "read"
    /\ UNCHANGED <<db, ex, ctl, probe, queue, bounds, history>>

SweepWrite ==
    /\ sweep = "read"
    /\ run' = [run EXCEPT !.status = "FAILED", !.reason = "executor lost"]
    /\ sweep' = "hooks"
    /\ UNCHANGED <<task, ex, ctl, probe, queue, bounds, history>>

SweepHooks ==
    /\ sweep = "hooks"
    /\ sweep' = "idle"
    /\ UNCHANGED <<db, ex, ctl, probe, queue, bounds, history>>
-----------------------------------------------------------------------------
Decide(e) ==
    \/ Recover(e) \/ GatePass(e) \/ GateFail(e) \/ FinalGateEnds(e) \/ FinalGateRevises(e)
    \/ Finish(e) \/ Wait(e) \/ DeadEnd(e) \/ Claim(e) \/ ExhaustBudget(e) \/ NoCredential(e)

Commit(e) ==
    \/ CommitReturn(e) \/ CommitOk(e) \/ CommitBackoff(e) \/ CommitRepeat(e)
    \/ CommitDegraded(e) \/ CommitFailed(e)

\* The steps of an execution that no fault causes, except the deliveries.
Proceed(e) ==
    \/ QuietButExecutor(e) /\ \/ Read(e) \/ Decide(e) \/ Commit(e)
                              \/ \E t \in Tasks : Superseded(e, t) \/ CommitRead(e, t)
    \/ BuildProvider(e) \/ ProviderRefused(e) \/ Join(e) \/ Hooks(e)
    \/ \E t \in Tasks : HandlerEnds(e, t)

Execution(e) ==
    Deliver(e) \/ Duplicate(e) \/ Crash(e) \/ Proceed(e) \/ (Quiet /\ ExecutorError(e))

Control(c) ==
    \/ QuietButClient(c) /\ \/ ControlRead(c) \/ Pause(c) \/ Cancel(c) \/ Resume(c)
                            \/ RetryRun(c) \/ \E t \in Tasks : RetryTask(c, t)
    \/ Quiet /\ (CreateRun(c) \/ EnqueueFails(c))
    \/ RequestDies(c)

Probe == Quiet /\ \/ ProbeScan \/ ProbeSucceeds \/ ProbeFails \/ ProbeEnqueueFails
Sweep == (QuietButSweeper /\ (SweepRead \/ SweepWrite)) \/ SweepHooks
Clock(t) == ExpireLease(t) \/ BackoffElapses(t)

Next ==
    \/ \E e \in Executors : Execution(e)
    \/ \E c \in Clients : Control(c) \/ Enqueue(c)
    \/ Probe \/ ProbeEnqueue \/ Sweep
    \/ \E t \in Tasks : Clock(t)

Spec == Init /\ [][Next]_vars

\* The loop runs while its worker lives, handlers end, messages are delivered,
\* requests are answered, the sweeper is scheduled and time passes.  Nothing
\* is assumed of users, crashes, failures or the prober's schedule.
Answer(c) ==
    \/ QuietButClient(c) /\ \/ Pause(c) \/ Cancel(c) \/ Resume(c)
                            \/ RetryRun(c) \/ \E t \in Tasks : RetryTask(c, t)
    \/ Enqueue(c)

Fairness ==
    /\ \A e \in Executors : WF_vars(Deliver(e)) /\ WF_vars(Proceed(e))
    /\ \A c \in Clients : WF_vars(Answer(c))
    /\ WF_vars(ProbeEnqueue) /\ WF_vars(Sweep)
    /\ \A t \in Tasks : WF_vars(Clock(t))

FairSpec == Spec /\ Fairness
-----------------------------------------------------------------------------
(* What holds whatever the timing.                                         *)

\* A task is RUNNING only while an execution holds it, or because the one that
\* held it died: every branch that gives up a batch gives its tasks back.
NothingLeftClaimed ==
    \A t \in Tasks : task[t].status = "RUNNING" =>
        t \in abandoned \/ \E e \in Executors : t \in Holding(e)

\* A run that is to be executed has a message waiting, an execution that will
\* look at it again, or a writer about to enqueue it, unless the process that
\* was to enqueue it died.
ActiveIsDriven ==
    run.status \in {"PENDING", "RUNNING"} =>
        \/ mail # {} \/ \E e \in Executors : ex[e].pc \notin {"off", "hooks"}
        \/ probe = "queue" \/ \E c \in Clients : ctl[c].step = "queue"
        \/ crashes > 0

\* A COMPLETED or CANCELLED run changes status only by a transaction that read
\* it before it was closed, by a request that takes its own change back, or by
\* an execution that cannot build its provider and does not look again.
StaleWriter ==
    \/ \E e \in Executors : \/ ex[e].pc = "decide" /\ ex[e].run \in {"PENDING", "RUNNING"}
                            \/ ex[e].cm # 0 /\ ex[e].cmOpen
                            \/ ex[e].pc = "provider" /\ ~ex[e].built
    \/ \E c \in Clients : ctl[c].step # "idle" /\ ctl[c].back # "CANCELLED"
    \/ sweep = "read"

FinalUnlessStale ==
    [][ (run.status \in {"COMPLETED", "CANCELLED"} /\ run'.status # run.status)
            => StaleWriter ]_vars

Starts(t) == task[t].status # "RUNNING" /\ task'[t].status = "RUNNING"

\* A task has a result, or a passed gate could do without it.
Delivered(t) ==
    \/ artifacts[t] > 0
    \/ t \in Skippable /\ \A r \in Reviews \ Skippable : artifacts[r] > 0

\* A task is claimed only after everything it depends on has delivered, even
\* by an execution whose read is no longer true.
StartsAfterDeps ==
    [][ \A t \in Tasks : Starts(t) => \A d \in Deps[t] : Delivered(d) ]_vars

\* Once the transactions that read a run before its cancel are through, it
\* stays cancelled: no task is claimed, no artifact is committed, and no other
\* transaction that could do so begins.
CancelStopsWork ==
    [][ (run.status = "CANCELLED" /\ ~StaleWriter) =>
            /\ run'.status = "CANCELLED" /\ ~StaleWriter'
            /\ artifacts' = artifacts /\ \A t \in Tasks : ~Starts(t) ]_vars

\* The result of a task that has succeeded is written again only by a
\* transaction that was open by then: not for a late duplicate of the message,
\* nor for an execution that lost its lease.
NoSecondArtifact ==
    [][ \A t \in Tasks, e \in Executors :
            task[t].status = "SUCCEEDED" /\ ex[e].cm # t => ex'[e].cm # t ]_vars

\* The budget counter never exceeds the tokens of the committed results: an
\* update can be lost, but no result is charged twice.
BudgetIsSpent == run.used <= spent

\* A run is completed only by an execution that saw each of its tasks either
\* delivered or still running.
CompletedIsDone ==
    [][ (run.status # "COMPLETED" /\ run'.status = "COMPLETED") =>
            \E e \in Executors :
                /\ ex[e].pc = "decide"
                /\ \A t \in Tasks : Delivered(t) \/ ex[e].seen[t] = "RUNNING" ]_vars
-----------------------------------------------------------------------------
(* What is checked for one execution at a time, with atomic transactions,  *)
(* when no message is delivered again before the leases of a dead          *)
(* execution run out.                                                      *)

\* A RUNNING run is closed or paused in the end, through failing handlers,
\* revise rounds, crashes and requests.
RunSettles == run.status = "RUNNING" ~> run.status \in Closed \cup {"PAUSED"}

\* While no process dies, a completed run reaches its hooks.
CompletionIsReported ==
    run.status = "COMPLETED" ~> (reported \/ crashes > 0)
-----------------------------------------------------------------------------
\* Losing the claims of a batch to another execution is not an unknown
\* provider (agent_executor.py, the claim branches).
RefusedOnlyIfUnsupported == run.reason = "provider" => unsupported
=============================================================================
