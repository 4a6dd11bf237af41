----------------------------- MODULE BatchChain -----------------------------
(***************************************************************************)
(* The batch chapter dispatcher (application/agents/batch_dispatch.py).    *)
(* When an analyze run completes, its hook plans the batch and creates the *)
(* run of chapter 1; the hook of each chapter run creates the next.  The   *)
(* state is in the database only: batch.* events on the analyze run, and   *)
(* the chapter runs under one idempotency key per chapter.                 *)
(*                                                                         *)
(* A chapter run is what AgentRun shows of one: who executes it, how it    *)
(* ends, and what users, the sweeper and late executions do to its status. *)
(* A hook reads the plan and the end of the batch without a lock, so its   *)
(* read and its write are two steps; the creation of a run is one, as the  *)
(* unique index on the idempotency key turns a lost race into a replay.    *)
(* A control request too reads a run without a lock, writes its status     *)
(* later, and, when it cannot enqueue the run, writes back what it read.   *)
(***************************************************************************)
EXTENDS Integers

CONSTANTS
    NChapters,     \* chapters of the plan (normalised, sorted, limited)
    Handlers,      \* processes that can be inside on_run_terminal, numbered
    Users,         \* control requests that can be in progress at once
    MaxControls,   \* bound: control requests
    MaxFaults      \* bound: failed dispatches and enqueues (active-run cap,
                   \* queue down); hooks that die or whose exception is
                   \* swallowed, requests that die before their enqueue;
                   \* redeliveries, executions that overlap another writer

ASSUME ChaptersAssumption == NChapters \in Nat \ {0, 1}
ASSUME BoundsAssumption ==
    Handlers \subseteq Nat /\ MaxControls \in Nat /\ MaxFaults \in Nat

Chapters == 1..NChapters

VARIABLES
    analyzed,  \* the analyze run is COMPLETED
    workMode,  \* projects.mode = "work"
    planned,   \* a batch.planned event is committed
    events,    \* terminal batch events committed, by type
    ch,        \* status of each chapter's run
    driven,    \* queue messages and executions of each chapter's run
    hook,      \* the hook each handler is in
    asked,     \* the control request each user has in progress
    controls, faults,  \* bounded event counters
    lost,      \* history: a hook, or a request before its enqueue, was lost
    enqueued,  \* history: enqueues of each chapter by the dispatcher
    settled,   \* history: chapters whose terminal status was handed to a hook
    reopened,  \* history: settled chapters that a control request opened again
    overlapped \* history: two hooks were past their reads at once

batch   == <<planned, events>>
runs    == <<ch, driven>>
bounds  == <<controls, faults>>
history == <<enqueued, settled, reopened, overlapped, lost>>
batchVars == <<analyzed, workMode, batch, runs, hook, asked, bounds, history>>

Endings == {"completed", "terminated", "stalled"}

\* FAILED stands for BUDGET_EXHAUSTED too: the dispatcher and the control
\* requests treat the two alike.
Open     == {"PENDING", "RUNNING", "PAUSED"}
Reported == {"COMPLETED", "FAILED", "CANCELLED"}
Statuses == {"ABSENT"} \cup Open \cup Reported

NoHook == [pc |-> "off", run |-> 0, status |-> "COMPLETED", by |-> "executor"]

\* run 0 is the analyze run.  pc: "begin" before the reads; "plan" and
\* "dispatch" before the creation of a run; "enqueue" between its commit and
\* its enqueue; "stall" before the batch.stalled event of a failed enqueue.
Hooks ==
    [pc : {"off", "begin", "plan", "dispatch", "enqueue", "stall", "terminate", "close"},
     run : 0..NChapters, status : Reported, by : {"executor", "sweeper"}]

\* pc: "write" between the read of the run and the write of its status,
\* "enqueue" between the commit of that and the enqueue.
NoAsk == [pc |-> "off", run |-> 1, saw |-> "PENDING", to |-> "RUNNING"]
Asks ==
    [pc : {"off", "write", "enqueue"}, run : Chapters,
     saw : Open \cup {"FAILED"}, to : {"PAUSED", "CANCELLED", "RUNNING"}]

FlagsOK ==
    /\ analyzed \in BOOLEAN /\ workMode \in BOOLEAN
    /\ planned \in BOOLEAN /\ overlapped \in BOOLEAN /\ lost \in BOOLEAN

RowsOK ==
    /\ events \in [Endings -> Nat]
    /\ ch \in [Chapters -> Statuses] /\ driven \in [Chapters -> Nat]
    /\ hook \in [Handlers -> Hooks] /\ asked \in [Users -> Asks]
    /\ controls \in Nat /\ faults \in Nat
    /\ enqueued \in [Chapters -> Nat]
    /\ settled \subseteq Chapters /\ reopened \subseteq Chapters

BatchTypeOK == FlagsOK /\ RowsOK

BatchInit ==
    /\ analyzed = FALSE /\ workMode = TRUE /\ planned = FALSE
    /\ events = [x \in Endings |-> 0]
    /\ ch = [k \in Chapters |-> "ABSENT"] /\ driven = [k \in Chapters |-> 0]
    /\ hook = [h \in Handlers |-> NoHook] /\ asked = [u \in Users |-> NoAsk]
    /\ controls = 0 /\ faults = 0 /\ lost = FALSE
    /\ enqueued = [k \in Chapters |-> 0]
    /\ settled = {} /\ reopened = {} /\ overlapped = FALSE

\* A batch that saw any of these never dispatches again.
Ended == \E x \in Endings : events[x] > 0
-----------------------------------------------------------------------------
(* The runs, as the dispatcher sees them.                                  *)

\* Handler h, the first that is free, enters on_run_terminal for run k.
Fire(h, k, s, by) ==
    /\ hook[h].pc = "off" /\ \A g \in Handlers : g < h => hook[g].pc # "off"
    /\ hook' = [hook EXCEPT ![h] = [pc |-> "begin", run |-> k, status |-> s, by |-> by]]
    /\ settled' = IF k = 0 THEN settled ELSE settled \cup {k}

SetStatus(k, s) == ch' = [ch EXCEPT ![k] = s]
Fault == faults < MaxFaults /\ faults' = faults + 1

\* The analyze run completes; a second execution of it may do so again.
AnalyzeCompletes(h) ==
    /\ IF analyzed THEN Fault ELSE UNCHANGED faults
    /\ analyzed' = TRUE
    /\ Fire(h, 0, "COMPLETED", "executor")
    /\ UNCHANGED <<workMode, batch, runs, asked, controls,
                   enqueued, reopened, overlapped, lost>>

Start(k) ==
    /\ driven[k] > 0 /\ ch[k] = "PENDING"
    /\ SetStatus(k, "RUNNING")
    /\ UNCHANGED <<analyzed, workMode, asked, batch, driven, hook, bounds, history>>

\* An execution closes its run and runs the terminal hooks.  One that read the
\* run before a pause, a cancel or the sweeper writes over it.
ChapterSettles(k, h) ==
    /\ driven[k] > 0
    /\ \/ ch[k] = "RUNNING" /\ UNCHANGED faults
       \/ ch[k] \in {"PAUSED", "FAILED", "CANCELLED"} /\ Fault
    /\ \E s \in {"COMPLETED", "FAILED"} :
           SetStatus(k, s) /\ Fire(h, k, s, "executor")
    /\ driven' = [driven EXCEPT ![k] = @ - 1]
    /\ UNCHANGED <<analyzed, workMode, asked, batch, controls,
                   enqueued, reopened, overlapped, lost>>

\* At the top of its loop an execution finds the run cancelled.
ObserveCancel(k, h) ==
    /\ driven[k] > 0 /\ ch[k] = "CANCELLED"
    /\ Fire(h, k, "CANCELLED", "executor")
    /\ driven' = [driven EXCEPT ![k] = @ - 1]
    /\ UNCHANGED <<analyzed, workMode, asked, batch, ch, bounds,
                   enqueued, reopened, overlapped, lost>>

\* ... or paused, or closed by another: it leaves without a hook.
LeaveChapter(k) ==
    /\ driven[k] > 0 /\ ch[k] \in {"PAUSED", "COMPLETED", "FAILED"}
    /\ driven' = [driven EXCEPT ![k] = @ - 1]
    /\ UNCHANGED <<analyzed, workMode, asked, batch, ch, hook, bounds, history>>

\* A message is delivered to a second execution.
Redeliver(k) ==
    /\ driven[k] > 0 /\ ch[k] \in {"PENDING", "RUNNING"} /\ Fault
    /\ driven' = [driven EXCEPT ![k] = @ + 1]
    /\ UNCHANGED <<analyzed, workMode, asked, batch, ch, hook, controls, history>>

\* The sweeper fails a run that shows no sign of life, and fires its hook.
SweepLost(k, h) ==
    /\ ch[k] = "RUNNING"
    /\ IF driven[k] > 0 THEN Fault ELSE UNCHANGED faults
    /\ SetStatus(k, "FAILED") /\ Fire(h, k, "FAILED", "sweeper")
    /\ UNCHANGED <<analyzed, workMode, asked, batch, driven, controls,
                   enqueued, reopened, overlapped, lost>>

\* A control request reads its run without a lock: the statuses it may start
\* from.  Resume and retry both set the run RUNNING.
From(to) ==
    CASE to = "PAUSED"    -> {"PENDING", "RUNNING"}
      [] to = "CANCELLED" -> Open \cup {"FAILED"}
      [] to = "RUNNING"   -> {"PAUSED", "FAILED"}

AskControl(u, k, to) ==
    /\ asked[u].pc = "off" /\ ch[k] \in From(to)
    /\ controls < MaxControls /\ controls' = controls + 1
    /\ asked' = [asked EXCEPT ![u] = [pc |-> "write", run |-> k, saw |-> ch[k], to |-> to]]
    /\ UNCHANGED <<analyzed, workMode, batch, runs, hook, faults, history>>

\* What a request writes goes over whatever the run has become.
WriteOver(k, s) ==
    /\ SetStatus(k, s)
    /\ reopened' = IF ch[k] \in Reported /\ s \in Open THEN reopened \cup {k} ELSE reopened

Answer(u) == asked' = [asked EXCEPT ![u] = NoAsk]

ControlChapter(u) ==
    /\ asked[u].pc = "write"
    /\ WriteOver(asked[u].run, asked[u].to)
    /\ IF asked[u].to = "RUNNING" THEN asked' = [asked EXCEPT ![u].pc = "enqueue"] ELSE Answer(u)
    /\ UNCHANGED <<analyzed, workMode, batch, driven, hook, bounds,
                   enqueued, settled, overlapped, lost>>

\* Resume and retry enqueue the run after their commit.
Redrive(u) ==
    /\ asked[u].pc = "enqueue"
    /\ driven' = [driven EXCEPT ![asked[u].run] = @ + 1]
    /\ Answer(u)
    /\ UNCHANGED <<analyzed, workMode, batch, ch, hook, bounds, history>>

\* The queue is down: the status that was read is written back.
TakeBack(u) ==
    /\ asked[u].pc = "enqueue" /\ Fault
    /\ WriteOver(asked[u].run, asked[u].saw)
    /\ Answer(u)
    /\ UNCHANGED <<analyzed, workMode, batch, driven, hook, controls,
                   enqueued, settled, overlapped, lost>>

\* The process dies before the enqueue.
AskLost(u) ==
    /\ asked[u].pc = "enqueue" /\ Fault /\ lost' = TRUE
    /\ Answer(u)
    /\ UNCHANGED <<analyzed, workMode, batch, runs, hook, controls,
                   enqueued, settled, reopened, overlapped>>

LeaveWorkMode ==
    /\ workMode /\ controls < MaxControls
    /\ workMode' = FALSE /\ controls' = controls + 1
    /\ UNCHANGED <<analyzed, batch, runs, hook, asked, faults, history>>
-----------------------------------------------------------------------------
(* The hook.                                                               *)

\* (Mutant of Decision: the events that ended the batch are not looked at.)
DecisionIgnoringEnd(k, s) ==
    CASE k = 0 -> IF planned \/ ~workMode THEN "off" ELSE "plan"
      [] k > 0 /\ ~planned -> "off"
      [] k > 0 /\ planned /\ s = "CANCELLED" -> "terminate"
      [] k = NChapters /\ planned /\ s # "CANCELLED" -> "close"
      [] OTHER -> IF workMode THEN "dispatch" ELSE "terminate"

\* (Mutant of Decision: a failed chapter is not skipped.)
DecisionOnSuccess(k, s) ==
    CASE k = 0 -> IF planned \/ Ended \/ ~workMode THEN "off" ELSE "plan"
      [] k > 0 /\ (~planned \/ Ended \/ s = "FAILED") -> "off"
      [] k > 0 /\ planned /\ ~Ended /\ s = "CANCELLED" -> "terminate"
      [] k = NChapters /\ planned /\ ~Ended /\ s = "COMPLETED" -> "close"
      [] OTHER -> IF workMode THEN "dispatch" ELSE "terminate"

\* What the hook of run k, told status s, goes on to do.
Decision(k, s) ==
    CASE k = 0 -> IF planned \/ Ended \/ ~workMode THEN "off" ELSE "plan"
      [] k > 0 /\ (~planned \/ Ended) -> "off"
      [] k > 0 /\ planned /\ ~Ended /\ s = "CANCELLED" -> "terminate"
      [] k = NChapters /\ planned /\ ~Ended /\ s # "CANCELLED" -> "close"
      [] OTHER -> IF workMode THEN "dispatch" ELSE "terminate"

PastRead(h) == hook[h].pc \notin {"off", "begin"}
Go(h, pc) == hook' = IF pc = "off" THEN [hook EXCEPT ![h] = NoHook]
                                   ELSE [hook EXCEPT ![h].pc = pc]

HookRead(h) ==
    /\ hook[h].pc = "begin"
    /\ LET next == Decision(hook[h].run, hook[h].status)
       IN  /\ Go(h, next)
           /\ overlapped' = (overlapped \/ (next # "off" /\ \E g \in Handlers : PastRead(g)))
    /\ UNCHANGED <<analyzed, workMode, asked, batch, runs, bounds,
                   enqueued, settled, reopened, lost>>

\* (Mutant of Target: the first chapter without a run.)
TargetFirstAbsent(h) ==
    IF \E k \in Chapters : ch[k] = "ABSENT" /\ hook[h].pc # "enqueue"
    THEN CHOOSE k \in Chapters :
             ch[k] = "ABSENT" /\ \A j \in 1..(k - 1) : ch[j] # "ABSENT"
    ELSE hook[h].run + 1

\* The chapter the hook is to begin: the first of the plan after its own.
Target(h) == hook[h].run + 1

Dispatching(h) == hook[h].pc \in {"plan", "dispatch"}

\* The chapter has a run: create_agent_run returns it, and nothing of the
\* hook's transaction is committed.
Replay(h) ==
    /\ Dispatching(h) /\ ch[Target(h)] # "ABSENT"
    /\ Go(h, "off")
    /\ UNCHANGED <<analyzed, workMode, asked, batch, runs, bounds, history>>

\* The run, and the plan, are committed together.
CreateChapter(h) ==
    /\ Dispatching(h) /\ ch[Target(h)] = "ABSENT"
    /\ SetStatus(Target(h), "PENDING")
    /\ planned' = TRUE
    /\ Go(h, "enqueue")
    /\ UNCHANGED <<analyzed, workMode, asked, events, driven, bounds, history>>

Record(x) == events' = [events EXCEPT ![x] = @ + 1]

\* The user's cap on active runs is reached: the stall is recorded.
CapReached(h) ==
    /\ Dispatching(h) /\ ch[Target(h)] = "ABSENT" /\ Fault
    /\ planned' = TRUE /\ Record("stalled")
    /\ Go(h, "off")
    /\ UNCHANGED <<analyzed, workMode, asked, runs, controls, history>>

Enqueue(h) ==
    /\ hook[h].pc = "enqueue"
    /\ driven' = [driven EXCEPT ![Target(h)] = @ + 1]
    /\ enqueued' = [enqueued EXCEPT ![Target(h)] = @ + 1]
    /\ Go(h, "off")
    /\ UNCHANGED <<analyzed, workMode, asked, batch, ch, bounds,
                   settled, reopened, overlapped, lost>>

\* The queue is down: the new run is failed, whatever it has become.
EnqueueFails(h) ==
    /\ hook[h].pc = "enqueue" /\ Fault
    /\ SetStatus(Target(h), "FAILED")
    /\ Go(h, "stall")
    /\ UNCHANGED <<analyzed, workMode, asked, batch, driven, controls, history>>

\* A batch event that ends the hook.
Ends(h, pc, x) ==
    /\ hook[h].pc = pc
    /\ Record(x)
    /\ Go(h, "off")
    /\ UNCHANGED <<analyzed, workMode, asked, planned, runs, bounds, history>>

Stall(h)     == Ends(h, "stall", "stalled")
Terminate(h) == Ends(h, "terminate", "terminated")
Close(h)     == Ends(h, "close", "completed")

\* The hook raises, which on_run_terminal swallows, or its process dies; then
\* the executor's message, not yet acknowledged, is delivered again.
HookLost(h) ==
    /\ hook[h].pc # "off" /\ Fault /\ lost' = TRUE
    /\ Go(h, "off")
    /\ \/ UNCHANGED driven
       \/ /\ hook[h].by = "executor" /\ hook[h].run > 0
          /\ driven' = [driven EXCEPT ![hook[h].run] = @ + 1]
    /\ UNCHANGED <<analyzed, workMode, asked, batch, ch, controls,
                   enqueued, settled, reopened, overlapped>>
-----------------------------------------------------------------------------
HookStep(h) ==
    \/ HookRead(h) \/ Replay(h) \/ CreateChapter(h) \/ Enqueue(h)
    \/ Stall(h) \/ Terminate(h) \/ Close(h)

Execution(k) ==
    \/ Start(k) \/ LeaveChapter(k)
    \/ \E h \in Handlers : ChapterSettles(k, h) \/ ObserveCancel(k, h)

AskStep(u) ==
    \/ \E k \in Chapters, to \in {"PAUSED", "CANCELLED", "RUNNING"} : AskControl(u, k, to)
    \/ ControlChapter(u) \/ Redrive(u) \/ TakeBack(u) \/ AskLost(u)

BatchNext ==
    \/ \E h \in Handlers : \/ AnalyzeCompletes(h) \/ HookStep(h)
                           \/ CapReached(h) \/ EnqueueFails(h) \/ HookLost(h)
    \/ \E k \in Chapters : \/ Execution(k) \/ Redeliver(k)
                           \/ \E h \in Handlers : SweepLost(k, h)
    \/ \E u \in Users : AskStep(u)
    \/ LeaveWorkMode

BatchSpec == BatchInit /\ [][BatchNext]_batchVars

\* Hooks go on, executions end or leave, the sweeper is scheduled.  Nothing is
\* assumed of users, failures or late writers.
Fairness ==
    /\ \A h \in Handlers : WF_batchVars(HookStep(h))
    /\ \A k \in Chapters :
          /\ WF_batchVars(Execution(k))
          /\ WF_batchVars(\E h \in Handlers : SweepLost(k, h))

FairSpec == BatchSpec /\ Fairness
-----------------------------------------------------------------------------
(* Properties.                                                             *)

\* A chapter is enqueued by the dispatcher at most once, however often, and
\* beside whatever else, the hooks are fired.
EnqueuedOnce == \A k \in Chapters : enqueued[k] <= 1

\* One chapter at a time, but for those that a request has opened again (a
\* retry, or a request overtaken by the end of the run it read): a hook fires
\* only for a chapter that is over, and only the last one begins another.
OneAtATime ==
    \A j, k \in Chapters \ reopened : ch[j] \in Open /\ ch[k] \in Open => j = k

\* A batch ends once, unless two hooks read it before either wrote.
EndsOnce ==
    overlapped \/ events["completed"] + events["terminated"] + events["stalled"] <= 1

\* An ended batch begins no chapter, unless by a hook that read it before.
NothingBegunAfterEnd ==
    [][ (Ended /\ \E k \in Chapters : ch[k] = "ABSENT" /\ ch'[k] # "ABSENT")
            => overlapped ]_batchVars

Begun == {k \in Chapters : ch[k] # "ABSENT"}

\* The dispatcher implements the serial chain of its documentation.
SerialChain == INSTANCE SerialChain WITH
    begun     <- Begun,
    settled   <- settled,
    completed <- events["completed"] > 0

ImplementsSerialChain == SerialChain!Spec

\* A planned batch ends, unless a hook is lost or the user leaves its latest
\* chapter paused or cancelled.
Latest == CHOOSE k \in Chapters :
              ch[k] # "ABSENT" /\ \A j \in Chapters : j > k => ch[j] = "ABSENT"
Parked == Begun # {} /\ ch[Latest] \in {"PAUSED", "CANCELLED"}

BatchMovesOn == planned ~> (Ended \/ lost \/ []Parked)
-----------------------------------------------------------------------------
\* Cancelling a chapter ends the batch (batch_dispatch.py:11-14).
CancelEndsBatch == (\E k \in Chapters : ch[k] = "CANCELLED") ~> Ended
=============================================================================
