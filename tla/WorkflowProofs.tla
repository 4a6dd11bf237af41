---------------------------- MODULE WorkflowProofs ----------------------------
(***************************************************************************)
(* Proofs about the two workflows whose next step is decided from what the *)
(* database says of the steps before it: a batch that creates the run of   *)
(* one chapter after another (BatchChain), and a run that works on one     *)
(* node of a definition after another (DefinitionRun).                     *)
(***************************************************************************)
EXTENDS BatchChain, DefinitionRun, TLAPS

(***************************************************************************)
(* BatchChain, for any number of chapters, any set of handlers and any     *)
(* bounds: the chain is serial, it implements SerialChain, and it ends     *)
(* once unless two hooks overlap.                                          *)
(***************************************************************************)

\* A hook names a run; its target is a chapter while it dispatches.
HooksAim ==
    \A h \in Handlers :
        /\ hook[h].pc \in {"plan", "dispatch", "enqueue", "stall"} => hook[h].run < NChapters
        /\ hook[h].pc = "close" => hook[h].run = NChapters

Rows == RowsOK /\ HooksAim

\* The Boolean variables: history and the flags of the analyze run.
LEMMA FlagsStep == FlagsOK /\ [BatchNext]_batchVars => FlagsOK'
<1> SUFFICES ASSUME FlagsOK, [BatchNext]_batchVars PROVE FlagsOK'
  OBVIOUS
<1> USE DEF FlagsOK, batch, history
<1>1. ASSUME NEW h \in Handlers, AnalyzeCompletes(h) PROVE FlagsOK'
  BY <1>1, Zenon DEF AnalyzeCompletes
<1>2. ASSUME NEW h \in Handlers, HookStep(h) PROVE FlagsOK'
  BY <1>2, Zenon DEF HookStep, HookRead, Replay, CreateChapter, Enqueue, Stall, Terminate, Close, Ends
<1>3. ASSUME NEW h \in Handlers, CapReached(h) \/ EnqueueFails(h) \/ HookLost(h) PROVE FlagsOK'
  BY <1>3, Zenon DEF CapReached, EnqueueFails, HookLost
<1>4. ASSUME NEW k \in Chapters, Execution(k) \/ Redeliver(k) PROVE FlagsOK'
  BY <1>4, Zenon DEF Execution, Start, LeaveChapter, Redeliver, ChapterSettles, ObserveCancel
<1>5. ASSUME NEW k \in Chapters, NEW h \in Handlers, SweepLost(k, h) PROVE FlagsOK'
  BY <1>5, Zenon DEF SweepLost
<1>6. ASSUME NEW u \in Users, AskStep(u) PROVE FlagsOK'
  BY <1>6, Zenon DEF AskStep, AskControl, ControlChapter, Redrive, TakeBack, AskLost
<1>7. CASE LeaveWorkMode
  BY <1>7, Zenon DEF LeaveWorkMode
<1>8. CASE UNCHANGED batchVars
  BY <1>8, Zenon DEF batchVars
<1> HIDE DEF FlagsOK
<1> QED BY <1>1, <1>2, <1>3, <1>4, <1>5, <1>6, <1>7, <1>8 DEF BatchNext

\* The steps of BatchNext that write a batch event, a run or an enqueue keep types
\* because a dispatching hook's target is a chapter.
LEMMA RowsStep == Rows /\ [BatchNext]_batchVars => Rows'
<1> SUFFICES ASSUME Rows, [BatchNext]_batchVars PROVE Rows'
  OBVIOUS
<1> USE DEF Rows, RowsOK, HooksAim, batch, runs, bounds, history
<1>0. /\ {"PENDING", "RUNNING", "PAUSED", "COMPLETED", "FAILED", "CANCELLED"} \subseteq Statuses
      /\ {"completed", "terminated", "stalled"} \subseteq Endings
      /\ 0 \in 0..NChapters /\ Chapters \subseteq 0..NChapters
  BY ChaptersAssumption DEF Statuses, Open, Reported, Endings, Chapters
<1>1. ASSUME NEW h \in Handlers, AnalyzeCompletes(h) PROVE Rows'
  BY <1>0, <1>1 DEF AnalyzeCompletes, Fire, Fault, Hooks, Reported
<1>2. ASSUME NEW h \in Handlers, HookStep(h) PROVE Rows'
  <2>1. CASE HookRead(h)
    <3> DEFINE next == Decision(hook[h].run, hook[h].status)
    <3>1. /\ next \in {"off", "plan", "dispatch", "terminate", "close"}
          /\ next \in {"plan", "dispatch"} => hook[h].run < NChapters
          /\ next = "close" => hook[h].run = NChapters
      BY ChaptersAssumption DEF Decision, Hooks, Reported
    <3>2. Go(h, next) /\ UNCHANGED <<analyzed, workMode, asked, batch, runs, bounds,
                                    enqueued, settled, reopened>>
      BY <2>1 DEF HookRead
    <3> HIDE DEF next
    <3> QED BY <1>0, <3>1, <3>2 DEF Go, Hooks, NoHook, Reported
  <2>2. CASE Replay(h)
    BY <1>0, <2>2 DEF Replay, Go, Hooks, NoHook, Reported
  <2>3. CASE CreateChapter(h)
    <3>1. ch' \in [Chapters -> Statuses]
      BY <1>0, <2>3 DEF CreateChapter, SetStatus
    <3>2. hook' \in [Handlers -> Hooks] /\ HooksAim'
      BY <2>3 DEF CreateChapter, Go, Dispatching, Hooks
    <3>3. UNCHANGED <<asked, events, driven, bounds, history>>
      BY <2>3 DEF CreateChapter
    <3> QED BY <3>1, <3>2, <3>3
  <2>4. CASE Enqueue(h)
    <3>1. Target(h) \in Chapters
      BY <2>4, ChaptersAssumption DEF Enqueue, Target, Hooks, Chapters
    <3> QED BY <1>0, <2>4, <3>1 DEF Enqueue, Go, Hooks, NoHook, Reported
  <2>5. CASE Stall(h) \/ Terminate(h) \/ Close(h)
    BY <1>0, <2>5 DEF Stall, Terminate, Close, Ends, Record, Go, Hooks, NoHook, Reported
  <2> QED BY <1>2, <2>1, <2>2, <2>3, <2>4, <2>5 DEF HookStep
<1>3. ASSUME NEW h \in Handlers, CapReached(h) PROVE Rows'
  BY <1>0, <1>3 DEF CapReached, Fault, Record, Go, Hooks, NoHook, Reported
<1>4. ASSUME NEW h \in Handlers, EnqueueFails(h) PROVE Rows'
  <2>1. ch' \in [Chapters -> Statuses]
    BY <1>0, <1>4 DEF EnqueueFails, SetStatus
  <2>2. hook' \in [Handlers -> Hooks] /\ HooksAim'
    BY <1>4 DEF EnqueueFails, Go, Hooks
  <2>3. faults' \in Nat
    BY <1>4 DEF EnqueueFails, Fault
  <2> QED BY <1>4, <2>1, <2>2, <2>3 DEF EnqueueFails
<1>5. ASSUME NEW h \in Handlers, HookLost(h) PROVE Rows'
  <2>1. hook[h].run > 0 => hook[h].run \in Chapters
    BY ChaptersAssumption DEF Hooks, Chapters
  <2> QED BY <1>0, <1>5, <2>1 DEF HookLost, Fault, Go, Hooks, NoHook, Reported
<1>6. ASSUME NEW k \in Chapters, Start(k) \/ LeaveChapter(k) \/ Redeliver(k) PROVE Rows'
  <2>1. CASE Start(k)
    BY <1>0, <2>1 DEF Start, SetStatus
  <2>2. CASE LeaveChapter(k)
    BY <2>2 DEF LeaveChapter
  <2>3. CASE Redeliver(k)
    BY <2>3 DEF Redeliver, Fault
  <2> QED BY <1>6, <2>1, <2>2, <2>3
<1>7. ASSUME NEW k \in Chapters, NEW h \in Handlers, ChapterSettles(k, h) PROVE Rows'
  BY <1>0, <1>7 DEF ChapterSettles, Fire, SetStatus, Fault, Hooks, Reported
<1>8. ASSUME NEW k \in Chapters, NEW h \in Handlers, ObserveCancel(k, h) PROVE Rows'
  BY <1>0, <1>8 DEF ObserveCancel, Fire, Hooks, Reported
<1>9. ASSUME NEW k \in Chapters, NEW h \in Handlers, SweepLost(k, h) PROVE Rows'
  BY <1>0, <1>9 DEF SweepLost, Fire, SetStatus, Fault, Hooks, Reported
<1>10. ASSUME NEW u \in Users, AskStep(u) PROVE Rows'
  <2>0. NoAsk \in Asks /\ asked[u].run \in Chapters /\ asked[u].saw \in Statuses
        /\ asked[u].to \in Statuses
    BY ChaptersAssumption DEF NoAsk, Asks, Chapters, Statuses, Open, Reported
  <2>1. ASSUME NEW k \in Chapters, NEW to \in {"PAUSED", "CANCELLED", "RUNNING"}, AskControl(u, k, to)
        PROVE  Rows'
    <3>1. ch[k] \in Open \cup {"FAILED"}
      BY <2>1 DEF AskControl, From, Open
    <3>2. [pc |-> "write", run |-> k, saw |-> ch[k], to |-> to] \in Asks
      BY <3>1 DEF Asks
    <3> QED BY <2>1, <3>2 DEF AskControl
  <2>2. CASE ControlChapter(u)
    <3>1. [asked[u] EXCEPT !.pc = "enqueue"] \in Asks
      BY DEF Asks
    <3>2. asked' \in [Users -> Asks]
      <4>1. CASE Answer(u)
        BY <2>0, <4>1 DEF Answer
      <4>2. CASE asked' = [asked EXCEPT ![u].pc = "enqueue"]
        <5>1. asked' = [asked EXCEPT ![u] = [asked[u] EXCEPT !.pc = "enqueue"]]
          BY <4>2
        <5> QED BY <3>1, <5>1
      <4> QED BY <2>2, <4>1, <4>2 DEF ControlChapter
    <3>3. ch' \in [Chapters -> Statuses] /\ reopened' \subseteq Chapters
      BY <2>0, <2>2 DEF ControlChapter, WriteOver, SetStatus
    <3> QED BY <2>2, <3>2, <3>3 DEF ControlChapter
  <2>3. CASE Redrive(u)
    BY <2>0, <2>3 DEF Redrive, Answer
  <2>4. CASE TakeBack(u)
    <3>1. ch' \in [Chapters -> Statuses] /\ reopened' \subseteq Chapters
      BY <2>0, <2>4 DEF TakeBack, WriteOver, SetStatus
    <3> QED BY <2>0, <2>4, <3>1 DEF TakeBack, Answer, Fault
  <2>5. CASE AskLost(u)
    BY <2>0, <2>5 DEF AskLost, Answer, Fault
  <2> QED BY <1>10, <2>1, <2>2, <2>3, <2>4, <2>5 DEF AskStep
<1>12. CASE LeaveWorkMode
  BY <1>12 DEF LeaveWorkMode
<1>13. CASE UNCHANGED batchVars
  BY <1>13 DEF batchVars
<1> HIDE DEF Rows
<1> QED
  BY <1>1, <1>2, <1>3, <1>4, <1>5, <1>6, <1>7, <1>8, <1>9, <1>10, <1>12, <1>13
     DEF BatchNext, Execution

\* The type invariant of BatchChain, with the targets it needs.
THEOREM BatchTypeCorrect == BatchSpec => [](BatchTypeOK /\ HooksAim)
<1>1. BatchInit => FlagsOK
  BY Zenon DEF BatchInit, FlagsOK
<1>2. BatchInit => Rows
  BY ChaptersAssumption
     DEF BatchInit, Rows, RowsOK, HooksAim, Statuses, Hooks, NoHook, Asks, NoAsk, Chapters,
         Reported, Open, Endings
<1> QED BY <1>1, <1>2, FlagsStep, RowsStep, PTL DEF BatchSpec, BatchTypeOK, Rows
-----------------------------------------------------------------------------
(* The order of the chapters.  A hook that is running was fired by a       *)
(* chapter that has settled: what it begins comes after settled chapters.  *)

\* A hook's own run has settled, and the chapter it enqueues has a run.
HooksFollow ==
    \A h \in Handlers :
        /\ hook[h].pc # "off" /\ hook[h].run > 0 => hook[h].run \in settled
        /\ hook[h].pc \in {"enqueue", "stall"} => ch[Target(h)] # "ABSENT"

\* Only begun chapters settle; unless a request opens them again, they stay closed.
SettledIsClosed ==
    \A k \in settled : ch[k] # "ABSENT" /\ (ch[k] \in Open => k \in reopened)

\* Every chapter before a begun one has settled.
BegunInOrder ==
    \A j, k \in Chapters : ch[k] # "ABSENT" /\ j < k => j \in settled

\* A request is about a chapter that has a run.
AsksFollow == \A u \in Users : asked[u].pc # "off" => ch[asked[u].run] # "ABSENT"

OrderInv == HooksFollow /\ SettledIsClosed /\ BegunInOrder /\ AsksFollow

\* A request leaves the runs alone, or writes over the status of a run that exists.
LEMMA AskShape ==
    ASSUME Rows, NEW u \in Users, AskStep(u)
    PROVE  /\ UNCHANGED <<hook, events, enqueued, settled, overlapped>>
           /\ \/ /\ UNCHANGED <<ch, reopened>>
                 /\ \A v \in Users : asked'[v].pc # "off" =>
                        \/ asked[v].pc # "off" /\ asked'[v].run = asked[v].run
                        \/ ch[asked'[v].run] # "ABSENT"
              \/ /\ \E s \in Open \cup {"FAILED", "CANCELLED"} : WriteOver(asked[u].run, s)
                 /\ asked[u].pc # "off" /\ asked[u].run \in Chapters
                 /\ \A v \in Users : asked'[v].pc # "off" =>
                        asked[v].pc # "off" /\ asked'[v].run = asked[v].run
<1> USE DEF Rows, RowsOK, batch, runs, bounds, history, Answer, NoAsk
<1>1. ASSUME NEW k \in Chapters, NEW to \in {"PAUSED", "CANCELLED", "RUNNING"}, AskControl(u, k, to)
      PROVE  /\ UNCHANGED <<hook, events, enqueued, settled, overlapped, ch, reopened>>
             /\ \A v \in Users : asked'[v].pc # "off" =>
                   \/ asked[v].pc # "off" /\ asked'[v].run = asked[v].run
                   \/ ch[asked'[v].run] # "ABSENT"
  <2>1. ch[k] # "ABSENT"
    BY <1>1 DEF AskControl, From, Open
  <2> QED BY <1>1, <2>1 DEF AskControl
<1>2. CASE Redrive(u)
  BY <1>2 DEF Redrive
<1>3. CASE AskLost(u)
  BY <1>3 DEF AskLost
<1>4. CASE ControlChapter(u)
  <2>1. asked[u].to \in Open \cup {"FAILED", "CANCELLED"} /\ asked[u].run \in Chapters
    BY DEF Asks, Open
  <2>2. WriteOver(asked[u].run, asked[u].to) /\ asked[u].pc # "off"
    BY <1>4 DEF ControlChapter
  <2>3. \A v \in Users : asked'[v].pc # "off" => asked[v].pc # "off" /\ asked'[v].run = asked[v].run
    BY <1>4, <2>2 DEF ControlChapter, Asks
  <2> QED BY <1>4, <2>1, <2>2, <2>3 DEF ControlChapter
<1>5. CASE TakeBack(u)
  <2>1. asked[u].saw \in Open \cup {"FAILED", "CANCELLED"} /\ asked[u].run \in Chapters
    BY DEF Asks
  <2>2. WriteOver(asked[u].run, asked[u].saw) /\ asked[u].pc # "off"
    BY <1>5 DEF TakeBack
  <2>3. \A v \in Users : asked'[v].pc # "off" => asked[v].pc # "off" /\ asked'[v].run = asked[v].run
    BY <1>5 DEF TakeBack
  <2> QED BY <1>5, <2>1, <2>2, <2>3 DEF TakeBack
<1> QED BY <1>1, <1>2, <1>3, <1>4, <1>5 DEF AskStep

\* ... so it neither gives a chapter its run nor takes it away.
LEMMA AskKeeps ==
    ASSUME Rows, NEW u \in Users, AskStep(u), NEW k \in Chapters
    PROVE  /\ ch[k] # "ABSENT" => ch'[k] # "ABSENT"
           /\ AsksFollow /\ ch[k] = "ABSENT" => ch'[k] = "ABSENT"
<1>1. CASE UNCHANGED ch
  BY <1>1
<1>2. CASE UNCHANGED ch => FALSE
  <2>1. PICK s \in Open \cup {"FAILED", "CANCELLED"} : WriteOver(asked[u].run, s)
    BY <1>2, AskShape
  <2>2. asked[u].pc # "off" /\ asked[u].run \in Chapters
    BY <1>2, AskShape
  <2> QED BY <2>1, <2>2 DEF WriteOver, SetStatus, AsksFollow, Open, Rows, RowsOK
<1> QED BY <1>1, <1>2

\* A run is created after its predecessor has settled, and opened again only
\* by a request.
LEMMA OrderStep == Rows /\ OrderInv /\ [BatchNext]_batchVars => OrderInv'
<1> SUFFICES ASSUME Rows, OrderInv, [BatchNext]_batchVars PROVE OrderInv'
  OBVIOUS
<1> USE DEF Rows, RowsOK, HooksAim, OrderInv, HooksFollow, SettledIsClosed, BegunInOrder,
            AsksFollow, Target, batch, runs, bounds, history
<1>0. \A h \in Handlers : hook[h].run \in Nat /\ (hook[h].run > 0 => hook[h].run \in Chapters)
  BY ChaptersAssumption DEF Hooks, Chapters
<1>1. ASSUME NEW h \in Handlers, AnalyzeCompletes(h) PROVE OrderInv'
  BY <1>0, <1>1 DEF AnalyzeCompletes, Fire
<1>2. ASSUME NEW h \in Handlers, HookStep(h) PROVE OrderInv'
  <2>1. CASE HookRead(h)
    <3> DEFINE next == Decision(hook[h].run, hook[h].status)
    <3>1. next \notin {"enqueue", "stall"}
      BY DEF Decision
    <3>2. hook[h].pc = "begin" /\ Go(h, next) /\ UNCHANGED <<ch, asked, settled, reopened>>
      BY <2>1 DEF HookRead
    <3> HIDE DEF next
    <3> QED BY <1>0, <3>1, <3>2 DEF Go, NoHook
  <2>2. CASE Replay(h)
    BY <1>0, <2>2 DEF Replay, Go, NoHook
  <2>3. CASE CreateChapter(h)
    <3>1. /\ Target(h) \in Chapters /\ ch[Target(h)] = "ABSENT"
          /\ ch' = [ch EXCEPT ![Target(h)] = "PENDING"]
          /\ hook' = [hook EXCEPT ![h].pc = "enqueue"]
          /\ UNCHANGED <<asked, settled, reopened>> /\ hook[h].pc # "off"
      BY <1>0, <2>3, ChaptersAssumption DEF CreateChapter, Dispatching, SetStatus, Go, Chapters
    <3>2. HooksFollow'
      BY <1>0, <3>1 DEF Hooks
    <3>3. SettledIsClosed'
      BY <3>1
    <3>4. ASSUME NEW j \in Chapters, j < Target(h) PROVE j \in settled
      <4>0. j \in 1..NChapters /\ hook[h].run \in Nat /\ j < hook[h].run + 1
        BY <1>0, <3>4 DEF Chapters
      <4>1. hook[h].run > 0 /\ hook[h].run \in settled /\ j <= hook[h].run
        <5>1. hook[h].run > 0 /\ j <= hook[h].run
          BY <4>0, ChaptersAssumption
        <5> QED BY <3>1, <5>1
      <4>2. hook[h].run \in Chapters /\ ch[hook[h].run] # "ABSENT"
        BY <1>0, <4>1
      <4> QED BY <4>1, <4>2 DEF Chapters
    <3>5. BegunInOrder'
      BY <3>1, <3>4
    <3>6. AsksFollow'
      BY <3>1
    <3> QED BY <3>2, <3>3, <3>5, <3>6
  <2>4. CASE Enqueue(h)
    BY <1>0, <2>4 DEF Enqueue, Go, NoHook
  <2>5. CASE Stall(h) \/ Terminate(h) \/ Close(h)
    BY <1>0, <2>5 DEF Stall, Terminate, Close, Ends, Go, NoHook
  <2> QED BY <1>2, <2>1, <2>2, <2>3, <2>4, <2>5 DEF HookStep
<1>3. ASSUME NEW h \in Handlers, CapReached(h) \/ HookLost(h) PROVE OrderInv'
  BY <1>0, <1>3 DEF CapReached, HookLost, Go, NoHook
<1>4. ASSUME NEW h \in Handlers, EnqueueFails(h) PROVE OrderInv'
  <2>1. /\ Target(h) \in Chapters /\ ch[Target(h)] # "ABSENT"
        /\ ch' = [ch EXCEPT ![Target(h)] = "FAILED"]
        /\ hook' = [hook EXCEPT ![h].pc = "stall"] /\ hook[h].pc = "enqueue"
        /\ UNCHANGED <<asked, settled, reopened>>
    BY <1>0, <1>4, ChaptersAssumption DEF EnqueueFails, SetStatus, Go, Chapters
  <2> QED BY <1>0, <2>1 DEF Open, Hooks
<1>5. ASSUME NEW k \in Chapters, Start(k) \/ LeaveChapter(k) \/ Redeliver(k) PROVE OrderInv'
  <2>1. CASE Start(k)
    <3>1. /\ ch' = [ch EXCEPT ![k] = "RUNNING"] /\ ch[k] = "PENDING"
          /\ UNCHANGED <<hook, asked, settled, reopened>>
      BY <2>1 DEF Start, SetStatus
    <3> QED BY <1>0, <3>1 DEF Open
  <2>2. CASE LeaveChapter(k) \/ Redeliver(k)
    BY <2>2 DEF LeaveChapter, Redeliver
  <2> QED BY <1>5, <2>1, <2>2
<1>6. ASSUME NEW k \in Chapters, NEW h \in Handlers,
             ChapterSettles(k, h) \/ ObserveCancel(k, h) \/ SweepLost(k, h)
      PROVE  OrderInv'
  <2>1. PICK s \in Reported, by \in {"executor", "sweeper"} :
           /\ Fire(h, k, s, by)
           /\ ch' = [ch EXCEPT ![k] = s] /\ ch[k] # "ABSENT"
           /\ UNCHANGED <<asked, reopened>>
    BY <1>6 DEF ChapterSettles, ObserveCancel, SweepLost, SetStatus, Reported
  <2> QED BY <1>0, <2>1 DEF Fire, Open, Reported
<1>7. ASSUME NEW u \in Users, AskStep(u) PROVE OrderInv'
  <2>1. UNCHANGED <<hook, settled>>
    BY <1>7, AskShape
  <2>2. CASE UNCHANGED <<ch, reopened>>
    <3>1. AsksFollow'
      <4>1. \A v \in Users : asked'[v].pc # "off" =>
               \/ asked[v].pc # "off" /\ asked'[v].run = asked[v].run
               \/ ch[asked'[v].run] # "ABSENT"
        BY <1>7, AskShape
      <4> QED BY <2>2, <4>1
    <3> QED BY <1>0, <2>1, <2>2, <3>1
  <2>3. CASE ~UNCHANGED <<ch, reopened>>
    <3>1. PICK s \in Open \cup {"FAILED", "CANCELLED"} : WriteOver(asked[u].run, s)
      BY <1>7, <2>3, AskShape
    <3>2. asked[u].run \in Chapters /\ ch[asked[u].run] # "ABSENT"
      BY <1>7, <2>3, AskShape
    <3>3. \A v \in Users : asked'[v].pc # "off" => asked[v].pc # "off" /\ asked'[v].run = asked[v].run
      BY <1>7, <2>3, AskShape
    <3>4. /\ ch' = [ch EXCEPT ![asked[u].run] = s] /\ s # "ABSENT"
          /\ reopened \subseteq reopened'
          /\ ch[asked[u].run] \in Reported /\ s \in Open => asked[u].run \in reopened'
      BY <3>1 DEF WriteOver, SetStatus, Open
    <3>5. \A k \in Chapters : ch'[k] # "ABSENT" <=> ch[k] # "ABSENT"
      <4> TAKE k \in Chapters
      <4>1. CASE k = asked[u].run
        BY <3>2, <3>4, <4>1
      <4>2. CASE k # asked[u].run
        BY <3>4, <4>2
      <4> QED BY <4>1, <4>2
    <3>6. HooksFollow' /\ BegunInOrder' /\ AsksFollow'
      <4>1. ASSUME NEW h \in Handlers, hook[h].pc \in {"enqueue", "stall"} PROVE Target(h) \in Chapters
        BY <1>0, <4>1, ChaptersAssumption DEF Chapters
      <4>2. HooksFollow'
        BY <2>1, <3>5, <4>1
      <4>3. BegunInOrder'
        BY <2>1, <3>5
      <4>4. \A v \in Users : asked[v].run \in Chapters
        BY DEF Asks
      <4>5. AsksFollow'
        BY <3>3, <3>5, <4>4
      <4> QED BY <4>2, <4>3, <4>5
    <3>7. SettledIsClosed'
      <4>1. ch[asked[u].run] \in Open \cup Reported
        BY <3>2 DEF Statuses
      <4> QED BY <2>1, <3>2, <3>4, <3>5, <4>1 DEF Open
    <3> QED BY <3>6, <3>7
  <2> QED BY <2>2, <2>3
<1>9. CASE LeaveWorkMode
  BY <1>9 DEF LeaveWorkMode
<1>10. CASE UNCHANGED batchVars
  BY <1>10 DEF batchVars
<1> HIDE DEF OrderInv, Rows
<1> QED
  BY <1>1, <1>2, <1>3, <1>4, <1>5, <1>6, <1>7, <1>9, <1>10 DEF BatchNext, Execution

\* No hook runs and no chapter has begun at first.
LEMMA OrderInit == BatchInit => OrderInv
BY DEF BatchInit, OrderInv, HooksFollow, SettledIsClosed, BegunInOrder, AsksFollow, NoHook, NoAsk

\* Unless a request opens a settled chapter again, one chapter at a time is open.
THEOREM SerialChapters == BatchSpec => []OneAtATime
<1>2. OrderInv => OneAtATime
  BY DEF OrderInv, SettledIsClosed, BegunInOrder, OneAtATime, Open, Chapters
<1>3. BatchSpec => []Rows
  BY BatchTypeCorrect, PTL DEF BatchTypeOK, Rows
<1> QED BY <1>2, <1>3, OrderInit, OrderStep, PTL DEF BatchSpec
-----------------------------------------------------------------------------
(* What the idempotency key gives: a chapter is enqueued by the hook that  *)
(* created its run, and by no other.                                       *)

\* A hook about to enqueue is alone with its chapter, and is the first.
FirstEnqueue ==
    /\ \A h \in Handlers : hook[h].pc = "enqueue" =>
           /\ enqueued[Target(h)] = 0 /\ ch[Target(h)] # "ABSENT"
           /\ \A g \in Handlers : hook[g].pc = "enqueue" /\ Target(g) = Target(h) => g = h
    /\ \A k \in Chapters : ch[k] = "ABSENT" => enqueued[k] = 0

EnqueueInv == FirstEnqueue /\ EnqueuedOnce

\* Only three kinds of step touch what EnqueueInv speaks of: a hook creates a
\* run, a hook enqueues, and a hook enters or leaves without either.
LEMMA EnqueueStep == Rows /\ EnqueueInv /\ [BatchNext]_batchVars => EnqueueInv'
<1> SUFFICES ASSUME Rows, EnqueueInv, [BatchNext]_batchVars PROVE EnqueueInv'
  OBVIOUS
<1> USE DEF Rows, RowsOK, HooksAim, EnqueueInv, FirstEnqueue, EnqueuedOnce,
            Target, batch, runs, bounds, history
<1>0. \A h \in Handlers : hook[h].run \in Nat /\ (hook[h].pc = "enqueue" => Target(h) \in Chapters)
  BY ChaptersAssumption DEF Hooks, Chapters
<1>1. ASSUME NEW h \in Handlers, NEW r,
             hook' = [hook EXCEPT ![h] = r], r.pc # "enqueue",
             \A k \in Chapters : ch[k] # "ABSENT" => ch'[k] # "ABSENT",
             UNCHANGED enqueued
      PROVE  EnqueueInv'
  BY <1>0, <1>1
<1>2. ASSUME \A k \in Chapters : ch[k] # "ABSENT" => ch'[k] # "ABSENT",
             UNCHANGED <<hook, enqueued>>
      PROVE  EnqueueInv'
  BY <1>0, <1>2
<1>3. ASSUME NEW h \in Handlers, HookStep(h) PROVE EnqueueInv'
  <2>1. CASE HookRead(h)
    <3> DEFINE next == Decision(hook[h].run, hook[h].status)
    <3>1. next # "enqueue"
      BY DEF Decision
    <3>2. Go(h, next) /\ UNCHANGED <<ch, enqueued>>
      BY <2>1 DEF HookRead
    <3> HIDE DEF next
    <3> DEFINE r == IF next = "off" THEN NoHook ELSE [hook[h] EXCEPT !.pc = next]
    <3>3. hook' = [hook EXCEPT ![h] = r]
      BY <3>2 DEF Go
    <3>4. r.pc # "enqueue"
      BY <3>1 DEF NoHook, Hooks
    <3> HIDE DEF r
    <3> QED BY <1>1, <3>2, <3>3, <3>4
  <2>2. CASE Replay(h) \/ Stall(h) \/ Terminate(h) \/ Close(h)
    BY <1>1, <2>2 DEF Replay, Stall, Terminate, Close, Ends, Go, NoHook
  <2>3. CASE CreateChapter(h)
    <3>1. /\ Target(h) \in Chapters /\ ch[Target(h)] = "ABSENT"
          /\ ch' = [ch EXCEPT ![Target(h)] = "PENDING"]
          /\ hook' = [hook EXCEPT ![h].pc = "enqueue"] /\ UNCHANGED enqueued
      BY <1>0, <2>3, ChaptersAssumption
         DEF CreateChapter, Dispatching, SetStatus, Go, Chapters, Hooks
    <3> QED BY <1>0, <3>1 DEF Hooks
  <2>4. CASE Enqueue(h)
    <3>1. /\ Target(h) \in Chapters /\ hook[h].pc = "enqueue" /\ UNCHANGED ch
          /\ enqueued' = [enqueued EXCEPT ![Target(h)] = @ + 1]
          /\ hook' = [hook EXCEPT ![h] = NoHook]
      BY <1>0, <2>4 DEF Enqueue, Go
    <3> QED BY <1>0, <3>1 DEF NoHook
  <2> QED BY <1>3, <2>1, <2>2, <2>3, <2>4 DEF HookStep
<1>4. ASSUME NEW h \in Handlers, CapReached(h) \/ HookLost(h) PROVE EnqueueInv'
  BY <1>1, <1>4 DEF CapReached, HookLost, Go, NoHook
<1>5. ASSUME NEW h \in Handlers, EnqueueFails(h) PROVE EnqueueInv'
  <2>1. \A k \in Chapters : ch[k] # "ABSENT" => ch'[k] # "ABSENT"
    BY <1>5 DEF EnqueueFails, SetStatus
  <2> DEFINE r == [hook[h] EXCEPT !.pc = "stall"]
  <2>2. hook' = [hook EXCEPT ![h] = r] /\ UNCHANGED enqueued
    BY <1>5 DEF EnqueueFails, Go
  <2>3. r.pc # "enqueue"
    BY DEF Hooks
  <2> HIDE DEF r
  <2> QED BY <1>1, <2>1, <2>2, <2>3
<1>6. ASSUME NEW h \in Handlers, NEW k \in 0..NChapters, NEW s, NEW by, Fire(h, k, s, by),
             \A c \in Chapters : ch[c] # "ABSENT" => ch'[c] # "ABSENT", UNCHANGED enqueued
      PROVE  EnqueueInv'
  <2> DEFINE r == [pc |-> "begin", run |-> k, status |-> s, by |-> by]
  <2>1. hook' = [hook EXCEPT ![h] = r] /\ r.pc # "enqueue"
    BY <1>6 DEF Fire
  <2> HIDE DEF r
  <2> QED BY <1>1, <1>6, <2>1
<1>7. ASSUME NEW h \in Handlers, AnalyzeCompletes(h) PROVE EnqueueInv'
  BY <1>6, <1>7, ChaptersAssumption DEF AnalyzeCompletes
<1>8. ASSUME NEW k \in Chapters, NEW h \in Handlers,
             ChapterSettles(k, h) \/ ObserveCancel(k, h) \/ SweepLost(k, h)
      PROVE  EnqueueInv'
  <2>1. /\ \E s \in Reported, by \in {"executor", "sweeper"} : Fire(h, k, s, by)
        /\ \A c \in Chapters : ch[c] # "ABSENT" => ch'[c] # "ABSENT"
        /\ UNCHANGED enqueued
    BY <1>8 DEF ChapterSettles, ObserveCancel, SweepLost, SetStatus, Reported
  <2> QED BY <1>6, <2>1, ChaptersAssumption DEF Chapters
<1>9. ASSUME NEW k \in Chapters, Start(k) \/ LeaveChapter(k) \/ Redeliver(k)
      PROVE  EnqueueInv'
  <2>1. \A c \in Chapters : ch[c] # "ABSENT" => ch'[c] # "ABSENT"
    BY <1>9 DEF Start, LeaveChapter, Redeliver, SetStatus
  <2>2. UNCHANGED <<hook, enqueued>>
    BY <1>9 DEF Start, LeaveChapter, Redeliver
  <2> QED BY <1>2, <2>1, <2>2
<1>11. ASSUME NEW u \in Users, AskStep(u) PROVE EnqueueInv'
  <2>1. \A c \in Chapters : ch[c] # "ABSENT" => ch'[c] # "ABSENT"
    BY <1>11, AskKeeps
  <2>2. UNCHANGED <<hook, enqueued>>
    BY <1>11, AskShape
  <2> QED BY <1>2, <2>1, <2>2
<1>10. CASE LeaveWorkMode \/ UNCHANGED batchVars
  BY <1>2, <1>10 DEF LeaveWorkMode, batchVars
<1> HIDE DEF EnqueueInv, Rows
<1> QED
  BY <1>3, <1>4, <1>5, <1>7, <1>8, <1>9, <1>10, <1>11 DEF BatchNext, Execution

\* A chapter is enqueued by the dispatcher at most once.
THEOREM NoChapterTwice == BatchSpec => []EnqueuedOnce
<1>1. BatchInit => EnqueueInv
  BY DEF BatchInit, EnqueueInv, FirstEnqueue, EnqueuedOnce, NoHook
<1>2. EnqueueInv => EnqueuedOnce
  BY DEF EnqueueInv
<1>3. BatchSpec => []Rows
  BY BatchTypeCorrect, PTL DEF BatchTypeOK, Rows
<1> QED BY <1>1, <1>2, <1>3, EnqueueStep, PTL DEF BatchSpec
-----------------------------------------------------------------------------
(* The end of the batch.                                                   *)

\* While no two hooks have overlapped, one at most is past its read, and the
\* batch it read is still as it was: not ended.
OneReader ==
    \/ overlapped
    \/ \A g, h \in Handlers : PastRead(h) => ~Ended /\ (PastRead(g) => g = h)

EndInv == OneReader /\ EndsOnce

\* An event is written by the one hook past its read, which leaves with it.
LEMMA EndStep == BatchTypeOK /\ EndInv /\ [BatchNext]_batchVars => EndInv'
<1> SUFFICES ASSUME BatchTypeOK, EndInv, [BatchNext]_batchVars PROVE EndInv'
  OBVIOUS
<1> USE DEF EndInv, OneReader, EndsOnce, Ended, Endings, PastRead
<1>0. /\ events \in [Endings -> Nat] /\ hook \in [Handlers -> Hooks]
      /\ overlapped \in BOOLEAN
  BY DEF BatchTypeOK, RowsOK, FlagsOK
\* A hook enters, leaves or goes on, and no event is written.
<1>1. ASSUME NEW h \in Handlers, NEW r, hook' = [hook EXCEPT ![h] = r],
             r.pc \in {"off", "begin"} \/ PastRead(h), UNCHANGED <<events, overlapped>>
      PROVE  EndInv'
  BY <1>0, <1>1
\* A hook past its read writes an event and leaves.
<1>2. ASSUME NEW h \in Handlers, NEW x \in Endings, PastRead(h), Record(x), Go(h, "off"),
             UNCHANGED overlapped
      PROVE  EndInv'
  <2>1. CASE overlapped
    BY <1>2, <2>1
  <2>2. CASE ~overlapped
    <3>1. \A y \in Endings : events[y] = 0
      BY <1>0, <1>2, <2>2
    <3>a. events[x] = 0 /\ events' = [events EXCEPT ![x] = events[x] + 1]
      BY <1>2, <3>1 DEF Record
    <3>2. events' = [events EXCEPT ![x] = 1]
      BY <3>a
    <3>3. EndsOnce'
      BY <1>0, <3>1, <3>2
    <3>4. \A g \in Handlers : ~PastRead(g)'
      BY <1>0, <1>2, <2>2 DEF Go, NoHook
    <3> QED BY <3>3, <3>4
  <2> QED BY <2>1, <2>2
<1>3. ASSUME UNCHANGED <<hook, events, overlapped>> PROVE EndInv'
  BY <1>3
<1>4. ASSUME NEW h \in Handlers, HookStep(h) PROVE EndInv'
  <2>1. CASE HookRead(h)
    <3> DEFINE next == Decision(hook[h].run, hook[h].status)
    <3>1. next # "off" => ~Ended
      BY <1>0 DEF Decision, Hooks
    <3>2. /\ hook[h].pc = "begin" /\ Go(h, next) /\ UNCHANGED events
          /\ overlapped' = (overlapped \/ (next # "off" /\ \E g \in Handlers : PastRead(g)))
      BY <2>1 DEF HookRead, batch
    <3> HIDE DEF next
    <3>3. CASE next = "off"
      <4>1. hook' = [hook EXCEPT ![h] = NoHook] /\ NoHook.pc = "off" /\ UNCHANGED <<events, overlapped>>
        BY <1>0, <3>2, <3>3 DEF Go, NoHook
      <4> HIDE DEF OneReader, EndsOnce
      <4> QED BY <1>1, <4>1
    <3>4. CASE next # "off" /\ \E g \in Handlers : PastRead(g)
      BY <3>2, <3>4
    <3>5. CASE next # "off" /\ ~\E g \in Handlers : PastRead(g)
      <4>1. UNCHANGED <<events, overlapped>> /\ hook' = [hook EXCEPT ![h].pc = next] /\ ~Ended
        BY <1>0, <3>1, <3>2, <3>5 DEF Go
      <4>2. \A g \in Handlers : PastRead(g)' => g = h
        BY <1>0, <3>5, <4>1 DEF Hooks
      <4> QED BY <4>1, <4>2
    <3> QED BY <3>3, <3>4, <3>5
  <2>2. CASE Replay(h) \/ CreateChapter(h) \/ Enqueue(h)
    <3>1. PastRead(h) /\ UNCHANGED <<events, overlapped>>
      BY <2>2 DEF Replay, CreateChapter, Enqueue, Dispatching, batch, history
    <3>2. Go(h, "off") \/ Go(h, "enqueue")
      BY <2>2 DEF Replay, CreateChapter, Enqueue
    <3>3. \E r : hook' = [hook EXCEPT ![h] = r]
      BY <3>2 DEF Go
    <3> QED BY <1>1, <3>1, <3>3
  <2>3. CASE Stall(h) \/ Terminate(h) \/ Close(h)
    BY <1>2, <2>3 DEF Stall, Terminate, Close, Ends, history
  <2> QED BY <1>4, <2>1, <2>2, <2>3 DEF HookStep
<1>5. ASSUME NEW h \in Handlers, CapReached(h) PROVE EndInv'
  BY <1>2, <1>5 DEF CapReached, Dispatching, history
<1>6. ASSUME NEW h \in Handlers, EnqueueFails(h) PROVE EndInv'
  <2>1. /\ PastRead(h) /\ UNCHANGED <<events, overlapped>>
        /\ \E r : hook' = [hook EXCEPT ![h] = r]
    BY <1>6 DEF EnqueueFails, Go, batch, history
  <2> QED BY <1>1, <2>1
<1>7. ASSUME NEW h \in Handlers, HookLost(h) PROVE EndInv'
  <2>1. hook' = [hook EXCEPT ![h] = NoHook] /\ UNCHANGED <<events, overlapped>>
    BY <1>7 DEF HookLost, Go, batch, history
  <2>2. NoHook.pc = "off"
    BY DEF NoHook
  <2> QED BY <1>1, <2>1, <2>2
<1>8. ASSUME NEW h \in Handlers, NEW k, NEW s, NEW by, Fire(h, k, s, by),
             UNCHANGED <<events, overlapped>>
      PROVE  EndInv'
  <2> DEFINE r == [pc |-> "begin", run |-> k, status |-> s, by |-> by]
  <2>1. hook' = [hook EXCEPT ![h] = r] /\ r.pc = "begin"
    BY <1>8 DEF Fire
  <2> HIDE DEF r
  <2> QED BY <1>1, <1>8, <2>1
<1>9. ASSUME NEW h \in Handlers, AnalyzeCompletes(h) PROVE EndInv'
  BY <1>8, <1>9 DEF AnalyzeCompletes, batch
<1>10. ASSUME NEW k \in Chapters, NEW h \in Handlers,
              ChapterSettles(k, h) \/ ObserveCancel(k, h) \/ SweepLost(k, h)
       PROVE  EndInv'
  <2>1. (\E s, by : Fire(h, k, s, by)) /\ UNCHANGED <<events, overlapped>>
    BY <1>10, Zenon DEF ChapterSettles, ObserveCancel, SweepLost, batch
  <2> QED BY <1>8, <2>1
<1>11. ASSUME NEW k \in Chapters, Start(k) \/ LeaveChapter(k) \/ Redeliver(k) PROVE EndInv'
  <2>1. UNCHANGED <<hook, events, overlapped>>
    BY <1>11 DEF Start, LeaveChapter, Redeliver, batch, history
  <2> QED BY <1>3, <2>1
<1>13. ASSUME NEW u \in Users, AskStep(u) PROVE EndInv'
  <2>1. UNCHANGED <<hook, events, overlapped>>
    BY <1>13, Zenon DEF AskStep, AskControl, ControlChapter, Redrive, TakeBack, AskLost, batch, history
  <2> QED BY <1>3, <2>1
<1>12. CASE LeaveWorkMode \/ UNCHANGED batchVars
  BY <1>3, <1>12 DEF LeaveWorkMode, batchVars, batch, history
<1> HIDE DEF EndInv, BatchTypeOK
<1> QED
  BY <1>4, <1>5, <1>6, <1>7, <1>9, <1>10, <1>11, <1>12, <1>13 DEF BatchNext, Execution

\* No hook has read anything at first.
LEMMA EndInit == BatchInit => EndInv
BY DEF BatchInit, EndInv, OneReader, EndsOnce, PastRead, NoHook, Endings

\* Unless two hooks overlap, a batch ends at most once.
THEOREM BatchEndsOnce == BatchSpec => []EndsOnce
<1>2. EndInv => EndsOnce
  BY DEF EndInv
<1>3. BatchSpec => []BatchTypeOK
  BY BatchTypeCorrect, PTL
<1> QED BY <1>2, <1>3, EndInit, EndStep, PTL DEF BatchSpec

\* A step that gives a chapter its run is a hook's, past its read.
LEMMA BegunByHook ==
    ASSUME Rows, OrderInv, [BatchNext]_batchVars, NEW k \in Chapters, ch[k] = "ABSENT", ch'[k] # "ABSENT"
    PROVE  \E h \in Handlers : CreateChapter(h)
<1> USE DEF Rows, RowsOK, batch, runs, bounds, history, SetStatus
<1>1. ASSUME NEW h \in Handlers, AnalyzeCompletes(h) PROVE FALSE
  BY <1>1 DEF AnalyzeCompletes
<1>2. ASSUME NEW h \in Handlers, HookStep(h) PROVE CreateChapter(h)
  BY <1>2 DEF HookStep, HookRead, Replay, Enqueue, Stall, Terminate, Close, Ends
<1>3. ASSUME NEW h \in Handlers, CapReached(h) \/ HookLost(h) PROVE FALSE
  BY <1>3 DEF CapReached, HookLost
<1>4. ASSUME NEW c \in Chapters, Start(c) \/ LeaveChapter(c) \/ Redeliver(c) PROVE FALSE
  BY <1>4 DEF Start, LeaveChapter, Redeliver
<1>8. ASSUME NEW u \in Users, AskStep(u) PROVE FALSE
  BY <1>8, AskKeeps DEF OrderInv
<1>5. ASSUME NEW c \in Chapters, NEW h \in Handlers,
             ChapterSettles(c, h) \/ ObserveCancel(c, h) \/ SweepLost(c, h)
      PROVE  FALSE
  BY <1>5 DEF ChapterSettles, ObserveCancel, SweepLost
<1>6. ASSUME LeaveWorkMode \/ UNCHANGED batchVars PROVE FALSE
  BY <1>6 DEF LeaveWorkMode, batchVars
<1>7. ASSUME NEW h \in Handlers, EnqueueFails(h) PROVE FALSE
  BY <1>7 DEF EnqueueFails, OrderInv, HooksFollow
<1> QED
  BY <1>1, <1>2, <1>3, <1>4, <1>5, <1>6, <1>7, <1>8 DEF BatchNext, Execution

\* An ended batch begins no chapter, unless two hooks overlapped.
THEOREM NothingAfterEnd == BatchSpec => NothingBegunAfterEnd
<1> DEFINE Begins == Ended /\ \E k \in Chapters : ch[k] = "ABSENT" /\ ch'[k] # "ABSENT"
<1>1. Rows /\ OrderInv /\ EndInv /\ [BatchNext]_batchVars => (Begins => overlapped)
  <2> SUFFICES ASSUME Rows, OrderInv, EndInv, [BatchNext]_batchVars, Begins PROVE overlapped
    OBVIOUS
  <2>1. PICK h \in Handlers : CreateChapter(h)
    BY BegunByHook
  <2>2. PastRead(h)
    BY <2>1 DEF CreateChapter, Dispatching, PastRead
  <2> QED BY <2>2 DEF EndInv, OneReader
<1>2. BatchSpec => [](BatchTypeOK /\ Rows)
  BY BatchTypeCorrect, PTL DEF BatchTypeOK, Rows
<1>3. BatchSpec => [](OrderInv /\ EndInv)
  <2>1. BatchInit => OrderInv /\ EndInv
    BY OrderInit, EndInit
  <2> QED BY <1>2, <2>1, OrderStep, EndStep, PTL DEF BatchSpec
<1> QED BY <1>1, <1>2, <1>3, PTL DEF BatchSpec, NothingBegunAfterEnd
-----------------------------------------------------------------------------
(* The refinement.                                                         *)

\* Creating a run is Begin, handing a terminal status to a hook is Settle,
\* closing the batch is Complete; everything else stutters.
LEMMA Simulation ==
    ASSUME Rows, OrderInv, [BatchNext]_batchVars
    PROVE  [SerialChain!Next]_SerialChain!vars
<1> USE DEF Rows, RowsOK, HooksAim, batch, runs, bounds, history
<1> DEFINE Done(e) == e["completed"] > 0
\* The step of a hook that creates a run.
<1>1. ASSUME NEW h \in Handlers, CreateChapter(h) PROVE SerialChain!Next
  <2>1. /\ Target(h) \in Chapters /\ ch[Target(h)] = "ABSENT"
        /\ ch' = [ch EXCEPT ![Target(h)] = "PENDING"]
        /\ UNCHANGED <<settled, events>>
    BY <1>1, ChaptersAssumption
       DEF CreateChapter, Dispatching, SetStatus, Target, Hooks, Chapters
  <2>2. 1..(Target(h) - 1) \subseteq settled
    <3>1. Target(h) = hook[h].run + 1 /\ hook[h].run \in 0..NChapters
      BY DEF Target, Hooks
    <3>2. hook[h].run > 0 => hook[h].run \in settled
      BY <1>1 DEF CreateChapter, Dispatching, OrderInv, HooksFollow
    <3>3. \A j \in 1..hook[h].run : j \in settled
      BY <3>1, <3>2, ChaptersAssumption DEF OrderInv, SettledIsClosed, BegunInOrder, Chapters
    <3> QED BY <3>1, <3>3, ChaptersAssumption
  <2>3. Begun' = Begun \cup {Target(h)} /\ Target(h) \notin Begun
    BY <2>1 DEF Begun
  <2>4. SerialChain!Begin(Target(h))
    BY <2>1, <2>2, <2>3 DEF SerialChain!Begin
  <2> QED BY <2>1, <2>4 DEF SerialChain!Next, Chapters
\* A run's terminal status is handed to a hook.
<1>2. ASSUME NEW k \in Chapters, NEW h \in Handlers,
             ChapterSettles(k, h) \/ ObserveCancel(k, h) \/ SweepLost(k, h)
      PROVE  SerialChain!Next
  <2>a. k # 0
    BY DEF Chapters
  <2>b. PICK s \in Reported : /\ ch' = [ch EXCEPT ![k] = s] /\ ch[k] # "ABSENT"
                              /\ settled' = settled \cup {k} /\ UNCHANGED events
    BY <1>2, <2>a DEF ChapterSettles, ObserveCancel, SweepLost, Fire, SetStatus, Reported
  <2>1. /\ settled' = settled \cup {k} /\ k \in Begun
        /\ Begun' = Begun /\ UNCHANGED events
    BY <2>b DEF Begun, Reported
  <2>2. SerialChain!Settle(k)
    BY <2>1 DEF SerialChain!Settle
  <2> QED BY <2>2 DEF SerialChain!Next, Chapters
\* The last chapter's hook closes the batch.
<1>3. ASSUME NEW h \in Handlers, Close(h) PROVE SerialChain!Next
  <2>1. NChapters \in settled
    BY <1>3, ChaptersAssumption DEF Close, Ends, OrderInv, HooksFollow
  <2>2. settled = 1..NChapters
    <3>1. ch[NChapters] # "ABSENT"
      BY <2>1 DEF OrderInv, SettledIsClosed
    <3>2. \A j \in 1..NChapters : j < NChapters => j \in settled
      BY <3>1, ChaptersAssumption DEF OrderInv, BegunInOrder, Chapters
    <3>3. \A j \in 1..NChapters : j \in settled
      BY <2>1, <3>2, ChaptersAssumption
    <3>4. settled \subseteq 1..NChapters
      BY DEF Chapters
    <3> QED BY <3>3, <3>4, Zenon
  <2>3. events' = [events EXCEPT !["completed"] = @ + 1] /\ UNCHANGED <<ch, settled>>
    BY <1>3 DEF Close, Ends, Record
  <2>4. Done(events')
    BY <2>3 DEF Endings
  <2>5. SerialChain!Complete
    BY <2>2, <2>3, <2>4 DEF SerialChain!Complete, Begun
  <2> QED BY <2>5 DEF SerialChain!Next
\* Every other step stutters.
<1>4. ASSUME Begun' = Begun, UNCHANGED settled, events'["completed"] = events["completed"]
      PROVE  UNCHANGED SerialChain!vars
  BY <1>4 DEF SerialChain!vars
<1>5. ASSUME NEW h \in Handlers, AnalyzeCompletes(h) PROVE UNCHANGED SerialChain!vars
  BY <1>4, <1>5 DEF AnalyzeCompletes, Fire, Begun
<1>6. ASSUME NEW h \in Handlers, HookRead(h) \/ Replay(h) \/ Enqueue(h) \/ HookLost(h)
      PROVE  UNCHANGED SerialChain!vars
  BY <1>4, <1>6 DEF HookRead, Replay, Enqueue, HookLost, Begun
<1>7. ASSUME NEW h \in Handlers, Stall(h) \/ Terminate(h) \/ CapReached(h)
      PROVE  UNCHANGED SerialChain!vars
  <2>1. UNCHANGED <<ch, settled>> /\ (Record("stalled") \/ Record("terminated"))
    BY <1>7 DEF Stall, Terminate, CapReached, Ends
  <2>2. events'["completed"] = events["completed"]
    BY <2>1 DEF Record, Endings
  <2> QED BY <1>4, <2>1, <2>2 DEF Begun
<1>8. ASSUME NEW h \in Handlers, EnqueueFails(h) PROVE UNCHANGED SerialChain!vars
  <2>1. /\ ch' = [ch EXCEPT ![Target(h)] = "FAILED"] /\ ch[Target(h)] # "ABSENT"
        /\ UNCHANGED <<settled, events>>
    BY <1>8 DEF EnqueueFails, SetStatus, OrderInv, HooksFollow
  <2>2. Begun' = Begun
    BY <2>1 DEF Begun
  <2> QED BY <1>4, <2>1, <2>2
<1>9. ASSUME NEW k \in Chapters, Start(k) \/ LeaveChapter(k) \/ Redeliver(k)
      PROVE  UNCHANGED SerialChain!vars
  <2>1. UNCHANGED <<settled, events>>
    BY <1>9 DEF Start, LeaveChapter, Redeliver
  <2>2. Begun' = Begun
    BY <1>9 DEF Start, LeaveChapter, Redeliver, SetStatus, Begun
  <2> QED BY <1>4, <2>1, <2>2
<1>11. ASSUME NEW u \in Users, AskStep(u) PROVE UNCHANGED SerialChain!vars
  <2>1. UNCHANGED <<settled, events>>
    BY <1>11, AskShape
  <2>2. Begun' = Begun
    BY <1>11, AskKeeps DEF Begun, OrderInv
  <2> QED BY <1>4, <2>1, <2>2
<1>10. ASSUME LeaveWorkMode \/ UNCHANGED batchVars PROVE UNCHANGED SerialChain!vars
  BY <1>4, <1>10 DEF LeaveWorkMode, batchVars, Begun
<1> QED
  BY <1>1, <1>2, <1>3, <1>5, <1>6, <1>7, <1>8, <1>9, <1>10, <1>11
     DEF BatchNext, HookStep, Execution

\* The dispatcher begins each chapter once, in order and after all before it
\* have settled, and completes a batch only when all have.
THEOREM Refinement == BatchSpec => ImplementsSerialChain
<1>1. BatchInit => SerialChain!Init
  BY DEF BatchInit, SerialChain!Init, Begun, Endings
<1>2. BatchSpec => []Rows
  BY BatchTypeCorrect, PTL DEF BatchTypeOK, Rows
<1>3. BatchSpec => []OrderInv
  BY <1>2, OrderInit, OrderStep, PTL DEF BatchSpec
<1> QED BY <1>1, <1>2, <1>3, Simulation, PTL DEF BatchSpec, ImplementsSerialChain, SerialChain!Spec

(***************************************************************************)
(* DefinitionRun, for any definition, any set of tasks and any scenarios.  *)
(***************************************************************************)
LEMMA Constants == Order \in Seq(STRING) /\ Tasks \subseteq Nat /\ NoOne \notin Tasks
  BY WalkAssumption DEF NoOne

LEMMA RunFields ==
  ASSUME NEW s \in Active \cup Stopped, NEW o \in Tasks \cup {NoOne}, NEW l \in Leases
  PROVE  Run(s, o, l) \in Runs
  BY DEF Run, Runs

LEMMA ReleasedRun == \A s \in Active \cup Stopped : Released(s) \in Runs
  BY RunFields DEF Released, Leases

LEMMA RunParts ==
  ASSUME NEW r \in Runs
  PROVE  /\ r.status \in Active \cup Stopped
         /\ r.owner \in Tasks \cup {NoOne} /\ r.lease \in Leases
  BY DEF Runs

\* What a flush leaves is a run row, whatever columns it sends.
LEMMA Written ==
  ASSUME run \in Runs, NEW saw \in Runs, NEW new \in Runs, Write(saw, new)
  PROVE  run' \in Runs
  BY RunParts DEF Write, Runs

LEMMA FreshTask ==
  /\ NoTask \in Deliveries
  /\ [NoTask EXCEPT !.pc = "done"] \in Deliveries
  /\ [NoTask EXCEPT !.pc = "queued"] \in Deliveries
  /\ [NoTask EXCEPT !.pc = "walk"] \in Deliveries
<1>1. Released("QUEUED") \in Runs
  BY ReleasedRun DEF Active
<1>2. 1 \in 1 .. Len(Order) + 1
  BY Constants
<1> QED BY <1>1, <1>2 DEF NoTask, Deliveries

\* A node the walk has not passed.
LEMMA Place ==
  ASSUME NEW t \in Tasks, task \in [Tasks -> Deliveries], ~Finalizing(t)
  PROVE  /\ task[t].at \in DOMAIN Order /\ task[t].at + 1 \in 1 .. Len(Order) + 1
         /\ Node(t) \in Nodes
<1>1. task[t].at \in 1 .. Len(Order) + 1 /\ Len(Order) \in Nat /\ DOMAIN Order = 1 .. Len(Order)
  BY Constants DEF Deliveries
<1>2. task[t].at \in DOMAIN Order /\ task[t].at + 1 \in 1 .. Len(Order) + 1
  BY <1>1 DEF Finalizing
<1> QED BY <1>2 DEF Node, Nodes

\* Whoever works on a node, or has failed at it, has not passed it.
AtNode == \A t \in Tasks : task[t].pc \in {"working", "failing"} => ~Finalizing(t)

\* The walk keeps the deliveries and the run in their types.
LEMMA WalkTypes ==
  ASSUME TypeOK, AtNode, NEW t \in Tasks, Walk(t)
  PROVE  TypeOK'
<1> USE DEF TypeOK
<1>1. CASE Deliver(t)
  <2>1. task' \in [Tasks -> Deliveries]
    <3>1. CASE task' = [task EXCEPT ![t].pc = "prepare", ![t].saw = run]
      <4>1. [task[t] EXCEPT !.pc = "prepare", !.saw = run] \in Deliveries
        BY DEF Deliveries
      <4>2. task' = [task EXCEPT ![t] = [task[t] EXCEPT !.pc = "prepare", !.saw = run]]
        BY <3>1
      <4> QED BY <4>1, <4>2
    <3>2. CASE End(t)
      BY <3>2, FreshTask DEF End
    <3> QED BY <1>1, <3>1, <3>2 DEF Deliver
  <2> QED BY <1>1, <2>1 DEF Deliver, rows
<1>2. CASE Prepare(t)
  <2>1. task' \in [Tasks -> Deliveries]
    BY <1>2, FreshTask DEF Prepare, End, Deliveries
  <2>2. task[t].saw \in Runs /\ Released("FAILED") \in Runs
    BY ReleasedRun DEF Deliveries, Stopped, Terminal
  <2>3. Run(IF task[t].saw.status = "QUEUED" THEN "RUNNING" ELSE task[t].saw.status, t, "live") \in Runs
    BY <2>2, RunParts, RunFields DEF Active, Leases
  <2>4. run' \in Runs
    <3> DEFINE new == Run(IF task[t].saw.status = "QUEUED" THEN "RUNNING" ELSE task[t].saw.status,
                          t, "live")
    <3>1. CASE UNCHANGED run
      BY <3>1
    <3>2. CASE Write(task[t].saw, new)
      BY <2>2, <2>3, <3>2, Written
    <3>3. CASE Write(task[t].saw, Released("FAILED"))
      BY <2>2, <3>3, Written
    <3> QED BY <1>2, <3>1, <3>2, <3>3 DEF Prepare, Flush
  <2>5. blind' \in BOOLEAN
    BY <1>2 DEF Prepare, Flush
  <2> QED BY <1>2, <2>1, <2>4, <2>5 DEF Prepare
<1>3. CASE Check(t)
  <2>1. task' \in [Tasks -> Deliveries]
    <3>1. PICK whole \in BOOLEAN :
             task' = [task EXCEPT ![t].pc = "checked", ![t].saw = run, ![t].whole = whole]
      BY <1>3, Zenon DEF Check
    <3>2. [task[t] EXCEPT !.pc = "checked", !.saw = run, !.whole = whole] \in Deliveries
      <4>1. \A d \in Deliveries, r \in Runs :
              [d EXCEPT !.pc = "checked", !.saw = r, !.whole = whole] \in Deliveries
        BY DEF Deliveries
      <4>2. task[t] \in Deliveries /\ run \in Runs
        OBVIOUS
      <4> HIDE DEF Deliveries
      <4> QED BY <4>1, <4>2
    <3>3. task' = [task EXCEPT ![t] = [task[t] EXCEPT !.pc = "checked", !.saw = run, !.whole = whole]]
      BY <3>1
    <3> QED BY <3>2, <3>3
  <2> QED BY <1>3, <2>1 DEF Check, rows
<1>4. CASE Stop(t)
  <2>1. task[t].saw \in Runs /\ task[t].saw.status \in Active \cup Stopped
    BY RunParts DEF Deliveries
  <2>2. run' \in Runs
    BY <1>4, <2>1, ReleasedRun, Written DEF Stop, Flush
  <2>3. task' \in [Tasks -> Deliveries]
    BY <1>4, FreshTask DEF Stop, End
  <2> QED BY <1>4, <2>2, <2>3 DEF Stop, Checked, Flush
<1>5. CASE Leave(t)
  BY <1>5, FreshTask DEF Leave, Checked, End, rows
<1>6. CASE Skip(t)
  <2>1. task[t].saw \in Runs /\ [task[t].saw EXCEPT !.lease = "live"] \in Runs
    BY DEF Deliveries, Runs, Leases
  <2>2. run' \in Runs
    BY <1>6, <2>1, Written DEF Skip, Flush
  <2>3. task[t].at + 1 \in 1 .. Len(Order) + 1
    BY <1>6, Place DEF Skip, Holds
  <2>4. task' \in [Tasks -> Deliveries]
    BY <1>6, <2>3, FreshTask DEF Skip, Advance, Deliveries
  <2> QED BY <1>6, <2>2, <2>4 DEF Skip, Holds, Checked, Flush
<1>7. CASE Block(t) \/ Refuse(t)
  <2>1. task[t].saw \in Runs /\ Released("BUDGET_BLOCKED") \in Runs /\ Released("FAILED") \in Runs
    BY ReleasedRun DEF Deliveries, Stopped, Terminal
  <2>2. run' \in Runs
    BY <1>7, <2>1, Written DEF Block, Refuse, Flush
  <2>3. task' \in [Tasks -> Deliveries]
    BY <1>7, FreshTask DEF Block, Refuse, End
  <2>4. node' \in [Nodes -> NodeStatuses]
    BY <1>7 DEF Block, Refuse, NodeStatuses
  <2> QED BY <1>7, <2>2, <2>3, <2>4 DEF Block, Refuse, Holds, Checked, Flush
<1>8. CASE Work(t)
  <2>1. task' \in [Tasks -> Deliveries]
    BY <1>8, FreshTask DEF Work, Deliveries
  <2> QED BY <1>8, <2>1 DEF Work, Holds, Checked, rows
<1>9. CASE Complete(t)
  <2>1. run' \in Runs
    BY <1>9 DEF Complete, Runs, Leases
  <2>2. node' \in [Nodes -> NodeStatuses] /\ done' \in [Nodes -> Nat]
    BY <1>9, Place DEF Complete, NodeStatuses, AtNode
  <2>3. task[t].at + 1 \in 1 .. Len(Order) + 1
    BY <1>9, Place DEF Complete, AtNode
  <2>4. task' \in [Tasks -> Deliveries]
    BY <1>9, <2>3, FreshTask DEF Complete, Advance, Deliveries
  <2> QED BY <1>9, <2>1, <2>2, <2>4 DEF Complete
<1>10. CASE MarkFailed(t)
  <2>1. run' \in Runs
    BY <1>10, ReleasedRun DEF MarkFailed, Stopped, Terminal
  <2>2. task' \in [Tasks -> Deliveries]
    BY <1>10, FreshTask DEF MarkFailed, End
  <2> QED BY <1>10, <2>1, <2>2 DEF MarkFailed, NodeStatuses
<1>11. CASE Finalize(t)
  <2>1. /\ task[t].saw \in Runs
        /\ Released(IF task[t].whole THEN "COMPLETED" ELSE "FAILED") \in Runs
    BY ReleasedRun DEF Deliveries, Stopped, Terminal
  <2>2. run' \in Runs
    BY <1>11, <2>1, Written DEF Finalize
  <2>3. task' \in [Tasks -> Deliveries]
    BY <1>11, FreshTask DEF Finalize, End
  <2> QED BY <1>11, <2>2, <2>3 DEF Finalize, Checked
<1> QED
  BY <1>1, <1>2, <1>3, <1>4, <1>5, <1>6, <1>7, <1>8, <1>9, <1>10, <1>11 DEF Walk

\* A delivery is sent under an id that is not in use.
LEMMA Sent ==
  ASSUME TypeOK, NEW t \in Tasks, Send(t)
  PROVE  task' \in [Tasks -> Deliveries] /\ task[t].pc \in {"none", "done"}
         /\ task' = [task EXCEPT ![t] = [NoTask EXCEPT !.pc = "queued"]]
  BY FreshTask DEF Send, Fresh, TypeOK

\* Spending leaves bounds.
LEMMA Spent ==
  ASSUME TypeOK, NEW what \in {"controls", "faults", "slow", "deletes"}, Spend(what)
  PROVE  left' \in Bounds
  BY DEF TypeOK, Spend, Bounds

\* Faults, requests and recovery keep the types.
LEMMA OtherTypes ==
  ASSUME TypeOK, Next, \A t \in Tasks : ~Walk(t)
  PROVE  TypeOK'
<1> USE DEF TypeOK
<1>1. ASSUME NEW t \in Tasks, Raise(t) PROVE TypeOK'
  <2>1. [task[t] EXCEPT !.pc = "failing"] \in Deliveries
    BY DEF Deliveries
  <2>2. task' = [task EXCEPT ![t] = [task[t] EXCEPT !.pc = "failing"]]
    BY <1>1 DEF Raise, Goto
  <2>3. task' \in [Tasks -> Deliveries]
    BY <2>1, <2>2
  <2> QED BY <1>1, <2>3, Spent DEF Raise, rows
<1>2. ASSUME NEW t \in Tasks, Crash(t) PROVE TypeOK'
  BY <1>2, Spent, FreshTask DEF Crash, rows
<1>3. CASE CreateSend
  <2>1. Released("RUNNING") \in Runs /\ Released("QUEUED") \in Runs
    BY ReleasedRun DEF Active
  <2>2. CASE (\E t \in Tasks : Send(t)) /\ UNCHANGED <<run, left, blind>>
    BY <1>3, <2>2, Sent DEF CreateSend, NoRequest
  <2>3. CASE Flush(Released("RUNNING"), Released("QUEUED")) /\ Spend("faults") /\ UNCHANGED task
    <3>1. run' \in Runs
      BY <2>1, <2>3, Written DEF Flush
    <3>2. left' \in Bounds
      BY <2>3, Spent
    <3> QED BY <1>3, <2>3, <3>1, <3>2 DEF CreateSend, NoRequest, Flush
  <2> QED BY <1>3, <2>2, <2>3 DEF CreateSend
<1>4. CASE CreateCrash
  BY <1>4, Spent DEF CreateCrash, NoRequest, rows
<1>5. CASE RestartCommit
  <2>1. run' \in Runs
    BY <1>5, ReleasedRun DEF RestartCommit, Active
  <2> QED BY <1>5, <2>1 DEF RestartCommit, NoRequest, NodeStatuses
<1>6. ASSUME NEW action \in {"pause", "cancel"}, Halt(action) PROVE TypeOK'
  <2>1. run' \in Runs
    BY <1>6 DEF Halt, Runs, Stopped, Terminal
  <2> QED BY <1>6, <2>1, Spent DEF Halt, Control
<1>7. ASSUME NEW action \in {"resume", "retry"}, Restart(action) PROVE TypeOK'
  BY <1>7, Sent, Spent DEF Restart, Control, rows
<1>8. CASE DeleteDefinition
  BY <1>8, Spent DEF DeleteDefinition, rows
<1>9. CASE LapseDead \/ LapseLive
  <2>1. run' \in Runs
    BY <1>9 DEF LapseDead, LapseLive, Lapse, Runs, Leases
  <2> QED BY <1>9, <2>1, Spent DEF LapseDead, LapseLive
<1>10. CASE SweepSelect
  BY <1>10 DEF SweepSelect, rows
<1>11. CASE SweepUpdate
  <2>1. Released(IF sweeper.pc = "recover" THEN "RECOVERING" ELSE "QUEUED") \in Runs
    BY ReleasedRun DEF Active
  <2>2. run' \in Runs
    BY <1>11, <2>1, Written DEF SweepUpdate, Flush
  <2>3. Released("QUEUED") \in Runs
    BY ReleasedRun DEF Active
  <2> QED BY <1>11, <2>2, <2>3 DEF SweepUpdate, Flush, NoSweep
<1>12. CASE Requeue
  BY <1>12, Sent DEF Requeue, rows
<1> HIDE DEF TypeOK
<1> QED
  BY <1>1, <1>2, <1>3, <1>4, <1>5, <1>6, <1>7, <1>8, <1>9, <1>10, <1>11, <1>12
     DEF Next, Request, Recovery

\* A task comes to work on a node by Work only, and to have failed at it by Raise only.
LEMMA Reaches ==
  ASSUME TypeOK, [Next]_vars, NEW u \in Tasks, task'[u] # task[u]
  PROVE  Work(u) \/ Raise(u) \/ task'[u].pc \notin {"working", "failing"}
<1> USE DEF TypeOK
<1>1. ASSUME NEW t \in Tasks, Walk(t), ~Work(t) PROVE task'[u].pc \notin {"working", "failing"}
  <2>1. CASE Deliver(t)
    <3>1. CASE task' = [task EXCEPT ![t].pc = "prepare", ![t].saw = run]
      BY <3>1
    <3>2. CASE End(t)
      BY <3>2 DEF End, NoTask
    <3> QED BY <2>1, <3>1, <3>2 DEF Deliver
  <2>2. CASE Check(t)
    <3>1. PICK whole \in BOOLEAN :
             task' = [task EXCEPT ![t].pc = "checked", ![t].saw = run, ![t].whole = whole]
      BY <2>2, Zenon DEF Check
    <3> QED BY <3>1
  <2>3. CASE Prepare(t)
    BY <2>3 DEF Prepare, End, NoTask
  <2>4. CASE Stop(t) \/ Leave(t) \/ Block(t) \/ Refuse(t) \/ MarkFailed(t) \/ Finalize(t)
    BY <2>4 DEF Stop, Leave, Block, Refuse, MarkFailed, Finalize, End, NoTask
  <2>5. CASE Skip(t) \/ Complete(t)
    <3>1. Advance(t)
      BY <2>5 DEF Skip, Complete
    <3> QED BY <3>1 DEF Advance, NoTask
  <2> QED BY <1>1, <2>1, <2>2, <2>3, <2>4, <2>5 DEF Walk
<1>2. ASSUME NEW t \in Tasks, Work(t) PROVE u = t
  BY <1>2 DEF Work
<1>3. ASSUME NEW t \in Tasks, Raise(t) PROVE u = t
  BY <1>3 DEF Raise, Goto
<1>4. ASSUME NEW t \in Tasks, Crash(t) PROVE task'[u].pc = "queued"
  BY <1>4 DEF Crash, NoTask
<1>5. ASSUME NEW t \in Tasks, Send(t) PROVE task'[u].pc = "queued"
  BY <1>5 DEF Send, NoTask
<1>6. UNCHANGED task => FALSE
  OBVIOUS
<1> HIDE DEF TypeOK
<1> QED
  BY <1>1, <1>2, <1>3, <1>4, <1>5, <1>6
     DEF Next, Request, Recovery, CreateSend, CreateCrash, RestartCommit, Halt, Restart,
         DeleteDefinition, LapseDead, LapseLive, SweepSelect, SweepUpdate, Requeue, vars

\* Work comes before the end of the walk, and Raise stays at the node.
LEMMA AtNodeStep == TypeOK /\ AtNode /\ [Next]_vars => AtNode'
<1> SUFFICES ASSUME TypeOK, AtNode, [Next]_vars,
                    NEW t \in Tasks, task'[t].pc \in {"working", "failing"}
             PROVE  ~Finalizing(t)'
  BY DEF AtNode
<1>1. CASE task'[t] = task[t]
  BY <1>1 DEF AtNode, Finalizing
<1>2. CASE Work(t)
  <2>1. task'[t].at = task[t].at /\ ~Finalizing(t)
    BY <1>2 DEF Work, Holds, NoTask, TypeOK
  <2> QED BY <2>1 DEF Finalizing
<1>3. CASE Raise(t)
  <2>1. task'[t].at = task[t].at /\ ~Finalizing(t)
    BY <1>3 DEF Raise, Goto, TypeOK, AtNode, Deliveries
  <2> QED BY <2>1 DEF Finalizing
<1> QED BY <1>1, <1>2, <1>3, Reaches

LEMMA TypeStep == TypeOK /\ AtNode /\ [Next]_vars => TypeOK'
<1>1. TypeOK /\ UNCHANGED vars => TypeOK'
  BY DEF TypeOK, vars, rows
<1> QED BY <1>1, WalkTypes, OtherTypes

LEMMA TypeInit == Init => TypeOK /\ AtNode
<1> SUFFICES ASSUME Init PROVE TypeOK /\ AtNode
  OBVIOUS
<1>1. PICK s \in Scenarios :
        /\ over = s.over /\ left = s.bounds
        /\ run = Released(IF s.over = {} THEN "RUNNING" ELSE "BUDGET_BLOCKED")
        /\ node = [n \in Nodes |-> IF s.over = {} THEN "PENDING" ELSE "BLOCKED"]
        /\ api = [NoRequest EXCEPT !.pc = IF s.over = {} THEN "create" ELSE "idle"]
  BY DEF Init
<1>2. over \subseteq Nodes /\ left \in Bounds
  BY <1>1, WalkAssumption
<1>3. run \in Runs /\ Released("QUEUED") \in Runs
  BY <1>1, ReleasedRun DEF Active, Stopped
<1> QED
  BY <1>1, <1>2, <1>3, FreshTask
     DEF Init, TypeOK, AtNode, NodeStatuses, NoRequest, NoSweep, NoTask

\* The type invariant of DefinitionRun, with the place of whoever works on a node.
THEOREM TypeCorrect == Spec => [](TypeOK /\ AtNode)
  BY TypeInit, TypeStep, AtNodeStep, PTL DEF Spec

-----------------------------------------------------------------------------
(* One task works on one pending node *)

OneWorks == \A t, u \in Tasks : task[t].pc = "working" /\ task[u].pc = "working" => t = u
LockedOut == api.pc = "commit" => \A t \in Tasks : task[t].pc # "working"
WorkingIsPending == \A t \in Tasks : task[t].pc = "working" => node[Node(t)] = "PENDING"
\* A node that is to be worked on has been asked for more often than it was done.
PendingIsDue == \A n \in Nodes : node[n] = "PENDING" => done[n] <= retries[n]
Exclusive == OneWorks /\ LockedOut /\ WorkingIsPending /\ PendingIsDue /\ WorkedOnce

\* Who changes a node: nobody, a task or a failure that has the row to itself, the
\* completion of a handler, or a retry.
LEMMA NodeStep ==
  ASSUME TypeOK, [Next]_vars
  PROVE  \/ UNCHANGED <<node, retries, done>>
         \/ /\ Free /\ UNCHANGED <<retries, done>>
            /\ \E n, s : s # "PENDING" /\ node' = [node EXCEPT ![n] = s]
         \/ \E t \in Tasks : Complete(t)
         \/ RestartCommit
<1>1. ASSUME NEW t \in Tasks, Walk(t), ~Complete(t)
      PROVE  \/ UNCHANGED <<node, retries, done>>
             \/ /\ Free /\ UNCHANGED <<retries, done>>
                /\ \E n, s : s # "PENDING" /\ node' = [node EXCEPT ![n] = s]
  <2>1. CASE Block(t) \/ MarkFailed(t)
    BY <2>1 DEF Block, MarkFailed, Flush, Write
  <2>2. CASE ~Block(t) /\ ~MarkFailed(t)
    BY <1>1, <2>2
       DEF Walk, Deliver, Prepare, Check, Stop, Leave, Skip, Refuse, Work, Finalize, rows
  <2> QED BY <2>1, <2>2
<1> QED
  BY <1>1
     DEF Next, Request, Recovery, Raise, Crash, CreateSend, CreateCrash, Halt, Restart,
         DeleteDefinition, LapseDead, LapseLive, SweepSelect, SweepUpdate, Requeue, vars, rows

\* Only a restart comes to hold the run row over its commit.
LEMMA RestartBegins ==
  ASSUME [Next]_vars, api'.pc = "commit", api.pc # "commit"
  PROVE  \E action \in {"resume", "retry"} : Restart(action)
<1>1. ASSUME NEW t \in Tasks, Walk(t) PROVE api' = api
  BY <1>1 DEF Walk, Deliver, Prepare, Check, Stop, Leave, Skip, Block, Refuse, Work, Complete,
              MarkFailed, Finalize, Holds, Checked
<1>2. ~CreateSend /\ ~CreateCrash /\ ~RestartCommit
  BY DEF CreateSend, CreateCrash, RestartCommit, NoRequest
<1> QED
  BY <1>1, <1>2
     DEF Next, Raise, Crash, Request, Halt, DeleteDefinition, Recovery, LapseDead, LapseLive,
         SweepSelect, SweepUpdate, Requeue, vars

\* A task that works has begun by Work.
LEMMA WorkBegins ==
  ASSUME TypeOK, [Next]_vars, NEW t \in Tasks, task'[t].pc = "working"
  PROVE  task'[t] = task[t] \/ Work(t)
<1>1. ASSUME Raise(t) PROVE FALSE
  <2>1. task' = [task EXCEPT ![t] = [task[t] EXCEPT !.pc = "failing"]]
    BY <1>1 DEF Raise, Goto
  <2>2. task'[t].pc = "failing"
    BY <2>1 DEF TypeOK, Deliveries
  <2> QED BY <2>2
<1> QED BY <1>1, Reaches

\* Whoever begins to work has the run to itself, and a pending node.
LEMMA WorkStep ==
  ASSUME TypeOK, AtNode, Exclusive, [Next]_vars
  PROVE  OneWorks' /\ LockedOut'
<1>1. ASSUME NEW t \in Tasks, task'[t].pc = "working"
      PROVE  task'[t] = task[t] \/ Work(t)
  BY <1>1, WorkBegins
<1>2. ASSUME NEW t \in Tasks, Work(t)
      PROVE  api'.pc # "commit" /\ \A u \in Tasks : task'[u].pc = "working" => u = t
  <2>1. /\ api' = api /\ api.pc # "commit" /\ \A u \in Tasks : task[u].pc # "working"
        /\ task' = [task EXCEPT ![t] = [NoTask EXCEPT !.pc = "working", !.at = task[t].at]]
    BY <1>2 DEF Work, Free, Holds, Checked
  <2>2. ASSUME NEW u \in Tasks, u # t PROVE task'[u] = task[u]
    BY <2>1, <2>2 DEF TypeOK
  <2> QED BY <2>1, <2>2
<1>3. ASSUME api'.pc = "commit", api.pc # "commit"
      PROVE  Free /\ \A t \in Tasks : ~Work(t)
  <2>1. \E action \in {"resume", "retry"} : Restart(action)
    BY <1>3, RestartBegins
  <2>2. Free
    BY <2>1 DEF Restart, Control
  <2>3. ASSUME NEW t \in Tasks, Work(t) PROVE FALSE
    BY <1>3, <2>3 DEF Work, Holds, Checked
  <2> QED BY <2>2, <2>3
<1>4. OneWorks'
  BY <1>1, <1>2 DEF Exclusive, OneWorks
<1>5. LockedOut'
  BY <1>1, <1>2, <1>3 DEF Exclusive, LockedOut, Free
<1> QED BY <1>4, <1>5

LEMMA ExclusiveStep == TypeOK /\ AtNode /\ Exclusive /\ [Next]_vars => Exclusive'
<1> SUFFICES ASSUME TypeOK, AtNode, Exclusive, [Next]_vars PROVE Exclusive'
  OBVIOUS
<1>1. OneWorks' /\ LockedOut'
  BY WorkStep
<1>2. ASSUME NEW t \in Tasks, task'[t].pc = "working"
      PROVE  task'[t] = task[t] \/ Work(t)
  BY <1>2, WorkBegins
<1>3. CASE UNCHANGED <<node, retries, done>>
  <2>1. ASSUME NEW t \in Tasks, task'[t].pc = "working"
        PROVE  node'[Node(t)'] = "PENDING"
    <3>1. CASE task'[t] = task[t]
      BY <1>3, <2>1, <3>1 DEF Exclusive, WorkingIsPending, Node
    <3>2. CASE Work(t)
      <4>1. task' = [task EXCEPT ![t] = [NoTask EXCEPT !.pc = "working", !.at = task[t].at]]
        BY <3>2 DEF Work
      <4>2. task'[t].at = task[t].at
        BY <4>1 DEF NoTask, TypeOK
      <4> QED BY <1>3, <3>2, <4>2 DEF Work, Node
    <3> QED BY <1>2, <2>1, <3>1, <3>2
  <2>2. WorkingIsPending'
    BY <2>1 DEF WorkingIsPending
  <2> QED BY <1>1, <1>3, <2>2 DEF Exclusive, PendingIsDue, WorkedOnce
<1>4. ASSUME Free, UNCHANGED <<retries, done>>, node' # node, NEW n, NEW s,
             s # "PENDING", node' = [node EXCEPT ![n] = s]
      PROVE  Exclusive'
  <2>1. \A t \in Tasks : task'[t].pc # "working"
    <3>1. ASSUME NEW t \in Tasks, Work(t) PROVE FALSE
      BY <1>4, <3>1 DEF Work, rows
    <3> QED BY <1>2, <1>4, <3>1 DEF Free
  <2>2. WorkingIsPending'
    BY <2>1 DEF WorkingIsPending
  <2> QED BY <1>1, <1>4, <2>2 DEF Exclusive, PendingIsDue, WorkedOnce, TypeOK
<1>5. ASSUME NEW t \in Tasks, Complete(t) PROVE Exclusive'
  <2>1. \A u \in Tasks : task'[u].pc # "working"
    BY <1>5 DEF Complete, Advance, NoTask, Exclusive, OneWorks, TypeOK
  <2>2. Node(t) \in Nodes /\ done[Node(t)] <= retries[Node(t)]
    BY <1>5, Place DEF Complete, Exclusive, WorkingIsPending, PendingIsDue, AtNode, TypeOK
  <2>3. PendingIsDue' /\ WorkedOnce'
    BY <1>5, <2>2 DEF Complete, Exclusive, PendingIsDue, WorkedOnce, TypeOK
  <2> QED BY <1>1, <2>1, <2>3 DEF Exclusive, WorkingIsPending
<1>6. CASE RestartCommit
  <2>1. \A t \in Tasks : task'[t].pc # "working"
    BY <1>6 DEF RestartCommit, Exclusive, LockedOut
  <2>2. PendingIsDue' /\ WorkedOnce'
    BY <1>6 DEF RestartCommit, Exclusive, PendingIsDue, WorkedOnce, TypeOK
  <2> QED BY <1>1, <2>1, <2>2 DEF Exclusive, WorkingIsPending
<1> QED BY <1>3, <1>4, <1>5, <1>6, NodeStep

LEMMA ExclusiveInit == Init => Exclusive
  BY DEF Init, Exclusive, OneWorks, LockedOut, WorkingIsPending, PendingIsDue, WorkedOnce, NoTask,
         NoRequest

\* The effects of a node are committed once for each time it was asked for.
THEOREM NodesWorkedOnce == Spec => []WorkedOnce
<1>1. Exclusive => WorkedOnce
  BY DEF Exclusive
<1> QED BY <1>1, TypeInit, TypeStep, AtNodeStep, ExclusiveInit, ExclusiveStep, PTL DEF Spec

-----------------------------------------------------------------------------
(* A completed run is complete, a cancelled one stays cancelled *)

\* The status of the run after a write: the new one, or, if the session did not change it,
\* the one that is there.
LEMMA WrittenStatus ==
  ASSUME TypeOK, NEW saw \in Runs, NEW new \in Runs, Write(saw, new)
  PROVE  run'.status = IF new.status = saw.status THEN run.status ELSE new.status
  BY DEF Write, Runs

LEMMA Fields ==
  ASSUME NEW s, NEW o, NEW l
  PROVE  Run(s, o, l).status = s /\ Released(s).status = s
  BY DEF Run, Released

\* The snapshot of a task or of the beat is a run row.
LEMMA Snapshots ==
  ASSUME TypeOK
  PROVE  sweeper.saw \in Runs /\ \A t \in Tasks : task[t].saw \in Runs
  BY DEF TypeOK, Deliveries

\* What the writers of a run row know: Prepare and the beat write what they have seen in
\* those states, and nothing stops a run that a restart has locked.
Informed ==
  /\ \A t \in Tasks : task[t].pc = "prepare" => task[t].saw.status \in Active
  /\ sweeper.pc = "recover" => sweeper.saw.status = "RUNNING"
  /\ sweeper.pc = "requeue" => sweeper.saw.status = "RECOVERING"
  /\ api.pc = "commit" => run.status \notin {"CANCELLED", "COMPLETED"}

\* How a step changes the status of the run.
LEMMA StatusStep ==
  ASSUME TypeOK, Informed, [Next]_vars, run'.status # run.status
  PROVE  \/ \E t \in Tasks : MarkFailed(t)
         \/ RestartCommit
         \/ \E action \in {"pause", "cancel"} : Halt(action)
         \/ \E t \in Tasks : Finalize(t)
         \/ /\ Free
            /\ run'.status \in (Active \cup Stopped) \ {"CANCELLED", "COMPLETED"}
            /\ run.status = "CANCELLED" => blind'
<1>1. CASE \E t \in Tasks : Prepare(t)
  <2>1. PICK t \in Tasks : Prepare(t)
    BY <1>1
  <2> DEFINE saw == task[t].saw
             go == Run(IF saw.status = "QUEUED" THEN "RUNNING" ELSE saw.status, t, "live")
  <2>2. saw \in Runs /\ saw.status \in Active /\ Released("FAILED") \in Runs
    BY <2>1, Snapshots, ReleasedRun DEF Prepare, Informed, Stopped, Terminal
  <2>3. go \in Runs /\ go.status \in {"RUNNING", saw.status}
    BY <2>2, RunFields, Fields DEF Active, Leases
  <2>4. Flush(saw, go) \/ Flush(saw, Released("FAILED"))
    BY <2>1 DEF Prepare
  <2>5. run'.status \in {go.status, "FAILED"} /\ Free
    BY <2>2, <2>3, <2>4, WrittenStatus, Fields DEF Flush, Write
  <2>6. run.status = "CANCELLED" => blind'
    BY <2>2, <2>4 DEF Flush, Overwrites, Active
  <2> QED BY <2>2, <2>3, <2>5, <2>6 DEF Active, Stopped, Terminal
<1>2. CASE \E t \in Tasks : Stop(t) \/ Skip(t)
  <2>1. PICK t \in Tasks : Stop(t) \/ Skip(t)
    BY <1>2
  <2> DEFINE saw == task[t].saw
  <2>2. /\ saw \in Runs /\ saw.status \in Active \cup Stopped
        /\ [saw EXCEPT !.lease = "live"] \in Runs /\ [saw EXCEPT !.lease = "live"].status = saw.status
    BY Snapshots DEF Runs, Leases
  <2>3. Released(saw.status) \in Runs /\ Released(saw.status).status = saw.status
    BY <2>2, ReleasedRun, Fields
  <2>4. Write(saw, Released(saw.status)) \/ Write(saw, [saw EXCEPT !.lease = "live"])
    BY <2>1 DEF Stop, Skip, Flush
  <2>5. run'.status = run.status
    BY <2>2, <2>3, <2>4, WrittenStatus
  <2> QED BY <2>5
<1>3. CASE \E t \in Tasks : Block(t) \/ Refuse(t)
  <2>1. PICK t \in Tasks : Block(t) \/ Refuse(t)
    BY <1>3
  <2> DEFINE saw == task[t].saw
  <2>2. PICK s \in {"BUDGET_BLOCKED", "FAILED"} : Flush(saw, Released(s))
    BY <2>1 DEF Block, Refuse
  <2>3. saw \in Runs /\ Released(s) \in Runs /\ Released(s).status = s
    BY Snapshots, ReleasedRun, Fields DEF Stopped, Terminal
  <2>4. run'.status = s /\ Free
    BY <2>2, <2>3, WrittenStatus DEF Flush, Write
  <2>5. saw.status # "CANCELLED"
    BY <2>1 DEF Block, Refuse, Holds, Stops, Stopped, Terminal
  <2>6. run.status = "CANCELLED" => blind'
    BY <2>2, <2>5 DEF Flush, Overwrites
  <2> QED BY <2>4, <2>6 DEF Stopped, Terminal
<1>4. CASE CreateSend
  <2>1. Flush(Released("RUNNING"), Released("QUEUED"))
    BY <1>4 DEF CreateSend
  <2>2. Released("RUNNING") \in Runs /\ Released("QUEUED") \in Runs
    BY ReleasedRun DEF Active
  <2>3. run'.status = "QUEUED" /\ Free
    BY <2>1, <2>2, WrittenStatus, Fields DEF Flush, Write
  <2>4. run.status = "CANCELLED" => blind'
    BY <2>1, Fields DEF Flush, Overwrites
  <2> QED BY <2>3, <2>4 DEF Active
<1>5. CASE SweepUpdate
  <2> DEFINE saw == sweeper.saw
  <2>1. PICK s \in {"RECOVERING", "QUEUED"} : Flush(saw, Released(s))
    BY <1>5 DEF SweepUpdate
  <2>2. saw \in Runs /\ Released(s) \in Runs /\ Released(s).status = s
    BY Snapshots, ReleasedRun, Fields DEF Active
  <2>3. run'.status = s /\ Free
    BY <2>1, <2>2, WrittenStatus DEF Flush, Write
  <2>4. saw.status \in {"RUNNING", "RECOVERING"}
    BY <1>5 DEF SweepUpdate, Informed, TypeOK
  <2>5. run.status = "CANCELLED" => blind'
    BY <2>1, <2>4 DEF Flush, Overwrites
  <2> QED BY <2>3, <2>5 DEF Active
<1>6. CASE \E t \in Tasks : Complete(t)
  BY <1>6 DEF Complete, TypeOK, Runs
<1>7. CASE LapseDead \/ LapseLive
  BY <1>7 DEF LapseDead, LapseLive, Lapse, TypeOK, Runs
<1> QED
  BY <1>1, <1>2, <1>3, <1>4, <1>5, <1>6, <1>7
     DEF Next, Walk, Deliver, Check, Leave, Work, Raise, Crash, Request, CreateCrash, Restart,
         DeleteDefinition, Recovery, SweepSelect, Requeue, vars, rows

\* A cancelled run is reopened by a failed handler or a session that had not seen the cancel.
LEMMA CancelStep ==
  ASSUME TypeOK, Informed, [Next]_vars, run.status = "CANCELLED", run'.status # "CANCELLED"
  PROVE  blind' \/ \E t \in Tasks : task[t].pc = "failing" /\ task'[t].pc = "done"
<1>1. ASSUME NEW t \in Tasks, MarkFailed(t) PROVE task[t].pc = "failing" /\ task'[t].pc = "done"
  BY <1>1 DEF MarkFailed, End, NoTask, TypeOK
<1>2. ~RestartCommit
  BY DEF RestartCommit, Informed
<1>3. ASSUME NEW action \in {"pause", "cancel"}, Halt(action) PROVE FALSE
  BY <1>3 DEF Halt, Control, Allowed, Active, Stopped, Terminal
<1>4. ASSUME NEW t \in Tasks, Finalize(t) PROVE blind'
  <2>1. task[t].saw.status # "CANCELLED"
    BY <1>4 DEF Finalize, Stops
  <2> QED BY <1>4, <2>1 DEF Finalize, Overwrites
<1> QED BY <1>1, <1>2, <1>3, <1>4, StatusStep

\* Who has read the run, and who is to write it: Deliver and SweepSelect copy the row they
\* saw, and a restart keeps the row to itself until it commits.
LEMMA InformedStep == TypeOK /\ AtNode /\ Exclusive /\ Informed /\ [Next]_vars => Informed'
<1> SUFFICES ASSUME TypeOK, AtNode, Exclusive, Informed, [Next]_vars PROVE Informed'
  OBVIOUS
<1>1. ASSUME NEW u \in Tasks, task'[u].pc = "prepare"
      PROVE  task'[u] = task[u] \/ task'[u].saw.status \in Active
  <2>1. ASSUME NEW t \in Tasks, Deliver(t), task'[u] # task[u] PROVE task'[u].saw.status \in Active
    <3>1. ~End(t)
      BY <1>1, <2>1 DEF End, NoTask, TypeOK
    <3>2. /\ task' = [task EXCEPT ![t].pc = "prepare", ![t].saw = run]
          /\ run.status \in Active
      BY <2>1, <3>1, RunParts DEF Deliver, TypeOK
    <3> QED BY <2>1, <3>2 DEF TypeOK, Deliveries
  <2>2. ASSUME NEW t \in Tasks, Walk(t), ~Deliver(t) PROVE task'[u] = task[u]
    <3>1. CASE Check(t)
      <4>1. PICK whole \in BOOLEAN :
               task' = [task EXCEPT ![t].pc = "checked", ![t].saw = run, ![t].whole = whole]
        BY <3>1, Zenon DEF Check
      <4> QED BY <1>1, <4>1 DEF TypeOK, Deliveries
    <3>2. CASE Work(t)
      BY <1>1, <3>2 DEF Work, NoTask, TypeOK
    <3>3. CASE Advance(t)
      BY <1>1, <3>3 DEF Advance, NoTask, TypeOK
    <3>4. CASE End(t)
      BY <1>1, <3>4 DEF End, NoTask, TypeOK
    <3>5. CASE Prepare(t)
      BY <1>1, <3>5 DEF Prepare, End, NoTask, TypeOK
    <3> QED
      BY <2>2, <3>1, <3>2, <3>3, <3>4, <3>5
         DEF Walk, Stop, Leave, Skip, Block, Refuse, Complete, MarkFailed, Finalize
  <2>3. ASSUME NEW t \in Tasks, Raise(t) \/ Crash(t) \/ Send(t) PROVE task'[u] = task[u]
    <3>1. CASE Raise(t)
      <4>1. task' = [task EXCEPT ![t] = [task[t] EXCEPT !.pc = "failing"]]
        BY <3>1 DEF Raise, Goto
      <4> QED BY <1>1, <4>1 DEF TypeOK, Deliveries
    <3>2. CASE Crash(t) \/ Send(t)
      BY <1>1, <3>2 DEF Crash, Send, NoTask, TypeOK
    <3> QED BY <2>3, <3>1, <3>2
  <2> QED
    BY <2>1, <2>2, <2>3
       DEF Next, Request, Recovery, CreateSend, CreateCrash, RestartCommit, Halt, Restart,
           DeleteDefinition, LapseDead, LapseLive, SweepSelect, SweepUpdate, Requeue, vars
<1>2. \/ sweeper' = sweeper
      \/ sweeper' = NoSweep
      \/ SweepSelect
  BY DEF Next, Walk, Deliver, Prepare, Check, Stop, Leave, Skip, Block, Refuse, Work, Complete,
         MarkFailed, Finalize, Holds, Checked, Raise, Crash, Request, CreateSend, CreateCrash,
         RestartCommit, Halt, Restart, DeleteDefinition, Recovery, LapseDead, LapseLive,
         SweepUpdate, Requeue, vars
<1>3. /\ sweeper'.pc = "recover" => sweeper'.saw.status = "RUNNING"
      /\ sweeper'.pc = "requeue" => sweeper'.saw.status = "RECOVERING"
  BY <1>2 DEF SweepSelect, NoSweep, Informed
<1>4. api'.pc = "commit" => run'.status \notin {"CANCELLED", "COMPLETED"}
  <2> SUFFICES ASSUME api'.pc = "commit" PROVE run'.status \notin {"CANCELLED", "COMPLETED"}
    OBVIOUS
  <2>1. CASE api.pc = "commit"
    <3>1. ~Free
      BY <2>1 DEF Free
    <3>2. ~RestartCommit
      BY DEF RestartCommit, NoRequest
    <3>3. run'.status = run.status
      BY <3>1, <3>2, StatusStep DEF MarkFailed, Halt, Control, Finalize, Write
    <3> QED BY <2>1, <3>3 DEF Informed
  <2>2. CASE api.pc # "commit"
    <3>1. PICK action \in {"resume", "retry"} : Restart(action)
      BY <2>2, RestartBegins
    <3> QED BY <3>1 DEF Restart, Control, Allowed, rows
  <2> QED BY <2>1, <2>2
<1> QED BY <1>1, <1>3, <1>4 DEF Informed

\* A run becomes COMPLETED by a _finalize that saw every node completed, and no node is
\* taken back from a run that stays COMPLETED.
LEMMA WholeStep ==
  TypeOK /\ AtNode /\ Exclusive /\ Informed /\ CompletedIsWhole /\ [Next]_vars => CompletedIsWhole'
<1> SUFFICES ASSUME TypeOK, AtNode, Exclusive, Informed, CompletedIsWhole, [Next]_vars,
                    run'.status = "COMPLETED", ~blind'
             PROVE  Whole'
  BY DEF CompletedIsWhole
<1>1. ~blind
  BY DEF Next, Walk, Deliver, Prepare, Check, Stop, Leave, Skip, Block, Refuse, Work, Complete,
         MarkFailed, Finalize, Raise, Crash, Request, CreateSend, CreateCrash, RestartCommit,
         Halt, Restart, DeleteDefinition, Recovery, LapseDead, LapseLive, SweepSelect,
         SweepUpdate, Requeue, Flush, vars
<1>2. CASE \E t \in Tasks : Finalize(t)
  <2>1. PICK t \in Tasks : Finalize(t)
    BY <1>2
  <2>2. task[t].whole = Whole /\ task[t].saw.status = run.status /\ node' = node
    BY <2>1 DEF Finalize, Overwrites
  <2>3. Whole
    <3>1. CASE task[t].whole
      BY <2>2, <3>1
    <3>2. CASE ~task[t].whole
      <4>1. Write(task[t].saw, Released("FAILED"))
        BY <2>1, <3>2 DEF Finalize
      <4>2. task[t].saw \in Runs /\ Released("FAILED") \in Runs
        BY Snapshots, ReleasedRun DEF Stopped, Terminal
      <4>3. run'.status \in {"FAILED", run.status}
        BY <4>1, <4>2, WrittenStatus, Fields
      <4> QED BY <1>1, <4>3 DEF CompletedIsWhole
    <3> QED BY <3>1, <3>2
  <2> QED BY <2>2, <2>3 DEF Whole
<1>3. CASE run.status = "COMPLETED" /\ ~(\E t \in Tasks : Finalize(t))
  <2>1. Whole
    BY <1>1, <1>3 DEF CompletedIsWhole
  <2>2. CASE UNCHANGED node
    BY <2>1, <2>2 DEF Whole
  <2>3. ASSUME NEW t \in Tasks, Complete(t) PROVE FALSE
    BY <2>1, <2>3, Place DEF Complete, Exclusive, WorkingIsPending, AtNode, Whole, TypeOK
  <2>4. ~RestartCommit
    BY <1>3 DEF RestartCommit, Informed
  <2>5. ASSUME NEW t \in Tasks, MarkFailed(t) PROVE FALSE
    BY <2>5, Fields DEF MarkFailed
  <2>6. ASSUME NEW t \in Tasks, Block(t) PROVE FALSE
    <3>1. ~Finalizing(t) /\ node[Node(t)] # "COMPLETED"
      BY <2>6 DEF Block, Holds
    <3> QED BY <2>1, <3>1, Place DEF Whole, TypeOK
  <2>7. UNCHANGED node
    BY <2>3, <2>4, <2>5, <2>6
       DEF Next, Walk, Deliver, Prepare, Check, Stop, Leave, Skip, Refuse, Work, Finalize, Raise,
           Crash, Request, CreateSend, CreateCrash, Halt, Restart, DeleteDefinition, Recovery,
           LapseDead, LapseLive, SweepSelect, SweepUpdate, Requeue, vars, rows
  <2> QED BY <2>2, <2>7
<1>4. CASE run.status # "COMPLETED" /\ ~(\E t \in Tasks : Finalize(t))
  <2>1. \/ \E t \in Tasks : MarkFailed(t)
        \/ RestartCommit
        \/ \E action \in {"pause", "cancel"} : Halt(action)
    BY <1>4, StatusStep
  <2>2. ASSUME NEW t \in Tasks, MarkFailed(t) PROVE FALSE
    BY <2>2, Fields DEF MarkFailed
  <2>3. ~RestartCommit
    BY Fields DEF RestartCommit
  <2>4. ASSUME NEW action \in {"pause", "cancel"}, Halt(action) PROVE FALSE
    BY <2>4 DEF Halt, TypeOK, Runs
  <2> QED BY <2>1, <2>2, <2>3, <2>4
<1> QED BY <1>2, <1>3, <1>4

LEMMA InformedInit == Init => Informed /\ CompletedIsWhole
<1> SUFFICES ASSUME Init PROVE Informed /\ CompletedIsWhole
  OBVIOUS
<1>1. run.status # "COMPLETED"
  BY Fields DEF Init
<1>2. api.pc # "commit"
  BY DEF Init, NoRequest
<1>3. Informed
  BY <1>2 DEF Init, Informed, NoTask, NoSweep
<1> QED BY <1>1, <1>3 DEF CompletedIsWhole

\* A completed run has all its nodes, unless its last update relied on rows that had changed.
THEOREM CompletedRunsAreWhole == Spec => []CompletedIsWhole
BY TypeInit, TypeStep, AtNodeStep, ExclusiveInit, ExclusiveStep, InformedInit, InformedStep,
   WholeStep, PTL DEF Spec

\* A cancelled run is reopened only by a handler that failed late or a stale session.
THEOREM CancelIsRespected == Spec => CancelSticks
<1>1. ASSUME TypeOK, Informed, [Next]_vars
      PROVE  [run.status = "CANCELLED" /\ run'.status # "CANCELLED"
               => blind' \/ \E t \in Tasks : task[t].pc = "failing" /\ task'[t].pc = "done"]_vars
  BY <1>1, CancelStep
<1> QED
  BY <1>1, TypeInit, TypeStep, AtNodeStep, ExclusiveInit, ExclusiveStep, InformedInit, InformedStep,
     PTL DEF Spec, CancelSticks
=============================================================================
