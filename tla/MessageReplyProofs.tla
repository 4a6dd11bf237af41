------------------------ MODULE MessageReplyProofs ------------------------
(***************************************************************************)
(* Proofs about MessageReply, for any workers, requests, writers and tool  *)
(* calls, and any bounds on frames, rounds, retries and faults.            *)
(***************************************************************************)
EXTENDS MessageReply, TLAPS, FiniteSetTheorems

\* Who is past its claim, and who of them works for a stream that has not completed.
Holding == {"claimed", "unsupported", "start", "open", "stream", "flush", "append", "finish",
            "complete", "fail", "failing", "tool", "circuit"}
Writing == Holding \ {"tool", "circuit"}

\* A message is a reply or a placeholder: the machinery of the other is at rest.
ChatRests ==
  owner # "chat" => /\ queue = 0 /\ sender # "enqueue"
                    /\ \A r \in Requests : request[r].pc = "idle"
                    /\ \A w \in Workers : worker[w] = Idle
RunRests ==
  owner # "run" => run = None /\ sender # "start" /\ \A p \in Writers : writer[p].pc = "idle"

\* What a step that goes on from a read knows of it.
Resumes ==
  \A w \in Workers :
    /\ worker[w].pc \in {"flush", "append"} =>
         worker[w].after \in {"stream", "finish", "fail"} /\ worker[w].buffer # {}
    /\ worker[w].pc = "publish" => worker[w].after \in {"idle", "tools", "raised", "retry"}
    /\ worker[w].pc = "fallback" => worker[w].row \in {"PENDING", "STREAMING"}
    /\ worker[w].pc \in {"complete", "failing"} => worker[w].row # "CANCELLED"
    /\ worker[w].pc \in {"tool", "circuit"} => worker[w].text.fence # None
Carries == \A p \in Writers : writer[p].pc # "idle" => writer[p].final \in Settled

Placed == ChatRests /\ RunRests /\ Resumes /\ Carries

\* One claim stands, and the status says so.
OneClaim == \A v, w \in Workers : worker[v].owns /\ worker[w].owns => v = w
HoldersOwn == \A w \in Workers : worker[w].pc \in Holding => worker[w].owns
OwnedStatus ==
  \A w \in Workers : worker[w].owns => status \in {"STREAMING", "COMPLETED", "CANCELLED"}
WritersStream ==
  \A w \in Workers : worker[w].pc \in Writing => status \in {"STREAMING", "CANCELLED"}

Claimed == blind = {} => OneClaim /\ HoldersOwn /\ OwnedStatus /\ WritersStream

\* The stored frames are the first ones, and a stream continues them.
Continues(x) ==
  /\ \/ x.pc \in {"open", "stream", "flush", "append", "finish", "complete", "failing"}
     \/ x.pc = "fail" /\ status # "CANCELLED"
     => chunks \cup x.buffer = 0..(x.next - 1)
  /\ x.pc \in {"start", "open", "finish", "complete", "fail", "failing"} => x.buffer = {}
Numbered ==
  blind = {} => /\ \E k \in 0..MaxFrames : chunks = 0..(k - 1)
                /\ \A w \in Workers : Continues(worker[w])

\* What the holder of the claim has loaded is what the row says.
Loaded == {"unsupported", "append", "complete", "failing", "tool", "circuit", "fallback"}
HoldersRead ==
  \A w \in Workers : worker[w].pc \in Loaded /\ worker[w].owns => worker[w].text = body
Hashed ==
  blind = {} /\ owner # "run" => HoldersRead /\ (status = "COMPLETED" => hash = body)

\* A text is there from the first frame on.
Begun ==
  blind = {} /\ owner # "run" =>
    /\ chunks = {} => body = EmptyBody
    /\ chunks # {} => body.len > 0
    /\ status \in {"PENDING", "FAILED"} => body = EmptyBody
    /\ status = "PARTIAL" => body.len > 0
    /\ \A w \in Workers :
         worker[w].pc \in {"gate", "claim", "fallback"} =>
           /\ worker[w].row \in {"PENDING", "FAILED"} => worker[w].text = EmptyBody
           /\ worker[w].row = "PARTIAL" => worker[w].text.len > 0

\* The end of the run is in the placeholder, or on its way.
Pending(p) ==
  writer[p].final = run /\ \/ writer[p].pc = "load"
                           \/ writer[p].pc = "write" /\ writer[p].row # "CANCELLED"
Reported ==
  /\ owner = None => status = "PENDING"
  /\ owner = "run" /\ blind = {} =>
       /\ status = "CANCELLED" => run = "CANCELLED"
       /\ run \in Settled /\ status \in Settled /\ used.lost = 0 =>
            status = run \/ \E p \in Writers : Pending(p)

------------------------------------------------------------------------------
(* Types *)

\* The initial text, execution and write-back have the right types.
LEMMA EmptyIsBody == EmptyBody \in Bodies
  BY DEF EmptyBody, Bodies

LEMMA IdleIsExecution == Idle \in Executions
  BY EmptyIsBody, FramesAssumption DEF Idle, Executions, WorkerPCs

\* The fields of the execution at rest, and of one that enters a step.
LEMMA IdleFields ==
  /\ Idle.pc = "idle" /\ Idle.owns = FALSE /\ Idle.buffer = {} /\ Idle.next = 0
  BY DEF Idle

LEMMA EnteredFields ==
  \A pc, b : LET x == [Idle EXCEPT !.pc = pc, !.owns = b]
             IN  x.pc = pc /\ x.owns = b /\ x.buffer = {}
  BY DEF Idle

\* The type of each field.
LEMMA ExecutionFields ==
  ASSUME NEW x \in Executions
  PROVE  /\ x.pc \in WorkerPCs /\ x.row \in Statuses \cup {None} /\ x.text \in Bodies
         /\ x.next \in 0..MaxFrames /\ x.buffer \in SUBSET (0..(MaxFrames - 1))
         /\ x.fence \in Calls \cup {None} /\ x.after \in WorkerPCs \cup {None}
         /\ x.event \in Statuses \cup {None} /\ x.owns \in BOOLEAN
  BY DEF Executions

\* An execution that moves on keeps its fields.
LEMMA Moved ==
  ASSUME NEW x \in Executions, NEW pc \in WorkerPCs
  PROVE  [x EXCEPT !.pc = pc] \in Executions
  BY DEF Executions

\* The four ways in which a step updates an execution keep its type.
LEMMA Entered ==
  ASSUME NEW pc \in WorkerPCs, NEW b \in BOOLEAN
  PROVE  [Idle EXCEPT !.pc = pc, !.owns = b] \in Executions
  BY IdleIsExecution DEF Executions

LEMMA TypedEnter ==
  ASSUME worker \in [Workers -> Executions], NEW w \in Workers, NEW pc \in WorkerPCs
  PROVE  Enter(w, pc) \/ Step(w, pc) \/ Leave(w) => worker' \in [Workers -> Executions]
<1>1. worker[w].owns \in BOOLEAN /\ worker[w] \in Executions
  BY ExecutionFields
<1>2. [Idle EXCEPT !.pc = pc, !.owns = worker[w].owns] \in Executions
  BY <1>1, Entered
<1>3. [worker[w] EXCEPT !.pc = pc] \in Executions
  BY <1>1, Moved
<1> QED BY <1>2, <1>3, IdleIsExecution DEF Enter, Step, Leave

LEMMA TypedLoad ==
  ASSUME worker \in [Workers -> Executions], status \in Statuses, body \in Bodies,
         NEW w \in Workers, NEW pc \in WorkerPCs, Load(w, pc)
  PROVE  worker' \in [Workers -> Executions]
<1>1. worker[w] \in Executions
  OBVIOUS
<1>2. [worker[w] EXCEPT !.pc = pc, !.row = status, !.text = body] \in Executions
  BY <1>1 DEF Executions
<1>3. worker' = [worker EXCEPT ![w] = [worker[w] EXCEPT !.pc = pc, !.row = status, !.text = body]]
  BY DEF Load
<1> QED BY <1>2, <1>3

LEMMA TypedAnnounce ==
  ASSUME worker \in [Workers -> Executions], NEW w \in Workers,
         NEW event \in Statuses, NEW pc \in WorkerPCs, Announce(w, event, pc)
  PROVE  worker' \in [Workers -> Executions]
<1>1. \A b \in BOOLEAN :
        [Idle EXCEPT !.pc = "publish", !.event = event, !.after = pc, !.owns = b] \in Executions
  BY IdleIsExecution DEF Executions, WorkerPCs
<1>2. (event = "COMPLETED") \in BOOLEAN
  OBVIOUS
<1>3. [Idle EXCEPT !.pc = "publish", !.event = event, !.after = pc, !.owns = (event = "COMPLETED")]
        \in Executions
  BY <1>1, <1>2
<1> QED BY <1>3 DEF Announce

\* What the helpers of the actions return.
LEMMA TerminalIsStatus == \A n : TerminalStatus(n) \in Statuses \ {"CANCELLED", "COMPLETED"}
  BY DEF TerminalStatus, Statuses, Active, Settled

LEMMA SetIsStatus ==
  ASSUME status \in Statuses, NEW row, NEW new \in Statuses
  PROVE  StatusSet(row, new) \in Statuses
  BY DEF StatusSet

LEMMA MarkedIsBody ==
  ASSUME NEW b \in Bodies, b.fence # None
  PROVE  Marked(b) \in Bodies
<1>1. b.marks \in [Calls -> Nat] /\ b.fence \in Calls /\ b.len \in Nat
  BY DEF Bodies
<1>2. [b.marks EXCEPT ![b.fence] = b.marks[b.fence] + 1] \in [Calls -> Nat]
  BY <1>1
<1>3. Marked(b) = [b EXCEPT !.marks = [b.marks EXCEPT ![b.fence] = b.marks[b.fence] + 1],
                            !.fence = None]
  BY Zenon DEF Marked
<1> QED BY <1>2, <1>3 DEF Bodies

\* A bound consumed leaves the counters counters.
LEMMA SpentIsUsed ==
  ASSUME used \in [{"retries", "requests", "faults", "lost", "revivals"} -> Nat], NEW max,
         NEW what \in {"retries", "requests", "faults", "revivals"}, Spend(what, max)
  PROVE  used' \in [{"retries", "requests", "faults", "lost", "revivals"} -> Nat]
  BY DEF Spend

LEMMA LostIsUsed ==
  ASSUME used \in [{"retries", "requests", "faults", "lost", "revivals"} -> Nat], Lose
  PROVE  used' \in [{"retries", "requests", "faults", "lost", "revivals"} -> Nat]
<1> DEFINE more == [used EXCEPT !["faults"] = used["faults"] + 1]
<1>1. more \in [{"retries", "requests", "faults", "lost", "revivals"} -> Nat]
  OBVIOUS
<1>2. used' = [more EXCEPT !["lost"] = used["lost"] + 1]
  BY DEF Lose
<1>3. used["lost"] + 1 \in Nat
  OBVIOUS
<1> QED BY <1>1, <1>2, <1>3

\* What is outside the executions keeps its type when they step.
LEMMA RequestTypes == TypeOK /\ Request => TypeOK'
<1> SUFFICES ASSUME TypeOK, Request PROVE TypeOK'
  OBVIOUS
<1>1. CASE SendChat \/ SendRun \/ SendEnqueue
  <2>1. CASE SendChat
    BY <2>1 DEF SendChat, TypeOK, swarm
  <2>2. CASE SendRun
    BY <2>2 DEF SendRun, TypeOK
  <2>3. CASE SendEnqueue
    BY <2>3 DEF SendEnqueue, TypeOK, message, swarm
  <2> QED BY <1>1, <2>1, <2>2, <2>3
<1>2. CASE SendFails \/ RunStart
  BY <1>2, SpentIsUsed DEF SendFails, RunStart, TypeOK, swarm, Statuses, Settled
<1>3. CASE Stop \/ StopPublish
  BY <1>3 DEF Stop, StopPublish, TypeOK, message, swarm, Statuses, Settled
<1>4. ASSUME NEW r \in Requests, RequeueRead(r) PROVE TypeOK'
  BY <1>4, SpentIsUsed DEF RequeueRead, TypeOK, message, swarm
<1>5. ASSUME NEW r \in Requests, RequeueWrite(r) PROVE TypeOK'
  BY <1>5 DEF RequeueWrite, TypeOK, swarm, Statuses, Active
<1>6. ASSUME NEW r \in Requests, RequeueEnqueue(r) PROVE TypeOK'
  BY <1>6, LostIsUsed DEF RequeueEnqueue, TypeOK, message, swarm
<1> QED BY <1>1, <1>2, <1>3, <1>4, <1>5, <1>6 DEF Request, Dispatch

\* The writers keep the types.
LEMMA ReportTypes ==
  TypeOK /\ Carries /\ (RunRevived \/ \E p \in Writers : RunEnds(p) \/ Report(p)) => TypeOK'
<1> SUFFICES ASSUME TypeOK, Carries, RunRevived \/ \E p \in Writers : RunEnds(p) \/ Report(p) PROVE TypeOK'
  OBVIOUS
<1>1. CASE RunRevived
  BY <1>1, SpentIsUsed DEF RunRevived, TypeOK, message, http
<1>2. ASSUME NEW p \in Writers, RunEnds(p) PROVE TypeOK'
  BY <1>2, LostIsUsed DEF RunEnds, TypeOK, message, http, WriteBacks
<1>3. ASSUME NEW p \in Writers, SweepRun(p) \/ WriterLoad(p) PROVE TypeOK'
  BY <1>3 DEF SweepRun, WriterLoad, TypeOK, message, http, WriteBacks
<1>4. ASSUME NEW p \in Writers, WriterWrite(p) PROVE TypeOK'
  <2>1. [EmptyBody EXCEPT !.len = 1] \in Bodies
    BY EmptyIsBody DEF Bodies
  <2>2. writer' \in [Writers -> WriteBacks] /\ status' \in Statuses
    <3>1. NoWrite \in WriteBacks /\ [writer[p] EXCEPT !.pc = "publish"] \in WriteBacks
      BY DEF TypeOK, WriteBacks, NoWrite
    <3> QED BY <1>4, <3>1 DEF WriterWrite, TypeOK, Carries, Statuses
  <2> QED BY <1>4, <2>1, <2>2 DEF WriterWrite, TypeOK, http
<1>5. ASSUME NEW p \in Writers, WriterPublish(p) PROVE TypeOK'
  BY <1>5 DEF WriterPublish, TypeOK, message, http, WriteBacks, NoWrite, Statuses
<1> QED BY <1>1, <1>2, <1>3, <1>4, <1>5 DEF Report

------------------------------------------------------------------------------
\* The first k frame numbers are k.
LEMMA FrameNumbers ==
  \A k \in Nat : IsFiniteSet(0..(k - 1)) /\ Cardinality(0..(k - 1)) = k
<1> SUFFICES ASSUME NEW k \in Nat PROVE IsFiniteSet(0..(k - 1)) /\ Cardinality(0..(k - 1)) = k
  OBVIOUS
<1>1. 0 \in Int /\ k - 1 \in Int
  OBVIOUS
<1>2. /\ IsFiniteSet(0..(k - 1))
      /\ Cardinality(0..(k - 1)) = IF 0 > k - 1 THEN 0 ELSE (k - 1) - 0 + 1
  BY <1>1, FS_Interval, Zenon
<1> QED BY <1>2

\* Every step of a task keeps the types.
LEMMA ChatTypes ==
  ASSUME TypeOK, Resumes, NEW w \in Workers, Chat(w)
  PROVE  TypeOK'
<1> USE DEF TypeOK
<1>0. /\ worker[w] \in Executions /\ worker[w].owns \in BOOLEAN
      /\ \A pc \in WorkerPCs : Step(w, pc) \/ Enter(w, pc) \/ Leave(w) => worker' \in [Workers -> Executions]
      /\ \A pc \in WorkerPCs : Load(w, pc) => worker' \in [Workers -> Executions]
      /\ \A pc \in WorkerPCs, e \in Statuses : Announce(w, e, pc) => worker' \in [Workers -> Executions]
  <2>1. worker[w] \in Executions
    OBVIOUS
  <2>2. worker[w].owns \in BOOLEAN
    BY <2>1, ExecutionFields
  <2>3. \A pc \in WorkerPCs : Step(w, pc) \/ Enter(w, pc) \/ Leave(w) => worker' \in [Workers -> Executions]
    BY TypedEnter
  <2>4. \A pc \in WorkerPCs : Load(w, pc) => worker' \in [Workers -> Executions]
    BY TypedLoad
  <2>5. \A pc \in WorkerPCs, e \in Statuses : Announce(w, e, pc) => worker' \in [Workers -> Executions]
    BY TypedAnnounce
  <2> QED BY <2>1, <2>2, <2>3, <2>4, <2>5
<1> USE <1>0
<1>1. CASE Take(w) \/ Prepass(w) \/ Gate(w) \/ ClaimLost(w) \/ CompileFails(w) \/ Build(w)
  <2>1. worker' \in [Workers -> Executions] /\ queue' \in Nat
    BY <1>1 DEF Take, Prepass, Gate, ClaimLost, CompileFails, Build, WorkerPCs
  <2>2. used' \in [{"retries", "requests", "faults", "lost", "revivals"} -> Nat]
    BY <1>1, SpentIsUsed DEF Take, Prepass, Gate, ClaimLost, CompileFails, Build
  <2> QED BY <1>1, <2>1, <2>2
          DEF Take, Prepass, Gate, ClaimLost, CompileFails, Build, Aside, Row, swarm
<1>2. CASE Refuse(w)
  <2> DEFINE new == TerminalStatus(IF IsEmpty(worker[w].text) THEN 0 ELSE 1)
  <2>1. new \in Statuses
    BY TerminalIsStatus
  <2>2. used' \in [{"retries", "requests", "faults", "lost", "revivals"} -> Nat]
    BY <1>2, SpentIsUsed DEF Refuse
  <2>3. worker' \in [Workers -> Executions] /\ status' \in Statuses
    BY <1>2, <2>1, SetIsStatus DEF Refuse, WorkerPCs
  <2> QED BY <1>2, <2>2, <2>3 DEF Refuse, Aside, swarm
<1>3. CASE Claim(w)
  <2>1. [Idle EXCEPT !.pc = "claimed", !.owns = TRUE] \in Executions
    BY Entered DEF WorkerPCs
  <2> QED BY <1>3, <2>1 DEF Claim, Aside, swarm, Statuses, Active
<1>4. CASE Start(w)
  <2>1. Cardinality(chunks) \in 0..MaxFrames
    <3>1. IsFiniteSet(0..(MaxFrames - 1)) /\ Cardinality(0..(MaxFrames - 1)) = MaxFrames
      BY FrameNumbers, FramesAssumption
    <3>2. IsFiniteSet(chunks) /\ Cardinality(chunks) <= MaxFrames
      BY <3>1, FS_Subset
    <3> QED BY <3>2, FS_CardinalityType, FramesAssumption
  <2>2. \A pc \in WorkerPCs, n \in 0..MaxFrames :
          [worker[w] EXCEPT !.pc = pc, !.next = n] \in Executions
    BY DEF Executions
  <2>3. worker' = [worker EXCEPT ![w] =
          [worker[w] EXCEPT !.pc = IF status = "CANCELLED" THEN "tools" ELSE "open",
                            !.next = Cardinality(chunks)]]
    BY <1>4 DEF Start
  <2>4. (IF status = "CANCELLED" THEN "tools" ELSE "open") \in WorkerPCs
    BY DEF WorkerPCs
  <2>5. worker' \in [Workers -> Executions]
    BY <2>1, <2>2, <2>3, <2>4
  <2> QED BY <1>4, <2>5 DEF Start, Aside, Row, swarm
<1>5. CASE Open(w)
  <2>1. worker' \in [Workers -> Executions] /\ status' \in Statuses
    BY <1>5, SetIsStatus DEF Open, WorkerPCs, Statuses, Active
  <2> QED BY <1>5, <2>1 DEF Open, Aside, swarm
<1>6. CASE Frame(w)
  <2>1. worker[w].next \in 0..(MaxFrames - 1) /\ worker[w].next + 1 \in 0..MaxFrames
    BY <1>6, FramesAssumption, ExecutionFields DEF Frame
  <2>2. worker[w].buffer \cup {worker[w].next} \in SUBSET (0..(MaxFrames - 1))
    BY <2>1, ExecutionFields
  <2>3. PICK fence \in Calls \cup {None}, pc \in {"stream", "flush"} :
          worker' = [worker EXCEPT ![w].pc = pc, ![w].after = "stream", ![w].fence = fence,
                                   ![w].buffer = @ \cup {worker[w].next}, ![w].next = @ + 1]
    BY <1>6 DEF Frame
  <2> DEFINE x == [worker[w] EXCEPT !.pc = pc, !.after = "stream", !.fence = fence]
  <2>10. worker' = [worker EXCEPT ![w] =
            [x EXCEPT !.buffer = worker[w].buffer \cup {worker[w].next},
                      !.next = worker[w].next + 1]]
    BY <2>3
  <2>4. [worker[w] EXCEPT !.pc = pc, !.after = "stream", !.fence = fence,
                          !.buffer = worker[w].buffer \cup {worker[w].next},
                          !.next = worker[w].next + 1] \in Executions
    <3>1. pc \in WorkerPCs /\ "stream" \in WorkerPCs
      BY DEF WorkerPCs
    <3> QED BY <2>1, <2>2, <3>1 DEF Executions
  <2>5. worker' \in [Workers -> Executions]
    BY <2>10, <2>4
  <2> QED BY <1>6, <2>5 DEF Frame, Aside, Row, swarm
<1>7. CASE Probe(w) \/ Finish(w) \/ Fail(w) \/ Raised(w)
  <2>1. worker' \in [Workers -> Executions]
    BY <1>7 DEF Probe, Finish, Fail, Raised, WorkerPCs
  <2> QED BY <1>7, <2>1 DEF Probe, Finish, Fail, Raised, Aside, Row, swarm
<1>8. CASE StreamEnds(w)
  <2>1. \A pc, after \in WorkerPCs : [worker[w] EXCEPT !.pc = pc, !.after = after] \in Executions
    BY DEF Executions
  <2>2. PICK next \in {"finish", "fail"} :
          /\ IF next = "fail" THEN Spend("faults", MaxFaults) ELSE UNCHANGED used
          /\ worker' = [worker EXCEPT ![w] =
               [worker[w] EXCEPT !.pc = IF worker[w].buffer = {} THEN next ELSE "flush", !.after = next]]
    BY <1>8 DEF StreamEnds
  <2>3. next \in WorkerPCs /\ (IF worker[w].buffer = {} THEN next ELSE "flush") \in WorkerPCs
    BY DEF WorkerPCs
  <2>4. worker' \in [Workers -> Executions]
    BY <2>1, <2>2, <2>3
  <2>5. used' \in [{"retries", "requests", "faults", "lost", "revivals"} -> Nat]
    BY <2>2, SpentIsUsed
  <2> QED BY <1>8, <2>4, <2>5 DEF StreamEnds, Aside, Row, swarm
<1>9. CASE Flush(w)
  <2>1. worker' \in [Workers -> Executions]
    <3>1. CASE status = "CANCELLED"
      <4>1. \A pc \in WorkerPCs : [worker[w] EXCEPT !.buffer = {}, !.pc = pc] \in Executions
        BY DEF Executions
      <4>2. (IF worker[w].after = "fail" THEN "fail" ELSE "tools") \in WorkerPCs
        BY DEF WorkerPCs
      <4>3. worker' = [worker EXCEPT ![w] = [worker[w] EXCEPT !.buffer = {},
              !.pc = IF worker[w].after = "fail" THEN "fail" ELSE "tools"]]
        BY <1>9, <3>1 DEF Flush
      <4> QED BY <4>1, <4>2, <4>3
    <3>2. CASE status # "CANCELLED"
      BY <1>9, <3>2 DEF Flush, WorkerPCs
    <3> QED BY <3>1, <3>2
  <2> QED BY <1>9, <2>1 DEF Flush, Aside, Row, swarm
<1>10. CASE Append(w)
  <2> DEFINE new == worker[w].buffer \ chunks
  <2>1. worker[w].buffer \subseteq 0..(MaxFrames - 1) /\ worker[w].text \in Bodies
        /\ worker[w].fence \in Calls \cup {None} /\ worker[w].next \in 0..MaxFrames
    BY ExecutionFields
  <2>2. Cardinality(new) \in Nat
    <3>1. IsFiniteSet(0..(MaxFrames - 1))
      BY FramesAssumption, FS_Interval
    <3>2. IsFiniteSet(new)
      BY <2>1, <3>1, FS_Subset
    <3> QED BY <3>2, FS_CardinalityType
  <2>3. \A n \in Nat, f \in Calls \cup {None} :
          [worker[w].text EXCEPT !.len = worker[w].text.len + n, !.fence = f] \in Bodies
    <3>1. worker[w].text \in [len : Nat, marks : [Calls -> Nat], fence : Calls \cup {None}]
      BY <2>1 DEF Bodies
    <3>2. \A n \in Nat : worker[w].text.len + n \in Nat
      BY <3>1
    <3> QED BY <3>1, <3>2 DEF Bodies
  <2>4. body' = [worker[w].text EXCEPT !.len = worker[w].text.len + Cardinality(new),
                   !.fence = IF worker[w].fence = None THEN worker[w].text.fence ELSE worker[w].fence]
    BY <1>10 DEF Append
  <2>5. (IF worker[w].fence = None THEN worker[w].text.fence ELSE worker[w].fence) \in Calls \cup {None}
    BY <2>1 DEF Bodies
  <2>6. body' \in Bodies
    <3> HIDE DEF new
    <3> QED BY <2>2, <2>3, <2>4, <2>5
  <2>7. chunks' \subseteq 0..(MaxFrames - 1)
    BY <1>10, <2>1 DEF Append
  <2>8. worker[w].after \in WorkerPCs
    BY <1>10 DEF Append, Resumes, WorkerPCs
  <2>9. [Idle EXCEPT !.pc = worker[w].after, !.owns = worker[w].owns, !.next = worker[w].next]
          \in Executions
    BY <2>1, <2>8, IdleIsExecution DEF Executions
  <2>10. worker' \in [Workers -> Executions]
    BY <1>10, <2>9 DEF Append
  <2> QED BY <1>10, <2>6, <2>7, <2>10 DEF Append, Aside, swarm
<1>11. CASE Complete(w)
  <2> DEFINE new == IF IsEmpty(worker[w].text) THEN "FAILED" ELSE "COMPLETED"
  <2>1. new \in Statuses /\ worker[w].text \in Bodies
    BY ExecutionFields DEF Statuses, Settled
  <2>2. status' = new /\ hash' \in Bodies
    BY <1>11, <2>1 DEF Complete
  <2>3. worker' \in [Workers -> Executions]
    BY <1>11, <2>1 DEF Complete, WorkerPCs
  <2> QED BY <1>11, <2>1, <2>2, <2>3 DEF Complete, Aside, swarm
<1>12. CASE Failing(w)
  <2>1. TerminalStatus(worker[w].next) \in Statuses
    BY TerminalIsStatus
  <2> QED BY <1>12, <2>1 DEF Failing, Aside, swarm, WorkerPCs
<1>13. CASE Publish(w)
  <2>1. worker[w].after \in WorkerPCs /\ worker[w].event \in Statuses \cup {None}
    BY <1>13, ExecutionFields DEF Publish, Resumes, WorkerPCs
  <2> QED BY <1>13, <2>1 DEF Publish, Aside, Row, swarm
<1>14. CASE ToolScan(w)
  <2>1. (IF body.marks[body.fence] >= MaxSameCall THEN "circuit" ELSE "tool") \in WorkerPCs
    BY DEF WorkerPCs
  <2>2. worker' \in [Workers -> Executions]
    BY <1>14, <2>1 DEF ToolScan, WorkerPCs
  <2> QED BY <1>14, <2>2 DEF ToolScan, Aside, Row, swarm
<1>15. CASE ToolWrite(w) \/ CircuitBreak(w)
  <2>1. worker' \in [Workers -> Executions]
    BY <1>15 DEF ToolWrite, CircuitBreak, WorkerPCs
  <2>2. body' \in Bodies /\ hash' \in Bodies
    <3>1. Marked(worker[w].text) \in Bodies
      BY <1>15, MarkedIsBody, ExecutionFields DEF ToolWrite, CircuitBreak, Resumes
    <3> QED BY <1>15, <3>1 DEF ToolWrite, CircuitBreak, Row
  <2>3. status' \in Statuses /\ toolLog' \in [Calls -> {None, "done", "failed"}]
    BY <1>15, SetIsStatus DEF ToolWrite, CircuitBreak, Row, Statuses, Active
  <2>4. chunks' = chunks
    BY <1>15 DEF ToolWrite, CircuitBreak, Row
  <2> QED BY <1>15, <2>1, <2>2, <2>3, <2>4 DEF ToolWrite, CircuitBreak, Aside, swarm
<1>16. CASE Fallback(w)
  <2>1. TerminalStatus(IF IsEmpty(worker[w].text) THEN 0 ELSE 1) \in Statuses
    BY TerminalIsStatus
  <2> QED BY <1>16, <2>1 DEF Fallback, Aside, swarm, WorkerPCs
<1>17. CASE Retry(w)
  <2>1. worker' \in [Workers -> Executions] /\ queue' \in Nat
    BY <1>17 DEF Retry, WorkerPCs
  <2>2. used' \in [{"retries", "requests", "faults", "lost", "revivals"} -> Nat]
    BY <1>17, SpentIsUsed DEF Retry
  <2> QED BY <1>17, <2>1, <2>2 DEF Retry, Aside, Row, swarm
<1> QED
  BY <1>1, <1>2, <1>3, <1>4, <1>5, <1>6, <1>7, <1>8, <1>9, <1>10, <1>11, <1>12, <1>13, <1>14,
     <1>15, <1>16, <1>17 DEF Chat

\* A crash and a redelivery keep the types.
LEMMA FaultTypes ==
  ASSUME TypeOK, NEW w \in Workers, Crash(w) \/ Redeliver(w)
  PROVE  TypeOK'
<1>1. CASE Crash(w)
  <2>1. queue' \in Nat
    BY <1>1 DEF Crash, TypeOK
  <2> QED BY <1>1, <2>1, LostIsUsed, IdleIsExecution DEF Crash, TypeOK, Aside, Row, swarm
<1>2. CASE Redeliver(w)
  BY <1>2, SpentIsUsed DEF Redeliver, TypeOK, Aside, Row, swarm
<1> QED BY <1>1, <1>2

------------------------------------------------------------------------------
(* Where everybody is *)

\* The placement holds at first.
LEMMA PlacedInit == Init => TypeOK /\ Placed
<1> SUFFICES ASSUME Init PROVE TypeOK /\ Placed
  OBVIOUS
<1>1. Placed
  BY DEF Init, Placed, ChatRests, RunRests, Resumes, Carries, Idle, NoWrite
<1>2. worker \in [Workers -> Executions] /\ body \in Bodies /\ hash \in Bodies
  BY IdleIsExecution, EmptyIsBody DEF Init
<1>3. writer \in [Writers -> WriteBacks]
  BY DEF Init, WriteBacks, NoWrite
<1>4. request \in [Requests -> [pc : {"idle", "write", "enqueue"}, resume : BOOLEAN]]
  BY DEF Init
<1>5. used \in [{"retries", "requests", "faults", "lost", "revivals"} -> Nat]
  BY DEF Init
<1> QED BY <1>1, <1>2, <1>3, <1>4, <1>5 DEF Init, TypeOK, Statuses, Active

\* A step of one execution leaves the others alone.
LEMMA Alone ==
  ASSUME TypeOK, NEW w \in Workers, Chat(w) \/ Crash(w)
  PROVE  /\ \A v \in Workers \ {w} : worker'[v] = worker[v]
         /\ UNCHANGED <<owner, sender, stopper, request, run, writer>>
<1>0. worker \in [Workers -> Executions]
  BY DEF TypeOK
<1>1. UNCHANGED <<owner, sender, stopper, request, run, writer>>
  BY DEF Chat, Crash, Take, Prepass, Gate, Refuse, Claim, ClaimLost, CompileFails, Build, Start,
         Open, Frame, Probe, StreamEnds, Flush, Append, Finish, Complete, Fail, Failing, Publish,
         ToolScan, ToolWrite, CircuitBreak, Raised, Fallback, Retry, Aside, swarm
<1>2. \A v \in Workers \ {w} : worker'[v] = worker[v]
  <2> SUFFICES ASSUME NEW v \in Workers \ {w} PROVE worker'[v] = worker[v]
    OBVIOUS
  <2>1. \A pc : Step(w, pc) \/ Enter(w, pc) \/ Leave(w) \/ Load(w, pc) => worker'[v] = worker[v]
    BY <1>0 DEF Step, Enter, Leave, Load
  <2>2. \A e, pc : Announce(w, e, pc) => worker'[v] = worker[v]
    BY <1>0 DEF Announce
  <2>3. CASE Take(w) \/ Prepass(w) \/ Gate(w) \/ ClaimLost(w) \/ CompileFails(w) \/ Build(w) \/ Refuse(w)
    BY <2>1, <2>2, <2>3 DEF Take, Prepass, Gate, ClaimLost, CompileFails, Build, Refuse
  <2>4. CASE Claim(w) \/ Open(w) \/ Probe(w) \/ Append(w) \/ Finish(w) \/ Complete(w) \/ Crash(w)
    BY <1>0, <2>1, <2>2, <2>4 DEF Claim, Open, Probe, Append, Finish, Complete, Crash
  <2>5. CASE Start(w) \/ StreamEnds(w)
    BY <2>5, <1>0 DEF Start, StreamEnds
  <2>6. CASE Frame(w) \/ Flush(w)
    BY <2>1, <2>6, <1>0 DEF Frame, Flush
  <2>7. CASE Fail(w) \/ Failing(w) \/ Publish(w) \/ ToolScan(w) \/ ToolWrite(w)
    BY <2>1, <2>2, <2>7 DEF Fail, Failing, Publish, ToolScan, ToolWrite
  <2>8. CASE CircuitBreak(w) \/ Raised(w) \/ Fallback(w) \/ Retry(w)
    BY <2>1, <2>2, <2>8 DEF CircuitBreak, Raised, Fallback, Retry
  <2> QED BY <2>3, <2>4, <2>5, <2>6, <2>7, <2>8 DEF Chat
<1> QED BY <1>1, <1>2

\* What one execution knows of the read it goes on from.
Knowing == {"flush", "append", "publish", "fallback", "complete", "failing", "tool", "circuit"}
Resumed(x) ==
  /\ x.pc \in {"flush", "append"} => x.after \in {"stream", "finish", "fail"} /\ x.buffer # {}
  /\ x.pc = "publish" => x.after \in {"idle", "tools", "raised", "retry"}
  /\ x.pc = "fallback" => x.row \in {"PENDING", "STREAMING"}
  /\ x.pc \in {"complete", "failing"} => x.row # "CANCELLED"
  /\ x.pc \in {"tool", "circuit"} => x.text.fence # None

\* A step of an execution leaves it with the knowledge its next one needs.
LEMMA ResumedStep ==
  ASSUME TypeOK, NEW w \in Workers, Resumed(worker[w]), Chat(w) \/ Crash(w)
  PROVE  Resumed(worker'[w])
<1>0. worker \in [Workers -> Executions] /\ worker[w] \in Executions
  BY DEF TypeOK
<1> USE DEF Knowing
<1>1. \A pc : pc \notin Knowing /\ (Step(w, pc) \/ Enter(w, pc) \/ Leave(w) \/ Load(w, pc)) => Resumed(worker'[w])
  <2> SUFFICES ASSUME NEW pc, pc \notin Knowing,
                      Step(w, pc) \/ Enter(w, pc) \/ Leave(w) \/ Load(w, pc)
               PROVE  worker'[w].pc \notin Knowing
    BY DEF Resumed, Knowing
  <2>1. CASE Step(w, pc)
    BY <1>0, <2>1 DEF Step, Executions
  <2>2. CASE Enter(w, pc) \/ Leave(w)
    <3>1. CASE Enter(w, pc)
      BY <1>0, <3>1, IdleIsExecution DEF Enter, Executions
    <3>2. CASE Leave(w)
      BY <1>0, <3>2, IdleFields DEF Leave
    <3> QED BY <2>2, <3>1, <3>2
  <2>3. CASE Load(w, pc)
    BY <1>0, <2>3 DEF Load, Executions
  <2> QED BY <2>1, <2>2, <2>3
<1>2. \A e, pc : Announce(w, e, pc) /\ pc \in {"idle", "tools", "raised", "retry"} => Resumed(worker'[w])
  BY <1>0 DEF Announce, Resumed, Idle, Executions
<1>3. \A pc : pc # "idle" /\ Load(w, pc) =>
        worker'[w].pc = pc /\ worker'[w].row = status /\ worker'[w].text = body
        /\ worker'[w].after = worker[w].after /\ worker'[w].buffer = worker[w].buffer
  BY <1>0 DEF Load, Executions
<1>4. CASE Take(w) \/ Prepass(w) \/ Gate(w) \/ ClaimLost(w) \/ CompileFails(w) \/ Build(w) \/ Refuse(w)
  BY <1>1, <1>2, <1>4 DEF Take, Prepass, Gate, ClaimLost, CompileFails, Build, Refuse
<1>5. CASE Claim(w) \/ Open(w) \/ Probe(w) \/ Crash(w)
  <2>1. CASE Claim(w) \/ Crash(w)
    <3>1. worker'[w].pc \in {"claimed", "idle"}
      <4>1. CASE Claim(w)
        BY <1>0, <4>1, EnteredFields DEF Claim
      <4>2. CASE Crash(w)
        BY <1>0, <4>2, IdleFields DEF Crash
      <4> QED BY <2>1, <4>1, <4>2
    <3> QED BY <3>1 DEF Resumed
  <2>2. CASE Open(w) \/ Probe(w)
    BY <1>1, <2>2 DEF Open, Probe
  <2> QED BY <1>5, <2>1, <2>2
<1>6. CASE Start(w)
  BY <1>0, <1>6 DEF Start, Resumed, Executions
<1>7. CASE StreamEnds(w)
  BY <1>0, <1>7 DEF StreamEnds, Resumed, Executions
<1>8. CASE Frame(w)
  BY <1>0, <1>8 DEF Frame, Resumed, Executions
<1>9. CASE Flush(w)
  BY <1>0, <1>3, <1>9 DEF Flush, Resumed, Executions
<1>10. CASE Append(w)
  BY <1>0, <1>10 DEF Append, Resumed, Idle
<1>11. CASE Finish(w) \/ Fail(w) \/ Raised(w) \/ ToolScan(w)
  BY <1>0, <1>1, <1>3, <1>11 DEF Finish, Fail, Raised, ToolScan, Resumed
<1>12. CASE Complete(w) \/ Failing(w) \/ Fallback(w)
  BY <1>2, <1>12 DEF Complete, Failing, Fallback
<1>13. CASE Publish(w) \/ ToolWrite(w) \/ CircuitBreak(w) \/ Retry(w)
  BY <1>1, <1>13 DEF Publish, ToolWrite, CircuitBreak, Retry, Resumed
<1> QED
  BY <1>4, <1>5, <1>6, <1>7, <1>8, <1>9, <1>10, <1>11, <1>12, <1>13 DEF Chat

\* Every step keeps the placement.
LEMMA PlacedStep == TypeOK /\ Placed /\ [Next]_vars => Placed'
<1> SUFFICES ASSUME TypeOK, Placed, [Next]_vars PROVE Placed'
  OBVIOUS
<1>0. /\ Resumes <=> \A w \in Workers : Resumed(worker[w])
      /\ Resumes' <=> \A w \in Workers : Resumed(worker'[w])
  BY DEF Resumes, Resumed
<1>1. CASE Request
  <2>1. Resumes' /\ Carries'
    BY <1>1 DEF Request, Dispatch, SendChat, SendRun, SendEnqueue, SendFails, RunStart, Stop, StopPublish,
                RequeueRead, RequeueWrite, RequeueEnqueue, swarm, Placed, Resumes, Carries
  <2>2. CASE SendChat \/ SendRun \/ SendEnqueue
    <3>1. CASE SendChat
      BY <2>1, <3>1 DEF SendChat, Placed, ChatRests, RunRests, swarm, None
    <3>2. CASE SendRun
      BY <2>1, <3>2 DEF SendRun, Placed, ChatRests, RunRests, swarm, None
    <3>3. CASE SendEnqueue
      BY <2>1, <3>3 DEF SendEnqueue, Placed, ChatRests, RunRests, swarm, message
    <3> QED BY <2>2, <3>1, <3>2, <3>3
  <2>3. CASE SendFails \/ RunStart \/ Stop \/ StopPublish
    BY <2>1, <2>3 DEF SendFails, RunStart, Stop, StopPublish, Placed, ChatRests, RunRests, swarm, message
  <2>4. ASSUME NEW r \in Requests, RequeueRead(r) \/ RequeueWrite(r) \/ RequeueEnqueue(r) PROVE Placed'
    BY <2>1, <2>4 DEF RequeueRead, RequeueWrite, RequeueEnqueue, Placed, ChatRests, RunRests, swarm, message
  <2> QED BY <1>1, <2>2, <2>3, <2>4 DEF Request, Dispatch
<1>2. ASSUME NEW w \in Workers, Chat(w) \/ Crash(w) \/ Redeliver(w) PROVE Placed'
  <2>1. owner = "chat"
    <3>1. worker[w].pc = "idle" => queue # 0
      BY <1>2 DEF Chat, Crash, Redeliver, Take, Prepass, Gate, Refuse, Claim, ClaimLost, CompileFails,
         Build, Start, Open, Frame, Probe, StreamEnds, Flush, Append, Finish, Complete, Fail, Failing,
         Publish, ToolScan, ToolWrite, CircuitBreak, Raised, Fallback, Retry
    <3> QED BY <3>1, IdleFields DEF Placed, ChatRests
  <2>2. CASE Chat(w) \/ Crash(w)
    <3>1. Resumes'
      BY <1>0, <2>2, ResumedStep, Alone DEF Placed
    <3> QED BY <2>1, <2>2, <3>1, Alone DEF Placed, ChatRests, RunRests, Carries
  <2>3. CASE Redeliver(w)
    BY <2>1, <2>3 DEF Redeliver, Aside, swarm, Placed, ChatRests, RunRests, Carries, Resumes
  <2> QED BY <1>2, <2>2, <2>3
<1>3. ASSUME RunRevived \/ \E p \in Writers : RunEnds(p) \/ Report(p) PROVE Placed'
  <2>1. Resumes' /\ ChatRests'
    <3>1. UNCHANGED <<worker, queue, sender, request, owner>>
      BY <1>3 DEF RunRevived, RunEnds, Report, SweepRun, WriterLoad, WriterWrite, WriterPublish, http,
                  message
    <3> QED BY <3>1 DEF Placed, Resumes, ChatRests
  <2>2. owner' = owner /\ sender' = sender
    BY <1>3 DEF RunRevived, RunEnds, Report, SweepRun, WriterLoad, WriterWrite, WriterPublish, http, message
  <2>3. CASE RunRevived
    BY <2>1, <2>3 DEF None, RunRevived, Placed, RunRests, Carries, http, message
  <2>4. ASSUME NEW p \in Writers, RunEnds(p) PROVE Placed'
    BY <2>1, <2>2, <2>4 DEF None, RunEnds, Placed, RunRests, Carries, TypeOK, WriteBacks
  <2>5. ASSUME NEW p \in Writers, Report(p) PROVE Placed'
    <3>1. Carries'
      BY <2>5 DEF Report, SweepRun, WriterLoad, WriterWrite, WriterPublish, Placed, Carries, TypeOK,
                  WriteBacks, NoWrite, Settled
    <3>2. run' = run
      BY <2>5 DEF Report, SweepRun, WriterLoad, WriterWrite, WriterPublish
    <3>3. writer[p].pc # "idle" \/ run # None
      BY <2>5 DEF Report, SweepRun, WriterLoad, WriterWrite, WriterPublish, None, Settled
    <3> QED BY <2>1, <2>2, <3>1, <3>2, <3>3 DEF Placed, RunRests
  <2> QED BY <1>3, <2>3, <2>4, <2>5
<1>4. CASE UNCHANGED vars
  BY <1>4 DEF vars, message, http, swarm, Placed, ChatRests, RunRests, Carries, Resumes
<1> QED BY <1>1, <1>2, <1>3, <1>4 DEF Next

\* Every step keeps the types.
LEMMA TypeStep == TypeOK /\ Placed /\ [Next]_vars => TypeOK'
<1>1. TypeOK /\ UNCHANGED vars => TypeOK'
  BY DEF TypeOK, vars, message, http, swarm
<1> QED BY <1>1, RequestTypes, ChatTypes, FaultTypes, ReportTypes DEF Next, Placed

\* The type invariant of MessageReply, with the place of every party.
THEOREM TypeCorrect == Spec => [](TypeOK /\ Placed)
  BY PlacedInit, PlacedStep, TypeStep, PTL DEF Spec

------------------------------------------------------------------------------
(* One stream *)

\* What becomes of the execution that takes a step.
LEMMA Moves ==
  ASSUME TypeOK, NEW w \in Workers
  PROVE  /\ \A pc : Step(w, pc) => worker'[w] = [worker[w] EXCEPT !.pc = pc]
         /\ \A pc : Step(w, pc) => worker'[w].pc = pc /\ worker'[w].owns = worker[w].owns
                                   /\ worker'[w].buffer = worker[w].buffer /\ worker'[w].text = worker[w].text
                                   /\ worker'[w].next = worker[w].next /\ worker'[w].row = worker[w].row
         /\ \A pc : Enter(w, pc) => worker'[w].pc = pc /\ worker'[w].owns = worker[w].owns
                                    /\ worker'[w].buffer = {}
         /\ Leave(w) => worker'[w].pc = "idle" /\ worker'[w].owns = FALSE
         /\ \A pc : Load(w, pc) => worker'[w].pc = pc /\ worker'[w].owns = worker[w].owns
                                   /\ worker'[w].row = status /\ worker'[w].text = body
                                   /\ worker'[w].buffer = worker[w].buffer
                                   /\ worker'[w].next = worker[w].next
         /\ \A e, pc : Announce(w, e, pc) =>
              worker'[w].pc = "publish" /\ worker'[w].owns = (e = "COMPLETED")
<1>0. worker \in [Workers -> Executions] /\ worker[w] \in Executions
  BY DEF TypeOK
<1>1. \A pc : Step(w, pc) => worker'[w] = [worker[w] EXCEPT !.pc = pc]
  BY <1>0 DEF Step
<1>2. \A pc : Step(w, pc) => worker'[w].pc = pc /\ worker'[w].owns = worker[w].owns
                             /\ worker'[w].buffer = worker[w].buffer /\ worker'[w].text = worker[w].text
                             /\ worker'[w].next = worker[w].next /\ worker'[w].row = worker[w].row
  <2> SUFFICES ASSUME NEW pc, Step(w, pc)
               PROVE  worker'[w].pc = pc /\ worker'[w].owns = worker[w].owns
                      /\ worker'[w].buffer = worker[w].buffer /\ worker'[w].text = worker[w].text
                      /\ worker'[w].next = worker[w].next /\ worker'[w].row = worker[w].row
    OBVIOUS
  <2>1. worker'[w] = [worker[w] EXCEPT !.pc = pc]
    BY <1>1
  <2> QED BY <1>0, <2>1 DEF Executions
<1>3. \A pc : Enter(w, pc) => worker'[w].pc = pc /\ worker'[w].owns = worker[w].owns
                              /\ worker'[w].buffer = {}
  BY <1>0, EnteredFields DEF Enter
<1>4. Leave(w) => worker'[w].pc = "idle" /\ worker'[w].owns = FALSE
  BY <1>0, IdleFields DEF Leave
<1>5. \A pc : Load(w, pc) => worker'[w].pc = pc /\ worker'[w].owns = worker[w].owns
                             /\ worker'[w].row = status /\ worker'[w].text = body
                             /\ worker'[w].buffer = worker[w].buffer
                             /\ worker'[w].next = worker[w].next
  BY <1>0 DEF Load, Executions
<1>6. \A e, pc : Announce(w, e, pc) =>
        worker'[w].pc = "publish" /\ worker'[w].owns = (e = "COMPLETED")
  <2> SUFFICES ASSUME NEW e, NEW pc, Announce(w, e, pc)
               PROVE  worker'[w].pc = "publish" /\ worker'[w].owns = (e = "COMPLETED")
    OBVIOUS
  <2>1. worker'[w] = [Idle EXCEPT !.pc = "publish", !.event = e, !.after = pc, !.owns = e = "COMPLETED"]
    BY <1>0 DEF Announce
  <2> QED BY <2>1 DEF Idle
<1> QED BY <1>1, <1>2, <1>3, <1>4, <1>5, <1>6

\* How a step of an execution changes the claim: it makes it on a message that waits,
\* keeps it, or gives it up; and it settles a message only for itself.
Claims(w) ==
  LET x == worker[w]
      y == worker'[w]
  IN  /\ blind' = {} => blind = {}
      /\ blind' = {} =>
           \/ /\ status \in {"PENDING", "PARTIAL"} /\ status' = "STREAMING"
              /\ y.owns /\ y.pc = "claimed"
           \/ /\ status' \in {"PARTIAL", "FAILED"} /\ ~y.owns /\ y.pc \notin Holding
              /\ status \in {"PENDING", "PARTIAL"} \/ x.owns
              /\ status # "CANCELLED"
           \/ /\ x.pc = "complete" /\ status # "CANCELLED" /\ status' = "COMPLETED"
              /\ y.pc = "publish" /\ y.owns
           \/ /\ x.pc \in {"open", "tool"} /\ status' = (IF status = "CANCELLED" THEN status ELSE "STREAMING")
              /\ y.pc \notin Holding \/ y.pc \in {"stream", "start"}
              /\ y.owns = x.owns
           \/ /\ status' = status /\ (y.owns => x.owns)
              /\ y.pc \in Writing => x.pc \in Writing
              /\ y.pc \in Holding => y.owns /\ (x.pc \in Holding \/ y.pc \in {"tool", "circuit"})

\* A step of one execution keeps its claim exclusive, unless it wrote on a row
\* that had changed.
LEMMA ClaimsStep ==
  ASSUME TypeOK, Placed, blind = {} => HoldersOwn, blind = {} => WritersStream,
         NEW w \in Workers, Chat(w) \/ Crash(w) \/ Redeliver(w)
  PROVE  Claims(w)
<1>0. worker \in [Workers -> Executions] /\ worker[w] \in Executions /\ Resumed(worker[w])
      /\ worker[w].owns \in BOOLEAN
  BY ExecutionFields DEF TypeOK, Placed, Resumes, Resumed
<1>1. blind = {} /\ worker[w].pc \in Holding => worker[w].owns
  BY DEF HoldersOwn
<1>m. blind = {} /\ worker[w].pc \in Writing => status \in {"STREAMING", "CANCELLED"}
  BY DEF WritersStream
<1> USE <1>0, <1>1, <1>m, Moves DEF Holding, Writing
<1>2. CASE Take(w) \/ Prepass(w) \/ Gate(w) \/ ClaimLost(w) \/ CompileFails(w)
  <2>1. worker'[w].pc \in {"prepass", "gate", "claim", "raised", "idle"}
    <3>1. CASE Take(w)
      BY <3>1 DEF Take
    <3>2. CASE Prepass(w) \/ Gate(w)
      BY <3>2 DEF Prepass, Gate
    <3>3. CASE ClaimLost(w) \/ CompileFails(w)
      BY <3>3 DEF ClaimLost, CompileFails
    <3> QED BY <1>2, <3>1, <3>2, <3>3
  <2>2. status' = status /\ blind' = blind
    BY <1>2 DEF Take, Prepass, Gate, ClaimLost, CompileFails, Row
  <2>3. worker'[w].owns => worker[w].owns
    BY <1>2 DEF Take, Prepass, Gate, ClaimLost, CompileFails
  <2> QED BY <2>1, <2>2, <2>3 DEF Claims
<1>3. CASE Build(w)
  BY <1>3 DEF Build, Claims, Row
<1>4. CASE Refuse(w)
  <2> DEFINE new == TerminalStatus(IF IsEmpty(worker[w].text) THEN 0 ELSE 1)
  <2>1. new \in {"PARTIAL", "FAILED"}
    BY DEF TerminalStatus
  <2>2. blind' = {} => blind = {} /\ worker[w].row = status /\ status \in {"PENDING", "PARTIAL", "STREAMING"}
                       /\ (status = "STREAMING" => worker[w].pc = "unsupported")
    BY <1>4 DEF Refuse
  <2>3. blind' = {} => status' = new
    BY <1>4, <2>1, <2>2 DEF Refuse, StatusSet
  <2>4. worker'[w].pc = "publish" /\ worker'[w].owns = FALSE
    BY <1>4, <2>1 DEF Refuse
  <2> HIDE DEF new
  <2> QED BY <2>1, <2>2, <2>3, <2>4 DEF Claims
<1>5. CASE Claim(w)
  <2>1. worker'[w].pc = "claimed" /\ worker'[w].owns = TRUE
    BY <1>5, EnteredFields DEF Claim
  <2> QED BY <1>5, <2>1 DEF Claim, Late, Claims
<1>6. CASE Start(w)
  <2>1. worker'[w].pc \in {"tools", "open"} /\ worker'[w].owns = worker[w].owns
    BY <1>6 DEF Start, Executions
  <2> QED BY <1>6, <2>1 DEF Start, Row, Claims
<1>7. CASE Open(w)
  BY <1>7 DEF Open, StatusSet, Claims
<1>8. CASE Frame(w)
  <2>1. worker'[w].pc \in {"stream", "flush"} /\ worker'[w].owns = worker[w].owns
    BY <1>8 DEF Frame, Executions
  <2> QED BY <1>8, <2>1 DEF Frame, Row, Claims
<1>9. CASE Probe(w)
  BY <1>9 DEF Probe, Row, Claims
<1>10. CASE StreamEnds(w)
  <2>1. worker'[w].pc \in {"finish", "fail", "flush"} /\ worker'[w].owns = worker[w].owns
    <3>1. PICK next \in {"finish", "fail"} :
            worker' = [worker EXCEPT ![w].pc = IF worker[w].buffer = {} THEN next ELSE "flush",
                                     ![w].after = next]
      BY <1>10 DEF StreamEnds
    <3> QED BY <3>1 DEF Executions
  <2> QED BY <1>10, <2>1 DEF StreamEnds, Row, Claims
<1>11. CASE Flush(w)
  <2>1. worker'[w].pc \in {"fail", "tools", "append"} /\ worker'[w].owns = worker[w].owns
    <3>1. CASE status = "CANCELLED"
      BY <1>11, <3>1 DEF Flush, Executions
    <3>2. CASE status # "CANCELLED"
      BY <1>11, <3>2 DEF Flush
    <3> QED BY <3>1, <3>2
  <2> QED BY <1>11, <2>1 DEF Flush, Row, Claims
<1>12. CASE Append(w)
  <2>1. worker'[w].pc \in {"stream", "finish", "fail"} /\ worker'[w].owns = worker[w].owns
    BY <1>12 DEF Append, Resumed, Idle
  <2> QED BY <1>12, <2>1 DEF Append, Claims
<1>13. CASE Finish(w) \/ Fail(w) \/ Raised(w)
  <2>1. CASE Finish(w)
    BY <2>1 DEF Finish, Row, Claims
  <2>2. CASE Fail(w)
    BY <2>2 DEF Fail, Row, Claims
  <2>3. CASE Raised(w)
    <3>1. worker'[w].pc \in {"fallback", "retry"} /\ worker'[w].owns = worker[w].owns
      BY <2>3 DEF Raised
    <3>2. status' = status /\ blind' = blind
      BY <2>3 DEF Raised, Row
    <3> QED BY <3>1, <3>2 DEF Claims
  <2> QED BY <1>13, <2>1, <2>2, <2>3
<1>14. CASE Complete(w)
  <2> DEFINE new == IF IsEmpty(worker[w].text) THEN "FAILED" ELSE "COMPLETED"
  <2>1. blind' = {} => blind = {} /\ worker[w].row = status
    BY <1>14 DEF Complete, Late
  <2>2. worker'[w].pc = "publish" /\ worker'[w].owns = (new = "COMPLETED") /\ status' = new
    BY <1>14 DEF Complete
  <2>3. worker[w].pc = "complete" /\ worker[w].row # "CANCELLED"
    BY <1>14 DEF Complete, Resumed
  <2>4. new = "FAILED" \/ new = "COMPLETED"
    OBVIOUS
  <2> HIDE DEF new
  <2> QED BY <2>1, <2>2, <2>3, <2>4 DEF Claims
<1>15. CASE Failing(w)
  <2>1. TerminalStatus(worker[w].next) \in {"PARTIAL", "FAILED"}
    BY DEF TerminalStatus
  <2>2. blind' = {} => blind = {} /\ worker[w].row = status
    BY <1>15 DEF Failing, Late
  <2>3. worker[w].pc = "failing" /\ worker[w].row # "CANCELLED"
    BY <1>15 DEF Failing, Resumed
  <2> QED BY <1>15, <2>1, <2>2, <2>3 DEF Failing, Claims
<1>16. CASE Publish(w)
  <2>1. worker[w].after \in {"idle", "tools", "raised", "retry"}
    BY <1>16 DEF Publish, Resumed
  <2> QED BY <1>16, <2>1 DEF Publish, Row, Claims
<1>17. CASE ToolScan(w)
  BY <1>17 DEF ToolScan, Row, Claims
<1>18. CASE ToolWrite(w)
  <2>1. worker[w].pc = "tool" /\ blind' = blind
    BY <1>18 DEF ToolWrite
  <2>2. CASE status' = status /\ Enter(w, "raised")
    BY <2>1, <2>2 DEF Claims
  <2>3. CASE status' = StatusSet(status, "STREAMING") /\ Enter(w, "start")
    BY <2>1, <2>3 DEF StatusSet, Claims
  <2> QED BY <1>18, <2>2, <2>3 DEF ToolWrite, Row
<1>19. CASE CircuitBreak(w)
  BY <1>19 DEF CircuitBreak, Claims
<1>20. CASE Fallback(w)
  <2> DEFINE new == TerminalStatus(IF IsEmpty(worker[w].text) THEN 0 ELSE 1)
  <2>1. new \in {"PARTIAL", "FAILED"}
    BY DEF TerminalStatus
  <2>2. blind' = {} => blind = {} /\ worker[w].row = status /\ (status = "STREAMING" => worker[w].owns)
    BY <1>20 DEF Fallback
  <2>3. worker[w].row \in {"PENDING", "STREAMING"}
    BY <1>20 DEF Fallback, Resumed
  <2>4. worker'[w].pc = "publish" /\ worker'[w].owns = FALSE /\ status' = new
    BY <1>20, <2>1 DEF Fallback
  <2> HIDE DEF new
  <2> QED BY <2>1, <2>2, <2>3, <2>4 DEF Claims
<1>21. CASE Retry(w)
  BY <1>21 DEF Retry, Row, Claims
<1>22. CASE Crash(w)
  BY <1>22, IdleFields DEF Crash, Row, Claims
<1>23. CASE Redeliver(w)
  BY <1>23 DEF Redeliver, Row, Claims
<1> QED
  BY <1>2, <1>3, <1>4, <1>5, <1>6, <1>7, <1>8, <1>9, <1>10, <1>11, <1>12, <1>13, <1>14, <1>15,
     <1>16, <1>17, <1>18, <1>19, <1>20, <1>21, <1>22, <1>23 DEF Chat

------------------------------------------------------------------------------
\* What a step outside the executions does to a reply: a message that nobody holds
\* is failed or queued again, or the user stops it.
LEMMA RequestMoves ==
  ASSUME TypeOK, Placed, owner # "run",
         Request \/ RunRevived \/ (\E p \in Writers : RunEnds(p) \/ Report(p)) \/ UNCHANGED vars
  PROVE  /\ worker' = worker /\ chunks' = chunks /\ body' = body /\ hash' = hash
         /\ blind' = {} => blind = {}
         /\ blind' = {} => \/ status' = status
                           \/ status' = "CANCELLED"
                           \/ status \in {"PENDING", "FAILED"} /\ status' \in {"PENDING", "FAILED"}
<1>1. CASE Dispatch \/ SendEnqueue \/ Stop \/ StopPublish
  BY <1>1 DEF Dispatch, SendChat, SendRun, SendEnqueue, Stop, StopPublish, message
<1>2. CASE SendFails
  BY <1>2 DEF SendFails
<1>3. CASE RunStart
  BY <1>3 DEF RunStart, Placed, RunRests
<1>4. ASSUME NEW r \in Requests, RequeueRead(r) \/ RequeueEnqueue(r)
      PROVE  UNCHANGED <<worker, chunks, body, hash, blind, status>>
  BY <1>4 DEF RequeueRead, RequeueEnqueue, message
<1>5. ASSUME NEW r \in Requests, RequeueWrite(r)
      PROVE  /\ UNCHANGED <<worker, chunks, body, hash>> /\ (blind' = {} => blind = {})
             /\ blind' = {} => status' = status \/ (status = "FAILED" /\ status' = "PENDING")
  BY <1>5 DEF RequeueWrite
<1>6. ~RunRevived /\ ~(\E p \in Writers : RunEnds(p) \/ Report(p))
  BY DEF RunRevived, RunEnds, Report, SweepRun, WriterLoad, WriterWrite, WriterPublish, Placed,
         RunRests, None, Settled
<1>7. CASE UNCHANGED vars
  BY <1>7 DEF vars, message
<1> QED BY <1>1, <1>2, <1>3, <1>4, <1>5, <1>6, <1>7 DEF Request

\* Every step keeps the claim.
LEMMA ClaimedStep == TypeOK /\ Placed /\ Claimed /\ [Next]_vars => Claimed'
<1> SUFFICES ASSUME TypeOK, Placed, Claimed, [Next]_vars PROVE Claimed'
  OBVIOUS
<1>1. ASSUME NEW w \in Workers, Chat(w) \/ Crash(w) \/ Redeliver(w) PROVE Claimed'
  <2> SUFFICES ASSUME blind' = {} PROVE (OneClaim /\ HoldersOwn /\ OwnedStatus /\ WritersStream)'
    BY DEF Claimed
  <2>1. Claims(w)
    BY <1>1, ClaimsStep DEF Claimed
  <2>2. blind = {} /\ OneClaim /\ HoldersOwn /\ OwnedStatus /\ WritersStream
    BY <2>1 DEF Claims, Claimed
  <2>3. \A v \in Workers \ {w} : worker'[v] = worker[v]
    <3>1. CASE Chat(w) \/ Crash(w)
      BY <3>1, Alone
    <3>2. CASE Redeliver(w)
      BY <3>2 DEF Redeliver
    <3> QED BY <1>1, <3>1, <3>2
  <2>4. \/ \A v \in Workers : ~worker[v].owns
        \/ worker[w].owns /\ \A v \in Workers \ {w} : ~worker[v].owns
        \/ ~worker'[w].owns /\ status' = status /\ worker'[w].pc \notin Holding
        \/ /\ ~worker'[w].owns /\ worker'[w].pc \notin Holding
           /\ \A v \in Workers : ~worker[v].owns
    <3> QED BY <2>1, <2>2 DEF Claims, OneClaim, HoldersOwn, OwnedStatus, Holding, Writing
  <2>5. OneClaim' /\ HoldersOwn'
    BY <2>1, <2>2, <2>3, <2>4 DEF Claims, OneClaim, HoldersOwn, OwnedStatus, Holding, Writing
  <2>6. OwnedStatus' /\ WritersStream'
    BY <2>1, <2>2, <2>3, <2>4 DEF Claims, OneClaim, HoldersOwn, OwnedStatus, WritersStream, Holding, Writing
  <2> QED BY <2>5, <2>6
<1>2. ASSUME Request \/ RunRevived \/ (\E p \in Writers : RunEnds(p) \/ Report(p)) \/ UNCHANGED vars
      PROVE  Claimed'
  <2>1. CASE owner # "run"
    BY <1>2, <2>1, RequestMoves DEF Claimed, OneClaim, HoldersOwn, OwnedStatus, WritersStream, Holding, Writing
  <2>2. CASE owner = "run"
    <3>1. worker' = worker /\ \A w \in Workers : worker[w] = Idle
      BY <1>2, <2>2 DEF Request, Dispatch, SendChat, SendRun, SendEnqueue, SendFails, RunStart, Stop,
         StopPublish, RequeueRead, RequeueWrite, RequeueEnqueue, RunRevived, RunEnds, Report, SweepRun,
         WriterLoad, WriterWrite, WriterPublish, vars, Placed, ChatRests
    <3> QED BY <3>1, IdleFields DEF Claimed, OneClaim, HoldersOwn, OwnedStatus, WritersStream, Holding, Writing
  <2> QED BY <2>1, <2>2
<1> QED BY <1>1, <1>2 DEF Next

\* No claim stands at first.
LEMMA ClaimedInit == Init => Claimed
  BY IdleFields DEF Init, Claimed, OneClaim, HoldersOwn, OwnedStatus, WritersStream, Holding, Writing

\* The claim is exclusive throughout.
LEMMA ClaimHolds == Spec => [](TypeOK /\ Placed /\ Claimed)
  BY PlacedInit, PlacedStep, TypeStep, ClaimedInit, ClaimedStep, PTL DEF Spec

\* At most one execution streams into a reply, for any number of deliveries, retries and
\* redeliveries: a claim is made on a message that nobody holds.
THEOREM OneStreamAtATime == Spec => []OneStream
<1>1. Claimed => OneStream
  BY DEF Claimed, OneStream, OneClaim, HoldersOwn, Streaming, Holding
<1> QED BY <1>1, ClaimHolds, PTL

\* A stop is final: only a write that relied on what it had read before overturns it.
THEOREM CancelIsRespected == Spec => CancelHolds
<1>1. TypeOK /\ Placed /\ Claimed /\ [Next]_vars =>
        [owner = "chat" /\ status = "CANCELLED" /\ status' # "CANCELLED" => blind' # {}]_vars
  <2> SUFFICES ASSUME TypeOK, Placed, Claimed, [Next]_vars, owner = "chat", status = "CANCELLED", blind' = {}
               PROVE  status' = "CANCELLED"
    OBVIOUS
  <2>1. ASSUME NEW w \in Workers, Chat(w) \/ Crash(w) \/ Redeliver(w) PROVE status' = "CANCELLED"
    BY <2>1, ClaimsStep DEF Claims, Claimed
  <2>2. CASE Request \/ RunRevived \/ (\E p \in Writers : RunEnds(p) \/ Report(p)) \/ UNCHANGED vars
    BY <2>2, RequestMoves
  <2> QED BY <2>1, <2>2 DEF Next
<1> QED BY <1>1, ClaimHolds, PTL DEF Spec, CancelHolds

------------------------------------------------------------------------------
(* The frames *)

\* A step of the holder continues the stored frames.
LEMMA ContinuesStep ==
  ASSUME TypeOK, Placed, Claimed, Numbered, NEW w \in Workers, Chat(w) \/ Crash(w) \/ Redeliver(w),
         blind' = {}
  PROVE  /\ Continues(worker[w])'
         /\ \E k \in 0..MaxFrames : chunks' = 0..(k - 1)
         /\ chunks' = chunks \/ worker[w].pc = "append"
<1> DEFINE x == worker[w]
           y == worker'[w]
           Silent == {"idle", "prepass", "gate", "claim", "claimed", "unsupported", "publish", "tools",
                      "tool", "circuit", "raised", "fallback", "retry"}
<1>0. worker \in [Workers -> Executions] /\ x \in Executions /\ Resumed(x) /\ x.next \in 0..MaxFrames
  BY ExecutionFields DEF TypeOK, Placed, Resumes, Resumed
<1>1. blind = {} /\ Continues(x) /\ MaxFrames \in Nat
  BY ClaimsStep, FramesAssumption DEF Claims, Claimed, Numbered
<1>2. PICK k \in 0..MaxFrames : chunks = 0..(k - 1)
  BY <1>1 DEF Numbered
<1>3. y.pc \in Silent => Continues(x)'
  BY DEF Continues
<1>4. SUFFICES ASSUME ~Append(w)
               PROVE  Continues(x)' /\ chunks' = chunks
  <2>1. ASSUME Append(w) PROVE Continues(x)' /\ chunks' = 0..(x.next - 1)
    <3>1. chunks' = chunks \cup x.buffer /\ x.pc = "append"
      BY <2>1 DEF Append
    <3>2. y.next = x.next /\ y.buffer = {}
      BY <1>0, <2>1 DEF Append, Idle
    <3> QED BY <1>1, <3>1, <3>2 DEF Continues
  <2>2. ASSUME Append(w) PROVE x.pc = "append"
    BY <2>2 DEF Append
  <2> QED BY <1>0, <1>2, <2>1, <2>2
<1>5. chunks' = chunks
  BY <1>4 DEF Chat, Crash, Redeliver, Take, Prepass, Gate, Refuse, Claim, ClaimLost, CompileFails,
     Build, Start, Open, Frame, Probe, StreamEnds, Flush, Finish, Complete, Fail, Failing,
     Publish, ToolScan, ToolWrite, CircuitBreak, Raised, Fallback, Retry, Row
<1>6. CASE Take(w) \/ Prepass(w) \/ Gate(w) \/ ClaimLost(w) \/ CompileFails(w) \/ Claim(w) \/ Refuse(w)
  <2>1. Take(w) => y.pc = "prepass"
    BY Moves DEF Take
  <2>2. Prepass(w) => y.pc = "gate"
    BY Moves DEF Prepass
  <2>4. Gate(w) => y.pc = "claim"
    BY Moves DEF Gate
  <2>5. Refuse(w) => y.pc = "publish"
    BY Moves DEF Refuse
  <2>6. ClaimLost(w) => y.pc = "idle"
    BY Moves DEF ClaimLost
  <2>7. CompileFails(w) => y.pc = "raised"
    BY Moves DEF CompileFails
  <2>3. CASE Claim(w)
    BY <1>0, <1>3, <2>3, EnteredFields DEF Claim
  <2> QED BY <1>3, <1>5, <1>6, <2>1, <2>2, <2>3, <2>4, <2>5, <2>6, <2>7
<1>7. CASE Build(w)
  <2>1. y.pc \in Silent \/ (y.pc = "start" /\ y.buffer = {})
    BY <1>7, Moves DEF Build
  <2> QED BY <1>3, <1>5, <2>1 DEF Continues
<1>8. CASE Start(w)
  <2>1. x.pc = "start" /\ x.buffer = {}
    BY <1>1, <1>8 DEF Start, Continues
  <2>2. y.pc \in {"tools", "open"} /\ y.buffer = {} /\ y.next = Cardinality(chunks)
    BY <1>0, <1>8, <2>1 DEF Start, Executions
  <2>3. Cardinality(chunks) = k
    BY <1>2, FrameNumbers
  <2> QED BY <1>2, <1>3, <1>5, <2>2, <2>3 DEF Continues
<1>9. CASE Open(w)
  <2>1. x.pc = "open" /\ y.pc = "stream" /\ y.buffer = x.buffer /\ y.next = x.next
    BY <1>9, Moves DEF Open
  <2> QED BY <1>1, <1>5, <2>1 DEF Continues
<1>10. CASE Frame(w)
  <2>1. x.pc = "stream" /\ y.pc \in {"stream", "flush"}
        /\ y.buffer = x.buffer \cup {x.next} /\ y.next = x.next + 1
    BY <1>0, <1>10 DEF Frame, Executions
  <2>2. chunks \cup x.buffer = 0..(x.next - 1)
    BY <1>1, <2>1 DEF Continues
  <2>3. (0..(x.next - 1)) \cup {x.next} = 0..((x.next + 1) - 1)
    BY <1>0
  <2>4. chunks' \cup y.buffer = 0..(y.next - 1)
    BY <1>5, <2>1, <2>2, <2>3
  <2> QED BY <1>5, <2>1, <2>4 DEF Continues
<1>11. CASE Probe(w)
  BY <1>3, <1>5, <1>11, Moves DEF Probe
<1>12. CASE StreamEnds(w)
  <2>1. PICK next \in {"finish", "fail"} :
          worker' = [worker EXCEPT ![w].pc = IF worker[w].buffer = {} THEN next ELSE "flush",
                                   ![w].after = next]
    BY <1>12 DEF StreamEnds
  <2>2. y.buffer = x.buffer /\ y.next = x.next
    BY <1>0, <2>1 DEF Executions
  <2>3. y.pc = "flush" \/ (y.pc \in {"finish", "fail"} /\ y.buffer = {})
    BY <1>0, <2>1 DEF Executions
  <2>4. x.pc = "stream"
    BY <1>12 DEF StreamEnds
  <2>5. chunks \cup x.buffer = 0..(x.next - 1)
    BY <1>1, <2>4 DEF Continues
  <2> QED BY <1>5, <2>2, <2>3, <2>5 DEF Continues
<1>13. CASE Flush(w)
  <2>0. x.pc = "flush" /\ status' = status
    BY <1>13 DEF Flush, Row
  <2>1. CASE status = "CANCELLED"
    <3>1. y.buffer = {} /\ y.pc \in {"fail", "tools"}
      BY <1>0, <1>13, <2>1 DEF Flush, Executions
    <3> QED BY <1>5, <2>0, <2>1, <3>1 DEF Continues
  <2>2. CASE status # "CANCELLED"
    <3>1. y.pc = "append" /\ y.buffer = x.buffer /\ y.next = x.next
      BY <1>13, <2>2, Moves DEF Flush
    <3> QED BY <1>1, <1>5, <2>0, <3>1 DEF Continues
  <2> QED BY <2>1, <2>2
<1>14. CASE Finish(w) \/ Fail(w)
  <2>1. \/ y.pc \in Silent
        \/ /\ y.pc \in {"complete", "failing"} /\ y.buffer = x.buffer /\ y.next = x.next
           /\ x.pc \in {"finish", "fail"} /\ status # "CANCELLED"
    BY <1>14, Moves DEF Finish, Fail
  <2> QED BY <1>1, <1>3, <1>5, <2>1 DEF Continues
<1>15. CASE Complete(w) \/ Failing(w) \/ Fallback(w) \/ ToolScan(w)
  BY <1>3, <1>5, <1>15, Moves DEF Complete, Failing, Fallback, ToolScan
<1>16. CASE Publish(w)
  <2>1. x.after \in {"idle", "tools", "raised", "retry"}
    BY <1>0, <1>16 DEF Publish, Resumed
  <2> QED BY <1>3, <1>5, <1>16, <2>1, Moves DEF Publish
<1>17. CASE ToolWrite(w)
  <2>1. y.pc = "raised" \/ (y.pc = "start" /\ y.buffer = {})
    BY <1>17, Moves DEF ToolWrite
  <2> QED BY <1>3, <1>5, <2>1 DEF Continues
<1>18. CASE CircuitBreak(w) \/ Raised(w) \/ Retry(w)
  BY <1>3, <1>5, <1>18, Moves DEF CircuitBreak, Raised, Retry
<1>19. CASE Crash(w)
  BY <1>0, <1>3, <1>5, <1>19, IdleFields DEF Crash
<1>20. CASE Redeliver(w)
  BY <1>1, <1>5, <1>20 DEF Redeliver, Row, Continues
<1> QED
  BY <1>4, <1>6, <1>7, <1>8, <1>9, <1>10, <1>11, <1>12, <1>13, <1>14, <1>15, <1>16, <1>17, <1>18,
     <1>19, <1>20 DEF Chat

\* Every step keeps the frames in order.
LEMMA NumberedStep == TypeOK /\ Placed /\ Claimed /\ Numbered /\ [Next]_vars => Numbered'
<1> SUFFICES ASSUME TypeOK, Placed, Claimed, Numbered, [Next]_vars, blind' = {}
             PROVE  /\ \E k \in 0..MaxFrames : chunks' = 0..(k - 1)
                    /\ \A w \in Workers : Continues(worker[w])'
  BY DEF Numbered
<1>1. ASSUME NEW w \in Workers, Chat(w) \/ Crash(w) \/ Redeliver(w)
      PROVE  /\ \E k \in 0..MaxFrames : chunks' = 0..(k - 1)
             /\ \A v \in Workers : Continues(worker[v])'
  <2>1. blind = {} /\ (status = "CANCELLED" => status' = "CANCELLED")
    BY <1>1, ClaimsStep DEF Claims, Claimed
  <2>2. ASSUME NEW v \in Workers \ {w} PROVE Continues(worker[v])'
    <3>1. worker'[v] = worker[v]
      <4>1. CASE Chat(w) \/ Crash(w)
        BY <4>1, Alone
      <4>2. CASE Redeliver(w)
        BY <4>2 DEF Redeliver
      <4> QED BY <1>1, <4>1, <4>2
    <3>2. chunks' = chunks \/ worker[v].pc \notin Holding
      BY <1>1, <2>1, ContinuesStep DEF Claimed, OneClaim, HoldersOwn, Holding
    <3>3. CASE worker[v].pc \notin Holding
      BY <3>1, <3>3 DEF Continues, Holding
    <3>4. CASE chunks' = chunks
      BY <2>1, <3>1, <3>4 DEF Numbered, Continues
    <3> QED BY <3>2, <3>3, <3>4
  <2> QED BY <1>1, <2>2, ContinuesStep
<1>2. CASE Request \/ RunRevived \/ (\E p \in Writers : RunEnds(p) \/ Report(p)) \/ UNCHANGED vars
  <2>1. CASE owner # "run"
    <3>1. worker' = worker /\ chunks' = chunks /\ blind = {} /\ (status = "CANCELLED" => status' = "CANCELLED")
      BY <1>2, <2>1, RequestMoves
    <3> QED BY <3>1 DEF Numbered, Continues
  <2>2. CASE owner = "run"
    <3>1. worker' = worker /\ chunks' = chunks /\ (blind' = {} => blind = {})
          /\ \A w \in Workers : worker[w] = Idle
      BY <1>2, <2>2 DEF Request, Dispatch, SendChat, SendRun, SendEnqueue, SendFails, RunStart, Stop,
         StopPublish, RequeueRead, RequeueWrite, RequeueEnqueue, RunRevived, RunEnds, Report, SweepRun,
         WriterLoad, WriterWrite, WriterPublish, vars, message, Placed, ChatRests
    <3> QED BY <3>1, IdleFields DEF Numbered, Continues
  <2> QED BY <2>1, <2>2
<1> QED BY <1>1, <1>2 DEF Next

\* There are no frames at first.
LEMMA NumberedInit == Init => Numbered
<1> SUFFICES ASSUME Init PROVE Numbered
  OBVIOUS
<1>1. chunks = 0..(0 - 1) /\ 0 \in 0..MaxFrames
  BY FramesAssumption DEF Init
<1>2. \A w \in Workers : worker[w] = Idle
  BY DEF Init
<1> QED BY <1>1, <1>2, IdleFields DEF Numbered, Continues

\* Every frame the subscribers saw is stored when the reply completes.
THEOREM FramesAreKept == Spec => []NoFrameLost
<1>1. Numbered => NoFrameLost
  BY DEF Numbered, NoFrameLost, Continues
<1> QED BY <1>1, ClaimHolds, NumberedInit, NumberedStep, PTL DEF Spec

------------------------------------------------------------------------------
(* The text and its hash *)

\* How a step of an execution changes the text: only with the claim, and from what is there.
Texts(w) ==
  LET x == worker[w]
      y == worker'[w]
  IN  /\ \/ /\ UNCHANGED <<body, hash, chunks>>
            /\ status' = "COMPLETED" => status = "COMPLETED"
         \/ /\ x.pc = "complete" /\ x.owns /\ UNCHANGED <<body, chunks>>
            /\ hash' = body \/ (hash' = hash /\ status' = "FAILED")
         \/ /\ x.pc = "append" /\ x.owns /\ UNCHANGED <<hash, status>>
            /\ chunks' = chunks \cup x.buffer
            /\ body'.len = body.len + Cardinality(x.buffer \ chunks)
         \/ /\ x.pc \in {"tool", "circuit"} /\ x.owns /\ UNCHANGED chunks
            /\ body' = Marked(body) /\ hash' = body' /\ body.fence # None
      /\ y.pc \in Loaded => x.pc \notin {"append", "tool", "circuit"}
      /\ y.pc \in Loaded => y.text = body \/ ~y.owns

\* A step of the holder keeps what it has loaded, and the hash, in line with the row.
LEMMA TextsStep ==
  ASSUME TypeOK, Placed, Claimed, Hashed, NEW w \in Workers, Chat(w) \/ Crash(w), blind' = {},
         owner # "run"
  PROVE  Texts(w)
<1> DEFINE x == worker[w]
           y == worker'[w]
<1>0. worker \in [Workers -> Executions] /\ x \in Executions /\ Resumed(x) /\ x.owns \in BOOLEAN
  BY ExecutionFields DEF TypeOK, Placed, Resumes, Resumed
<1>1. blind = {} /\ (x.pc \in Holding => x.owns) /\ (x.pc \in Loaded /\ x.owns => x.text = body)
  BY ClaimsStep DEF Claims, Claimed, HoldersOwn, Hashed, HoldersRead
<1>c. x.pc # "complete" \/ y.pc # "publish" => (status' = "COMPLETED" => status = "COMPLETED")
  BY ClaimsStep DEF Claims, Claimed
<1>2. CASE Append(w)
  <2>1. x.pc = "append" /\ x.owns /\ x.text = body
    BY <1>1, <1>2 DEF Append, Holding, Loaded
  <2>2. chunks' = chunks \cup x.buffer /\ UNCHANGED <<hash, status>>
    BY <1>2 DEF Append
  <2>3. body' = [body EXCEPT !.len = body.len + Cardinality(x.buffer \ chunks),
                             !.fence = IF x.fence = None THEN body.fence ELSE x.fence]
    BY <1>2, <2>1 DEF Append
  <2>4. body'.len = body.len + Cardinality(x.buffer \ chunks)
    <3> DEFINE n == body.len + Cardinality(x.buffer \ chunks)
               f == IF x.fence = None THEN body.fence ELSE x.fence
    <3>1. body' = [body EXCEPT !.len = n, !.fence = f]
      BY <2>3
    <3>2. body \in [len : Nat, marks : [Calls -> Nat], fence : Calls \cup {None}]
      BY DEF TypeOK, Bodies
    <3> HIDE DEF n, f
    <3>3. body'.len = n
      BY <3>1, <3>2
    <3> QED BY <3>3 DEF n
  <2>5. y.pc \in {"stream", "finish", "fail"}
    BY <1>0, <1>2 DEF Append, Resumed, Idle
  <2> QED BY <2>1, <2>2, <2>4, <2>5 DEF Texts, Loaded
<1>3. CASE ToolWrite(w) \/ CircuitBreak(w)
  <2>1. x.pc \in {"tool", "circuit"} /\ x.owns /\ x.text = body
    BY <1>1, <1>3 DEF ToolWrite, CircuitBreak, Holding, Loaded
  <2>2. y.pc \in {"raised", "start", "idle"}
    BY <1>3, Moves DEF ToolWrite, CircuitBreak
  <2>3. body.fence # None
    BY <1>0, <2>1 DEF Resumed
  <2>4. chunks' = chunks
    BY <1>3 DEF ToolWrite, CircuitBreak, Row
  <2>5. UNCHANGED <<body, hash>> \/ (body' = Marked(body) /\ hash' = body')
    BY <1>3, <2>1 DEF ToolWrite, CircuitBreak, Row
  <2> QED BY <1>c, <2>1, <2>2, <2>3, <2>4, <2>5 DEF Texts, Loaded
<1>4. CASE Complete(w)
  <2>1. x.pc = "complete" /\ x.owns /\ x.text = body
    BY <1>1, <1>4 DEF Complete, Holding, Loaded
  <2>2. y.pc = "publish"
    BY <1>4, Moves DEF Complete
  <2>3. UNCHANGED <<body, chunks>> /\ (hash' = body \/ (hash' = hash /\ status' = "FAILED"))
    BY <1>4, <2>1 DEF Complete
  <2> QED BY <2>1, <2>2, <2>3 DEF Texts, Loaded
<1>5. CASE ~Append(w) /\ ~ToolWrite(w) /\ ~CircuitBreak(w) /\ ~Complete(w)
  <2>1. UNCHANGED <<body, hash, chunks>>
    BY <1>5 DEF Chat, Crash, Take, Prepass, Gate, Refuse, Claim, ClaimLost, CompileFails,
       Build, Start, Open, Frame, Probe, StreamEnds, Flush, Finish, Fail, Failing,
       Publish, ToolScan, Raised, Fallback, Retry, Row
  <2>2. x.pc \notin {"append", "tool", "circuit", "complete"} \/ y.pc = "idle"
    <3>1. CASE Crash(w)
      BY <1>0, <3>1, IdleFields DEF Crash
    <3>2. CASE Chat(w)
      BY <1>5, <3>2 DEF Chat, Take, Prepass, Gate, Refuse, Claim, ClaimLost, CompileFails,
       Build, Start, Open, Frame, Probe, StreamEnds, Flush, Finish, Fail, Failing,
       Publish, ToolScan, Raised, Fallback, Retry
    <3> QED BY <3>1, <3>2
  <2>3. y.pc \in Loaded => y.text = body
    <3>1. CASE Take(w) \/ Prepass(w) \/ Gate(w)
      <4>1. Take(w) => y.pc = "prepass"
        BY Moves DEF Take
      <4>2. Prepass(w) => y.pc = "gate"
        BY Moves DEF Prepass
      <4>3. Gate(w) => y.pc = "claim"
        BY Moves DEF Gate
      <4> QED BY <3>1, <4>1, <4>2, <4>3 DEF Loaded
    <3>2. CASE Refuse(w) \/ ClaimLost(w)
      BY <3>2, Moves DEF Refuse, ClaimLost, Loaded
    <3>3. CASE CompileFails(w)
      <4>1. y.pc = "raised"
        BY <3>3, Moves DEF CompileFails
      <4> QED BY <4>1 DEF Loaded
    <3>4. CASE Build(w)
      <4>1. y.pc \in {"start", "raised"} \/ y.text = body
        BY <3>4, Moves DEF Build
      <4> QED BY <4>1 DEF Loaded
    <3>5. CASE Claim(w)
      BY <1>0, <3>5, EnteredFields DEF Claim, Loaded
    <3>6. CASE Start(w)
      <4>1. y.pc \in {"tools", "open"}
        BY <1>0, <3>6 DEF Start, Executions
      <4> QED BY <4>1 DEF Loaded
    <3>7. CASE Open(w) \/ Probe(w)
      <4>1. y.pc \in {"stream", "tools"}
        BY <3>7, Moves DEF Open, Probe
      <4> QED BY <4>1 DEF Loaded
    <3>8. CASE Frame(w)
      <4>1. y.pc \in {"stream", "flush"}
        BY <1>0, <3>8 DEF Frame, Executions
      <4> QED BY <4>1 DEF Loaded
    <3>9. CASE StreamEnds(w)
      <4>1. PICK next \in {"finish", "fail"} :
              worker' = [worker EXCEPT ![w].pc = IF worker[w].buffer = {} THEN next ELSE "flush",
                                       ![w].after = next]
        BY <3>9 DEF StreamEnds
      <4>2. y.pc \in {"finish", "fail", "flush"}
        BY <1>0, <4>1 DEF Executions
      <4> QED BY <4>2 DEF Loaded
    <3>10. CASE Flush(w)
      <4>1. CASE status = "CANCELLED"
        <5>1. y.pc \in {"fail", "tools"}
          BY <1>0, <3>10, <4>1 DEF Flush, Executions
        <5> QED BY <5>1 DEF Loaded
      <4>2. CASE status # "CANCELLED"
        BY <3>10, <4>2, Moves DEF Flush
      <4> QED BY <4>1, <4>2
    <3>11. CASE Finish(w)
      <4>1. y.pc = "tools" \/ y.text = body
        BY <3>11, Moves DEF Finish
      <4> QED BY <4>1 DEF Loaded
    <3>12. CASE Fail(w)
      <4>1. y.pc = "raised" \/ y.text = body
        BY <3>12, Moves DEF Fail
      <4> QED BY <4>1 DEF Loaded
    <3>13. CASE Failing(w) \/ Fallback(w)
      BY <3>13, Moves DEF Failing, Fallback, Loaded
    <3>14. CASE Publish(w)
      <4>1. y.pc \in {"idle", "tools", "raised", "retry"}
        BY <1>0, <3>14, Moves DEF Publish, Resumed
      <4> QED BY <4>1 DEF Loaded
    <3>15. CASE ToolScan(w)
      BY <3>15, Moves DEF ToolScan, Loaded
    <3>16. CASE Raised(w)
      <4>1. y.pc = "retry" \/ y.text = body
        BY <3>16, Moves DEF Raised
      <4> QED BY <4>1 DEF Loaded
    <3>17. CASE Retry(w) \/ Crash(w)
      <4>1. y.pc = "idle"
        BY <1>0, <3>17, Moves, IdleFields DEF Retry, Crash
      <4> QED BY <4>1 DEF Loaded
    <3> QED
      BY <1>5, <3>1, <3>2, <3>3, <3>4, <3>5, <3>6, <3>7, <3>8, <3>9, <3>10, <3>11, <3>12, <3>13,
         <3>14, <3>15, <3>16, <3>17 DEF Chat
  <2> QED BY <1>c, <2>1, <2>2, <2>3 DEF Texts, Loaded
<1> QED BY <1>2, <1>3, <1>4, <1>5

\* Every step keeps the hash in line.
LEMMA HashedStep == TypeOK /\ Placed /\ Claimed /\ Hashed /\ [Next]_vars => Hashed'
<1> SUFFICES ASSUME TypeOK, Placed, Claimed, Hashed, [Next]_vars, blind' = {}, owner' # "run"
             PROVE  HoldersRead' /\ (status' = "COMPLETED" => hash' = body')
  BY DEF Hashed
<1>1. ASSUME NEW w \in Workers, Chat(w) \/ Crash(w)
      PROVE  HoldersRead' /\ (status' = "COMPLETED" => hash' = body')
  <2>0. owner # "run"
    BY <1>1, Alone
  <2>1. /\ blind = {} /\ Claims(w) /\ Texts(w)
        /\ OneClaim /\ HoldersOwn /\ WritersStream /\ HoldersRead /\ (status = "COMPLETED" => hash = body)
    BY <1>1, <2>0, ClaimsStep, TextsStep DEF Claims, Claimed, Hashed
  <2>2. \A v \in Workers \ {w} : worker'[v] = worker[v]
    BY <1>1, Alone
  <2>3. HoldersRead'
    <3>1. ASSUME NEW v \in Workers \ {w}, worker[v].pc \in Loaded, worker[v].owns
          PROVE  worker[v].text = body'
      <4>1. ~worker[w].owns
        BY <2>1, <3>1 DEF OneClaim
      <4>2. body' = body
        BY <2>1, <4>1 DEF Texts
      <4> QED BY <2>1, <3>1, <4>2 DEF HoldersRead
    <3>2. worker'[w].pc \in Loaded /\ worker'[w].owns => worker'[w].text = body'
      BY <2>1 DEF Texts
    <3> QED BY <2>2, <3>1, <3>2 DEF HoldersRead
  <2>4. status' = "COMPLETED" => hash' = body'
    <3>1. worker[w].pc = "append" => status # "COMPLETED"
      BY <2>1 DEF WritersStream, Writing, Holding
    <3> QED BY <2>1, <3>1 DEF Texts
  <2> QED BY <2>3, <2>4
<1>2. ASSUME NEW w \in Workers, Redeliver(w)
      PROVE  HoldersRead' /\ (status' = "COMPLETED" => hash' = body')
  BY <1>2 DEF Redeliver, Aside, Row, Hashed, HoldersRead
<1>3. CASE Request \/ RunRevived \/ (\E p \in Writers : RunEnds(p) \/ Report(p)) \/ UNCHANGED vars
  <2>1. owner # "run"
    BY <1>3 DEF Request, Dispatch, SendChat, SendRun, SendEnqueue, SendFails, RunStart, Stop,
       StopPublish, RequeueRead, RequeueWrite, RequeueEnqueue, RunRevived, RunEnds, Report, SweepRun,
       WriterLoad, WriterWrite, WriterPublish, vars, message, None
  <2> QED BY <1>3, <2>1, RequestMoves DEF Hashed, HoldersRead
<1> QED BY <1>1, <1>2, <1>3 DEF Next

\* Nothing is hashed at first.
LEMMA HashedInit == Init => Hashed
  BY IdleFields DEF Init, Hashed, HoldersRead

\* Frames, texts and hashes are in line throughout.
LEMMA HashHolds == Spec => [](TypeOK /\ Placed /\ Claimed /\ Numbered /\ Hashed)
  BY ClaimHolds, NumberedInit, NumberedStep, HashedInit, HashedStep, PTL DEF Spec

\* The hash of a completed reply is that of the text it has, after continuations, tool
\* rounds and circuit breaks.
THEOREM HashIsCurrent == Spec => []HashCoversBody
<1>1. Hashed => HashCoversBody
  BY DEF Hashed, HashCoversBody
<1> QED BY <1>1, HashHolds, PTL

------------------------------------------------------------------------------
\* The empty text is empty.
LEMMA EmptyIsEmpty == IsEmpty(EmptyBody)
  BY DEF IsEmpty, EmptyBody

\* A text that has begun is not empty, and stays so.
LEMMA LengthSays == \A b \in Bodies : b.len > 0 => ~IsEmpty(b) /\ b # EmptyBody
  BY DEF IsEmpty, EmptyBody, Bodies

\* What a row that was read says of the text that was read with it.
Says(x) ==
  x.pc \in {"gate", "claim", "fallback"} =>
    /\ x.row \in {"PENDING", "FAILED"} => x.text = EmptyBody
    /\ x.row = "PARTIAL" => x.text.len > 0

\* A row that is read says of the text what the row that is stored does.
LEMMA SaysStep ==
  ASSUME TypeOK, Placed, Begun, NEW w \in Workers, Chat(w) \/ Crash(w), blind = {}, owner # "run"
  PROVE  Says(worker'[w])
<1> DEFINE y == worker'[w]
<1>0. worker \in [Workers -> Executions] /\ worker[w] \in Executions
  BY DEF TypeOK
<1>1. y.pc \in {"gate", "claim", "fallback"} => y.row = status /\ y.text = body
  <2>1. CASE Prepass(w) \/ Gate(w)
    BY <2>1, Moves DEF Prepass, Gate
  <2>2. CASE Raised(w)
    <3>1. y.pc = "retry" \/ (y.row = status /\ y.text = body)
      BY <2>2, Moves DEF Raised
    <3> QED BY <3>1
  <2>3. CASE Take(w) \/ CompileFails(w) \/ Probe(w) \/ ClaimLost(w) \/ Refuse(w) \/ Open(w)
    <3>1. y.pc \in {"prepass", "raised", "tools"} \/ ClaimLost(w) \/ Refuse(w) \/ Open(w)
      BY <2>3, Moves DEF Take, CompileFails, Probe
    <3>2. ClaimLost(w) => y.pc = "idle"
      BY Moves DEF ClaimLost
    <3>3. Refuse(w) => y.pc = "publish"
      BY Moves DEF Refuse
    <3>4. Open(w) => y.pc = "stream"
      BY Moves DEF Open
    <3> QED BY <3>1, <3>2, <3>3, <3>4
  <2>4. CASE Build(w)
    <3>1. y.pc \in {"start", "raised", "unsupported"}
      BY <2>4, Moves DEF Build
    <3> QED BY <3>1
  <2>5. CASE Claim(w)
    BY <1>0, <2>5, EnteredFields DEF Claim
  <2>6. CASE Start(w) \/ Frame(w)
    <3>1. y.pc \in {"tools", "open", "stream", "flush"}
      <4>1. CASE Start(w)
        BY <1>0, <4>1 DEF Start, Executions
      <4>2. CASE Frame(w)
        BY <1>0, <4>2 DEF Frame, Executions
      <4> QED BY <2>6, <4>1, <4>2
    <3> QED BY <3>1
  <2>7. CASE StreamEnds(w)
    <3>1. PICK next \in {"finish", "fail"} :
            worker' = [worker EXCEPT ![w].pc = IF worker[w].buffer = {} THEN next ELSE "flush",
                                     ![w].after = next]
      BY <2>7 DEF StreamEnds
    <3>2. y.pc \in {"finish", "fail", "flush"}
      BY <1>0, <3>1 DEF Executions
    <3> QED BY <3>2
  <2>8. CASE Flush(w)
    <3>1. y.pc \in {"fail", "tools", "append"}
      <4>1. CASE status = "CANCELLED"
        BY <1>0, <2>8, <4>1 DEF Flush, Executions
      <4>2. CASE status # "CANCELLED"
        BY <2>8, <4>2, Moves DEF Flush
      <4> QED BY <4>1, <4>2
    <3> QED BY <3>1
  <2>9. CASE Append(w) \/ Publish(w)
    <3>1. worker[w].after \in {"stream", "finish", "fail", "idle", "tools", "raised", "retry"}
      BY <2>9 DEF Append, Publish, Placed, Resumes
    <3>2. y.pc = worker[w].after
      <4>1. CASE Append(w)
        BY <1>0, <4>1 DEF Append, Idle
      <4>2. CASE Publish(w)
        BY <4>2, Moves DEF Publish
      <4> QED BY <2>9, <4>1, <4>2
    <3> QED BY <3>1, <3>2
  <2>10. CASE Finish(w) \/ Fail(w)
    <3>1. y.pc \in {"tools", "complete", "raised", "failing"}
      BY <2>10, Moves DEF Finish, Fail
    <3> QED BY <3>1
  <2>11. CASE Complete(w) \/ Failing(w) \/ Fallback(w)
    <3>1. y.pc = "publish"
      BY <2>11, Moves DEF Complete, Failing, Fallback
    <3> QED BY <3>1
  <2>12. CASE ToolScan(w)
    <3>1. y.pc \in {"circuit", "tool", "idle"}
      BY <2>12, Moves DEF ToolScan
    <3> QED BY <3>1
  <2>13. CASE ToolWrite(w) \/ CircuitBreak(w) \/ Retry(w)
    <3>1. y.pc \in {"raised", "start", "idle"}
      BY <2>13, Moves DEF ToolWrite, CircuitBreak, Retry
    <3> QED BY <3>1
  <2>14. CASE Crash(w)
    BY <1>0, <2>14, IdleFields DEF Crash
  <2> QED
    BY <2>1, <2>2, <2>3, <2>4, <2>5, <2>6, <2>7, <2>8, <2>9, <2>10, <2>11, <2>12, <2>13, <2>14 DEF Chat
<1> QED BY <1>1 DEF Says, Begun

\* Every step keeps the text empty exactly until the first frame.
LEMMA BegunStep ==
  TypeOK /\ Placed /\ Claimed /\ Numbered /\ Hashed /\ Begun /\ [Next]_vars => Begun'
<1> SUFFICES ASSUME TypeOK, Placed, Claimed, Numbered, Hashed, Begun, [Next]_vars,
                    blind' = {}, owner' # "run"
             PROVE  /\ chunks' = {} => body' = EmptyBody
                    /\ chunks' # {} => body'.len > 0
                    /\ status' \in {"PENDING", "FAILED"} => body' = EmptyBody
                    /\ status' = "PARTIAL" => body'.len > 0
                    /\ \A w \in Workers : Says(worker'[w])
  BY DEF Begun, Says
<1>1. ASSUME NEW w \in Workers, Chat(w) \/ Crash(w)
      PROVE  /\ chunks' = {} => body' = EmptyBody
             /\ chunks' # {} => body'.len > 0
             /\ status' \in {"PENDING", "FAILED"} => body' = EmptyBody
             /\ status' = "PARTIAL" => body'.len > 0
             /\ \A v \in Workers : Says(worker'[v])
  <2> DEFINE x == worker[w]
  <2>0. owner # "run" /\ x \in Executions /\ x.text \in Bodies /\ body \in Bodies /\ Resumed(x)
        /\ x.owns \in BOOLEAN
    BY <1>1, Alone, ExecutionFields DEF TypeOK, Placed, Resumes, Resumed
  <2>1. /\ blind = {} /\ Claims(w) /\ Texts(w)
        /\ HoldersOwn /\ OwnedStatus /\ WritersStream /\ HoldersRead
    BY <1>1, <2>0, ClaimsStep, TextsStep DEF Claims, Claimed, Hashed
  <2>2. /\ chunks = {} => body = EmptyBody
        /\ chunks # {} => body.len > 0
        /\ status \in {"PENDING", "FAILED"} => body = EmptyBody
        /\ status = "PARTIAL" => body.len > 0
        /\ \A v \in Workers : Says(worker[v])
    BY <2>0, <2>1 DEF Begun, Says
  <2>3. \A v \in Workers : Says(worker'[v])
    BY <1>1, <2>0, <2>1, <2>2, Alone, SaysStep
  <2>4. x.owns => status \in {"STREAMING", "COMPLETED", "CANCELLED"}
    BY <2>1 DEF OwnedStatus
  <2>5. IsEmpty(body) <=> body = EmptyBody
    BY <2>0, <2>2, EmptyIsEmpty, LengthSays
  <2>6. CASE Append(w)
    <3>1. /\ x.pc = "append" /\ x.owns /\ chunks' = chunks \cup x.buffer /\ status' = status
      BY <2>1, <2>6 DEF Append, HoldersOwn, Holding
    <3>2. body'.len = body.len + Cardinality(x.buffer \ chunks)
      <4>1. x.text = body
        BY <2>1, <3>1 DEF HoldersRead, Loaded
      <4> DEFINE n == body.len + Cardinality(x.buffer \ chunks)
                 f == IF x.fence = None THEN body.fence ELSE x.fence
      <4>2. body' = [body EXCEPT !.len = n, !.fence = f]
        BY <2>6, <4>1 DEF Append
      <4>3. body \in [len : Nat, marks : [Calls -> Nat], fence : Calls \cup {None}]
        BY <2>0 DEF Bodies
      <4> HIDE DEF n, f
      <4>4. body'.len = n
        BY <4>2, <4>3
      <4> QED BY <4>4 DEF n
    <3>3. x.buffer # {} /\ x.buffer \subseteq 0..(MaxFrames - 1)
      BY <2>0, <3>1, ExecutionFields DEF Resumed
    <3>4. Cardinality(x.buffer \ chunks) \in Nat /\ (chunks = {} => Cardinality(x.buffer \ chunks) > 0)
      <4>1. IsFiniteSet(x.buffer \ chunks)
        BY <3>3, FrameNumbers, FramesAssumption, FS_Subset
      <4>2. chunks = {} => x.buffer \ chunks # {}
        BY <3>3
      <4> QED BY <4>1, <4>2, FS_CardinalityType, FS_EmptySet
    <3>5. body.len \in Nat
      BY <2>0 DEF Bodies
    <3>6. body'.len > 0 /\ chunks' # {}
      BY <2>2, <3>1, <3>2, <3>3, <3>4, <3>5 DEF EmptyBody
    <3>7. status' \in {"STREAMING", "COMPLETED", "CANCELLED"}
      BY <2>4, <3>1
    <3> QED BY <2>3, <3>6, <3>7
  <2>7. CASE ToolWrite(w) \/ CircuitBreak(w)
    <3>1. x.pc \in {"tool", "circuit"} /\ x.owns /\ chunks' = chunks
      BY <2>1, <2>7 DEF ToolWrite, CircuitBreak, Row, HoldersOwn, Holding
    <3>2. x.text = body /\ body.fence # None
      BY <2>0, <2>1, <3>1 DEF HoldersRead, Loaded, Resumed
    <3>3. chunks # {} /\ body.len > 0
      BY <2>2, <3>2 DEF EmptyBody
    <3>4. body' = body \/ body' = Marked(body)
      BY <2>7, <3>2 DEF ToolWrite, CircuitBreak, Row
    <3>5. Marked(body).len = body.len
      BY <2>0 DEF Marked, Bodies
    <3>6. status' \in {"STREAMING", "COMPLETED", "CANCELLED"}
      BY <2>4, <2>7, <3>1 DEF ToolWrite, CircuitBreak, StatusSet, Row
    <3> QED BY <2>3, <3>1, <3>3, <3>4, <3>5, <3>6
  <2>8. CASE ~Append(w) /\ ~ToolWrite(w) /\ ~CircuitBreak(w)
    <3>1. body' = body /\ chunks' = chunks
      BY <1>1, <2>8 DEF Chat, Crash, Take, Prepass, Gate, Refuse, Claim, ClaimLost, CompileFails,
         Build, Start, Open, Frame, Probe, StreamEnds, Flush, Finish, Complete, Fail, Failing,
         Publish, ToolScan, Raised, Fallback, Retry, Row
    <3>2. status' \in {"PENDING", "FAILED", "PARTIAL"} =>
            status' = status \/ Refuse(w) \/ Complete(w) \/ Failing(w) \/ Fallback(w)
      BY <1>1, <2>8 DEF Chat, Crash, Take, Prepass, Gate, Claim, ClaimLost, CompileFails,
         Build, Start, Open, Frame, Probe, StreamEnds, Flush, Finish, Fail,
         Publish, ToolScan, Raised, Retry, Row, StatusSet
    <3>3. CASE Refuse(w)
      <4> DEFINE new == TerminalStatus(IF IsEmpty(x.text) THEN 0 ELSE 1)
      <4>1. x.row = status /\ (x.pc = "unsupported" => status = "STREAMING")
            /\ (x.pc # "unsupported" => status \in {"PENDING", "PARTIAL"})
            /\ x.pc \in {"gate", "claim", "unsupported"}
        BY <2>1, <3>3 DEF Refuse
      <4>2. status' = new
        BY <3>3, <4>1 DEF Refuse, StatusSet
      <4>3. new = IF IsEmpty(x.text) THEN "FAILED" ELSE "PARTIAL"
        BY DEF TerminalStatus
      <4>4. x.pc = "unsupported" => x.text = body
        BY <2>1 DEF HoldersRead, HoldersOwn, Loaded, Holding
      <4>5. x.pc # "unsupported" => \/ status = "PENDING" /\ x.text = EmptyBody
                                    \/ status = "PARTIAL" /\ x.text.len > 0
        BY <2>2, <4>1 DEF Says
      <4>6. \/ status' = "FAILED" /\ body = EmptyBody
            \/ status' = "PARTIAL" /\ body.len > 0
        BY <2>0, <2>2, <2>5, <4>2, <4>3, <4>4, <4>5, EmptyIsEmpty, LengthSays
      <4> QED BY <2>2, <2>3, <3>1, <4>6
    <3>4. CASE Complete(w)
      <4>1. x.text = body
        BY <2>1, <3>4 DEF Complete, HoldersRead, HoldersOwn, Loaded, Holding
      <4>2. status' = IF IsEmpty(body) THEN "FAILED" ELSE "COMPLETED"
        BY <3>4, <4>1 DEF Complete
      <4> QED BY <2>2, <2>3, <2>5, <3>1, <4>2
    <3>5. CASE Failing(w)
      <4>1. chunks = 0..(x.next - 1) /\ x.next \in 0..MaxFrames
        BY <2>0, <2>1, <3>5, ExecutionFields DEF Failing, Numbered, Continues
      <4>2. chunks = {} <=> x.next = 0
        BY <4>1, FramesAssumption
      <4>3. status' = IF x.next > 0 THEN "PARTIAL" ELSE "FAILED"
        BY <3>5 DEF Failing, TerminalStatus
      <4>4. x.next > 0 <=> x.next # 0
        BY <4>1, FramesAssumption
      <4> QED BY <2>2, <2>3, <3>1, <4>2, <4>3, <4>4
    <3>6. CASE Fallback(w)
      <4>1. x.row = status /\ status \in {"PENDING", "STREAMING"} /\ (status = "STREAMING" => x.owns)
        BY <2>0, <2>1, <3>6 DEF Fallback, Resumed
      <4>2. status' = IF IsEmpty(x.text) THEN "FAILED" ELSE "PARTIAL"
        BY <3>6 DEF Fallback, TerminalStatus
      <4>3. x.text = body
        BY <2>1, <2>2, <3>6, <4>1 DEF Fallback, HoldersRead, Loaded, Says
      <4> QED BY <2>2, <2>3, <2>5, <3>1, <4>2, <4>3
    <3> QED BY <2>2, <2>3, <3>1, <3>2, <3>3, <3>4, <3>5, <3>6
  <2> QED BY <2>6, <2>7, <2>8
<1>2. ASSUME UNCHANGED <<body, chunks, worker>>, blind = {}, owner # "run",
             \/ status' = status
             \/ status' = "CANCELLED"
             \/ status \in {"PENDING", "FAILED"} /\ status' \in {"PENDING", "FAILED"}
      PROVE  /\ chunks' = {} => body' = EmptyBody
             /\ chunks' # {} => body'.len > 0
             /\ status' \in {"PENDING", "FAILED"} => body' = EmptyBody
             /\ status' = "PARTIAL" => body'.len > 0
             /\ \A v \in Workers : Says(worker'[v])
  BY <1>2 DEF Begun, Says
<1>3. ASSUME NEW w \in Workers, Redeliver(w)
      PROVE  UNCHANGED <<body, chunks, worker, blind, status, owner>>
  BY <1>3 DEF Redeliver, Aside, Row
<1>4. CASE Request \/ RunRevived \/ (\E p \in Writers : RunEnds(p) \/ Report(p)) \/ UNCHANGED vars
  <2>1. owner # "run"
    BY <1>4 DEF Request, Dispatch, SendChat, SendRun, SendEnqueue, SendFails, RunStart, Stop,
       StopPublish, RequeueRead, RequeueWrite, RequeueEnqueue, RunRevived, RunEnds, Report, SweepRun,
       WriterLoad, WriterWrite, WriterPublish, vars, message, None
  <2> QED BY <1>2, <1>4, <2>1, RequestMoves
<1> QED BY <1>1, <1>2, <1>3, <1>4 DEF Next

\* The text is empty at first.
LEMMA BegunInit == Init => Begun
  BY IdleFields DEF Init, Begun

\* A generation that starts afresh does not write after an old text: only a PARTIAL reply
\* has one, and it is continued.
THEOREM FreshTextIsEmpty == Spec => FreshStartsEmpty
<1>1. TypeOK /\ Placed /\ Claimed /\ Begun /\ [Next]_vars =>
        [\A w \in Workers : Claim(w) /\ worker[w].row = "PENDING" => IsEmpty(body) \/ blind' # {}]_vars
  <2> SUFFICES ASSUME Placed, Begun, NEW w \in Workers, Claim(w), worker[w].row = "PENDING", blind' = {}
               PROVE  IsEmpty(body)
    OBVIOUS
  <2>1. owner # "run" /\ blind = {} /\ status = "PENDING"
    BY IdleFields DEF Placed, ChatRests, Claim, Late
  <2> QED BY <2>1, EmptyIsEmpty DEF Begun
<1> QED BY <1>1, HashHolds, BegunInit, BegunStep, PTL DEF Spec, FreshStartsEmpty

------------------------------------------------------------------------------
(* The outcome of a run *)

\* Every step keeps the outcome in the placeholder, or on its way.
LEMMA ReportedStep == TypeOK /\ Placed /\ Reported /\ [Next]_vars => Reported'
<1> SUFFICES ASSUME TypeOK, Placed, Reported, [Next]_vars PROVE Reported'
  OBVIOUS
<1> DEFINE Says1 == status = "CANCELLED" => run = "CANCELLED"
           Says2 == run \in Settled /\ status \in Settled /\ used.lost = 0 =>
                      status = run \/ \E p \in Writers : Pending(p)
<1>0. /\ owner = None => status = "PENDING"
      /\ owner = "run" /\ blind = {} => Says1 /\ Says2
  BY DEF Reported
<1>1. CASE Request
  <2>1. CASE SendChat
    BY <2>1 DEF SendChat, Reported, None
  <2>2. CASE SendRun
    <3>1. status' = "PENDING" /\ owner' = "run"
      BY <1>0, <2>2 DEF SendRun
    <3> QED BY <3>1 DEF Reported, None, Settled
  <2>3. CASE SendEnqueue \/ SendFails
    <3>1. owner = "chat"
      BY <2>3 DEF SendEnqueue, SendFails, Placed, ChatRests
    <3>2. owner' = owner
      BY <2>3 DEF SendEnqueue, SendFails, message
    <3> QED BY <3>1, <3>2 DEF Reported, None
  <2>4. CASE RunStart
    <3>1. owner = "run" /\ owner' = "run" /\ blind' = blind /\ writer' = writer
      BY <2>4 DEF RunStart, Placed, RunRests
    <3>2. CASE UNCHANGED <<run, status, used>>
      BY <1>0, <3>1, <3>2 DEF Reported, None, Pending
    <3>3. CASE run' = "FAILED" /\ status' = "FAILED"
      BY <3>1, <3>3 DEF Reported, None
    <3> QED BY <2>4, <3>2, <3>3 DEF RunStart
  <2>5. CASE Stop \/ \E r \in Requests : RequeueRead(r) \/ RequeueWrite(r) \/ RequeueEnqueue(r)
    <3>1. owner = "chat"
      BY <2>5 DEF Stop, RequeueRead, RequeueWrite, RequeueEnqueue, Placed, ChatRests
    <3>2. owner' = owner
      BY <2>5 DEF Stop, RequeueRead, RequeueWrite, RequeueEnqueue, message
    <3> QED BY <3>1, <3>2 DEF Reported, None
  <2>6. CASE StopPublish
    BY <1>0, <2>6 DEF StopPublish, Reported, Pending, message, swarm
  <2> QED BY <1>1, <2>1, <2>2, <2>3, <2>4, <2>5, <2>6 DEF Request, Dispatch
<1>2. ASSUME NEW w \in Workers, Chat(w) \/ Crash(w) \/ Redeliver(w) PROVE Reported'
  <2>1. owner = "chat"
    <3>1. worker[w].pc = "idle" => queue # 0
      BY <1>2 DEF Chat, Crash, Redeliver, Take, Prepass, Gate, Refuse, Claim, ClaimLost, CompileFails,
         Build, Start, Open, Frame, Probe, StreamEnds, Flush, Append, Finish, Complete, Fail, Failing,
         Publish, ToolScan, ToolWrite, CircuitBreak, Raised, Fallback, Retry
    <3> QED BY <3>1, IdleFields DEF Placed, ChatRests
  <2>2. owner' = owner
    <3>1. CASE Chat(w) \/ Crash(w)
      BY <3>1, Alone
    <3>2. CASE Redeliver(w)
      BY <3>2 DEF Redeliver, Aside
    <3> QED BY <1>2, <3>1, <3>2
  <2> QED BY <2>1, <2>2 DEF Reported, None
<1>3. ASSUME NEW p \in Writers, RunEnds(p) PROVE Reported'
  <2>1. /\ run = "ACTIVE" /\ owner = "run" /\ owner' = owner /\ blind' = blind /\ status' = status
        /\ writer \in [Writers -> WriteBacks]
    BY <1>3 DEF RunEnds, message, Placed, RunRests, TypeOK, None
  <2>2. PICK final \in Settled :
          /\ run' = final
          /\ \/ writer' = [writer EXCEPT ![p].pc = "load", ![p].final = final] /\ UNCHANGED used
             \/ Lose /\ UNCHANGED writer
    BY <1>3 DEF RunEnds
  <2>3. blind = {} => status # "CANCELLED"
    BY <1>0, <2>1
  <2>4. CASE writer' = [writer EXCEPT ![p].pc = "load", ![p].final = final]
    <3>1. writer'[p].pc = "load" /\ writer'[p].final = run'
      BY <2>1, <2>2, <2>4 DEF WriteBacks
    <3> QED BY <2>1, <2>3, <3>1 DEF Reported, Pending, None
  <2>5. CASE Lose
    <3>1. used'.lost # 0
      BY <2>5 DEF Lose, TypeOK
    <3> QED BY <2>1, <2>3, <3>1 DEF Reported, None
  <2> QED BY <2>2, <2>4, <2>5
<1>4. ASSUME NEW p \in Writers, Report(p) PROVE Reported'
  <2>1. /\ owner' = owner /\ run' = run /\ used' = used /\ writer \in [Writers -> WriteBacks]
        /\ blind' = {} => blind = {}
        /\ \A q \in Writers \ {p} : writer'[q] = writer[q]
    BY <1>4 DEF Report, SweepRun, WriterLoad, WriterWrite, WriterPublish, message, TypeOK
  <2>2. owner = "run"
    BY <1>4 DEF Report, SweepRun, WriterLoad, WriterWrite, WriterPublish, Placed, RunRests, None,
                Settled
  <2>3. \A q \in Writers \ {p} : Pending(q) => Pending(q)'
    BY <2>1 DEF Pending
  <2>4. CASE SweepRun(p)
    BY <1>0, <2>1, <2>2, <2>4 DEF SweepRun, Reported, message, None
  <2>5. CASE WriterLoad(p)
    <3>1. /\ status' = status /\ writer'[p].pc = "write" /\ writer'[p].row = status
          /\ writer'[p].final = writer[p].final /\ writer[p].pc = "load"
      BY <2>1, <2>5 DEF WriterLoad, message, WriteBacks
    <3>2. blind = {} /\ Pending(p) => status = run \/ Pending(p)'
      BY <1>0, <2>1, <2>2, <3>1 DEF Pending
    <3> QED BY <1>0, <2>1, <2>2, <2>3, <3>1, <3>2 DEF Reported, None
  <2>6. CASE WriterWrite(p)
    <3>1. blind' = {} => writer[p].final = run
      BY <2>6 DEF WriterWrite
    <3>2. CASE writer[p].row = "CANCELLED"
      <4>1. status' = status /\ ~Pending(p)
        BY <2>6, <3>2 DEF WriterWrite, Pending
      <4> QED BY <1>0, <2>1, <2>2, <2>3, <4>1 DEF Reported, None
    <3>3. CASE writer[p].row # "CANCELLED"
      <4>1. status' = writer[p].final
        BY <2>6, <3>3 DEF WriterWrite
      <4> QED BY <2>1, <2>2, <3>1, <4>1 DEF Reported, None
    <3> QED BY <3>2, <3>3
  <2>7. CASE WriterPublish(p)
    <3>1. status' = status /\ ~Pending(p)
      BY <2>7 DEF WriterPublish, message, Pending
    <3> QED BY <1>0, <2>1, <2>2, <2>3, <3>1 DEF Reported, None
  <2> QED BY <1>4, <2>4, <2>5, <2>6, <2>7 DEF Report
<1>5. CASE RunRevived
  <2>1. run = "FAILED" /\ run' = "ACTIVE" /\ UNCHANGED <<owner, status, blind>>
    BY <1>5 DEF RunRevived, message
  <2> QED BY <1>0, <2>1 DEF Reported, Settled
<1>6. CASE UNCHANGED vars
  BY <1>0, <1>6 DEF vars, message, http, swarm, Reported, Pending
<1> QED BY <1>1, <1>2, <1>3, <1>4, <1>5, <1>6 DEF Next

\* Once no write-back is in progress, a settled placeholder reports the end its run
\* came to, unless a write-back was lost or carried an earlier end
\* (writeback_run_message, sweep_stale_run_messages, retries of the run).
THEOREM PlaceholderReports == Spec => []ReportsTheRun
<1>1. Init => Reported
  BY DEF Init, Reported, None
<1>2. Reported => ReportsTheRun
  BY DEF Reported, ReportsTheRun, Pending
<1>3. TypeOK /\ Placed /\ Reported /\ [Next]_vars => Reported'
  BY ReportedStep
<1> QED BY TypeCorrect, <1>1, <1>2, <1>3, PTL DEF Spec
=============================================================================
