---------------------------- MODULE MessageReply ----------------------------
(***************************************************************************)
(* One assistant message, from the request that creates it to the status   *)
(* it settles in.  It is a chat reply, streamed by a queue task            *)
(* (generate_chat, GenerateReply, run_tool_rounds), or the placeholder of  *)
(* an agent run, which the run's executor and the message sweeper write    *)
(* back.  The user may stop, retry or continue a chat reply at any moment. *)
(*                                                                         *)
(* A transaction that reads the row and later writes it is two steps: the  *)
(* repository's guards look at the row its session loaded (worker[w].row), *)
(* and any other process may act in between.                               *)
(***************************************************************************)
EXTENDS Naturals, FiniteSets, Functions

CONSTANTS
  Workers,      \* worker slots that can run generate_chat
  Requests,     \* retry and continue requests the user can have in progress
  Writers,      \* processes that write a run's outcome into its message
  Calls,        \* distinct tool calls (a tool and its arguments)
  MaxFrames,    \* content frames one message can receive
  MaxRounds,    \* settings.max_tool_rounds
  MaxSameCall,  \* CIRCUIT_MAX_SAME_CALL
  MaxRetries,   \* automatic retries of a task that raised
  MaxRequests,  \* retry and continue requests in all
  MaxFaults,    \* crashes, redeliveries, failed enqueues and providers, lost credentials
  MaxRevivals   \* retries of a failed agent run

ASSUME FramesAssumption == MaxFrames \in Nat

None == "none"
Active == {"PENDING", "STREAMING", "PARTIAL"}
Settled == {"COMPLETED", "FAILED", "CANCELLED"}

VARIABLES
  owner,    \* who produces the message: None (not sent yet), "chat" or "run"
  status,   \* MessageModel.status
  body,     \* MessageModel.content: pieces of text, result blocks, an open fence
  hash,     \* MessageModel.content_hash: the body it was computed from (EmptyBody: none)
  chunks,   \* chunk indexes in message_chunks
  toolLog,  \* tool_call_log: the status of each call's row, or None
  queue,    \* deliveries of the task waiting at the broker
  worker,   \* the task executions
  sender, stopper, request,  \* the HTTP requests in progress
  run,      \* AgentRunModel.status of the linked run: None, "ACTIVE" or terminal
  writer,   \* the write-backs in progress
  heard,    \* status in the last terminal event published since the last claim
  used,     \* how much of each bound is consumed
  blind     \* history: writes made on a row that had changed since it was read

message == <<owner, status, body, hash, chunks>>
http == <<sender, stopper, request>>
swarm == <<run, writer>>
vars == <<message, toolLog, queue, worker, http, swarm, heard, used, blind>>

-----------------------------------------------------------------------------
\* Content.  append_chunk adds a piece, the tool orchestrator replaces a fence
\* by a result block that carries the call's marker.
EmptyBody == [len |-> 0, marks |-> [c \in Calls |-> 0], fence |-> None]
Marks(b) == FoldFunction(LAMBDA m, n : m + n, 0, b.marks)
IsEmpty(b) == b.len = 0 /\ \A c \in Calls : b.marks[c] = 0
Marked(b) == [b EXCEPT !.marks[b.fence] = @ + 1, !.fence = None]

\* terminal_message_status
TerminalStatus(count) == IF count > 0 THEN "PARTIAL" ELSE "FAILED"

\* set_message_status: what the row holds afterwards, given the row as read.
StatusSet(row, new) ==
  IF row = "CANCELLED" /\ new \in {"STREAMING", "COMPLETED", "PARTIAL"} THEN status ELSE new

Spend(what, max) == used[what] < max /\ used' = [used EXCEPT ![what] = @ + 1]

\* A process dies, or its delivery never reaches the broker.
Lose == used.faults < MaxFaults /\ used' = [used EXCEPT !.faults = @ + 1, !.lost = @ + 1]

Idle == [pc |-> "idle", row |-> None, text |-> EmptyBody, next |-> 0,
         buffer |-> {}, fence |-> None, after |-> None, event |-> None,
         owns |-> FALSE]  \* history: its claim stands and nothing it did gave it up
NoWrite == [pc |-> "idle", row |-> None, final |-> None]

Init ==
  /\ owner = None /\ status = "PENDING" /\ body = EmptyBody /\ hash = EmptyBody
  /\ chunks = {} /\ toolLog = [c \in Calls |-> None] /\ queue = 0
  /\ worker = [w \in Workers |-> Idle]
  /\ sender = "idle" /\ stopper = "idle"
  /\ request = [r \in Requests |-> [pc |-> "idle", resume |-> FALSE]]
  /\ run = None /\ writer = [p \in Writers |-> NoWrite]
  /\ heard = None /\ blind = {}
  /\ used = [retries |-> 0, requests |-> 0, faults |-> 0, lost |-> 0, revivals |-> 0]

-----------------------------------------------------------------------------
(* The requests *)

\* SendMessage and RegenerateReply commit a PENDING message before they enqueue.
SendChat ==
  /\ owner = None
  /\ owner' = "chat" /\ sender' = "enqueue"
  /\ UNCHANGED <<status, body, hash, chunks, toolLog, queue, worker, stopper, request,
                 swarm, heard, used, blind>>

SendEnqueue ==
  /\ sender = "enqueue" /\ sender' = "done"
  /\ queue' = queue + 1
  /\ UNCHANGED <<message, toolLog, worker, stopper, request, swarm, heard, used, blind>>

\* The failed enqueue marks the message FAILED whatever its status became: the
\* set_message_status guard lets FAILED through.
SendFails ==
  /\ sender = "enqueue" /\ sender' = "done"
  /\ Spend("faults", MaxFaults)
  /\ status' = "FAILED"
  /\ blind' = IF status # "PENDING" THEN blind \cup {"send"} ELSE blind
  /\ UNCHANGED <<owner, body, hash, chunks, toolLog, queue, worker, stopper, request,
                 swarm, heard>>

\* create_agent_run links the placeholder in the run's own commit, then enqueues;
\* a failed enqueue marks both FAILED, whatever they became meanwhile.
SendRun ==
  /\ owner = None
  /\ owner' = "run" /\ run' = "ACTIVE" /\ sender' = "start"
  /\ UNCHANGED <<status, body, hash, chunks, toolLog, queue, worker, stopper, request,
                 writer, heard, used, blind>>

RunStart ==
  /\ sender = "start" /\ sender' = "done"
  /\ \/ UNCHANGED <<run, status, used>>
     \/ Spend("faults", MaxFaults) /\ run' = "FAILED" /\ status' = "FAILED"
  /\ UNCHANGED <<owner, body, hash, chunks, toolLog, queue, worker, stopper, request,
                 writer, heard, blind>>

\* Mutant: the stop request publishes no event.
StopSilently ==
  /\ owner = "chat" /\ stopper = "idle"
  /\ status \in Active
  /\ status' = "CANCELLED" /\ stopper' = "idle"
  /\ UNCHANGED <<owner, body, hash, chunks, toolLog, queue, worker, sender, request,
                 swarm, heard, used, blind>>

\* stop_message: 409 for a run's placeholder; one conditional UPDATE, then the event.
Stop ==
  /\ owner = "chat" /\ stopper = "idle"
  /\ status \in Active
  /\ status' = "CANCELLED" /\ stopper' = "publish"
  /\ UNCHANGED <<owner, body, hash, chunks, toolLog, queue, worker, sender, request,
                 swarm, heard, used, blind>>

StopPublish ==
  /\ stopper = "publish" /\ stopper' = "idle"
  /\ heard' = "CANCELLED"
  /\ UNCHANGED <<message, toolLog, queue, worker, sender, request, swarm, used, blind>>

\* _requeue_message: the status is read in one transaction, PENDING is written in
\* the next (a PARTIAL message keeps its status), and the task is enqueued last.
RequeueRead(r) ==
  /\ owner = "chat" /\ request[r].pc = "idle"
  /\ status \in {"FAILED", "PARTIAL"}
  /\ Spend("requests", MaxRequests)
  /\ request' = [request EXCEPT ![r] = [pc |-> "write", resume |-> status = "PARTIAL"]]
  /\ UNCHANGED <<message, toolLog, queue, worker, sender, stopper, swarm, heard, blind>>

RequeueWrite(r) ==
  /\ request[r].pc = "write"
  /\ request' = [request EXCEPT ![r].pc = "enqueue"]
  /\ status' = IF request[r].resume THEN status ELSE "PENDING"
  /\ blind' = IF ~request[r].resume /\ status # "FAILED" THEN blind \cup {"requeue"} ELSE blind
  /\ UNCHANGED <<owner, body, hash, chunks, toolLog, queue, worker, sender, stopper,
                 swarm, heard, used>>

RequeueEnqueue(r) ==
  /\ request[r].pc = "enqueue"
  /\ request' = [request EXCEPT ![r].pc = "idle"]
  /\ \/ queue' = queue + 1 /\ UNCHANGED used
     \/ Lose /\ UNCHANGED queue
  /\ UNCHANGED <<message, toolLog, worker, sender, stopper, swarm, heard, blind>>
-----------------------------------------------------------------------------
(* generate_chat *)

\* What every step of a worker leaves alone.
Aside == UNCHANGED <<owner, sender, stopper, request, swarm>>
Row == UNCHANGED <<status, body, hash, chunks>>
Step(w, pc) == worker' = [worker EXCEPT ![w].pc = pc]
Enter(w, pc) == worker' = [worker EXCEPT ![w] = [Idle EXCEPT !.pc = pc, !.owns = worker[w].owns]]
Leave(w) == worker' = [worker EXCEPT ![w] = Idle]
\* A transaction loads the row and goes on from it.
Load(w, pc) ==
  worker' = [worker EXCEPT ![w].pc = pc, ![w].row = status, ![w].text = body]
\* A step that writes on the row as loaded, while the row has changed.
Late(w, what) == blind' = IF worker[w].row # status THEN blind \cup {what} ELSE blind
\* A commit whose terminal event is published next; afterwards the task is at pc.
Announce(w, event, pc) ==
  worker' = [worker EXCEPT ![w] = [Idle EXCEPT !.pc = "publish", !.event = event, !.after = pc,
                                               !.owns = event = "COMPLETED"]]

Take(w) ==
  /\ worker[w].pc = "idle" /\ queue > 0
  /\ queue' = queue - 1
  /\ Step(w, "prepass")
  /\ Aside /\ Row /\ UNCHANGED <<toolLog, heard, used, blind>>

\* The read-only pre-pass and the claim transaction both read the row and refuse
\* without a credential.
Prepass(w) ==
  /\ worker[w].pc = "prepass" /\ Load(w, "gate")
  /\ Aside /\ Row /\ UNCHANGED <<toolLog, queue, heard, used, blind>>

Gate(w) ==
  /\ worker[w].pc = "gate" /\ Load(w, "claim")
  /\ Aside /\ Row /\ UNCHANGED <<toolLog, queue, heard, used, blind>>

\* fail_message with terminal_message_status(len(content)): the status as read is
\* not looked at.  The same for a provider the factory does not know.
Refuse(w) ==
  /\ worker[w].pc \in {"gate", "claim", "unsupported"}
  /\ \/ worker[w].pc = "unsupported" /\ UNCHANGED used
     \/ worker[w].pc # "unsupported" /\ Spend("faults", MaxFaults)
  /\ LET new == TerminalStatus(IF IsEmpty(worker[w].text) THEN 0 ELSE 1)
     IN  status' = StatusSet(worker[w].row, new) /\ Announce(w, new, "idle")
  /\ blind' = IF \/ worker[w].row # status
                 \/ worker[w].pc = "unsupported" /\ status # "STREAMING"
                 \/ worker[w].pc # "unsupported" /\ status \notin {"PENDING", "PARTIAL"}
              THEN blind \cup {"refuse"} ELSE blind
  /\ Aside /\ UNCHANGED <<body, hash, chunks, toolLog, queue, heard>>
\* Mutant: the claim takes a message that streams already.
ClaimRunning(w) ==
  /\ worker[w].pc = "claim"
  /\ status \in {"PENDING", "PARTIAL", "STREAMING"}
  /\ status' = "STREAMING" /\ heard' = None
  /\ worker' = [worker EXCEPT ![w] = [Idle EXCEPT !.pc = "claimed", !.owns = TRUE]]
  /\ Late(w, "claim")
  /\ Aside /\ UNCHANGED <<body, hash, chunks, toolLog, queue, used>>

\* claim_generation: one UPDATE from PENDING or PARTIAL to STREAMING.
Claim(w) ==
  /\ worker[w].pc = "claim"
  /\ status \in {"PENDING", "PARTIAL"}
  /\ status' = "STREAMING" /\ heard' = None
  /\ worker' = [worker EXCEPT ![w] = [Idle EXCEPT !.pc = "claimed", !.owns = TRUE]]
  /\ Late(w, "claim")
  /\ Aside /\ UNCHANGED <<body, hash, chunks, toolLog, queue, used>>

ClaimLost(w) ==
  /\ worker[w].pc = "claim"
  /\ status \notin {"PENDING", "PARTIAL"}
  /\ Leave(w)
  /\ Aside /\ Row /\ UNCHANGED <<toolLog, queue, heard, used, blind>>

\* The context compilation raises: the claim rolls back with its transaction.
CompileFails(w) ==
  /\ worker[w].pc = "claim"
  /\ Spend("faults", MaxFaults)
  /\ Enter(w, "raised")
  /\ Aside /\ Row /\ UNCHANGED <<toolLog, queue, heard, blind>>

\* build_provider: KeyError ends the task, another error raises.
Build(w) ==
  /\ worker[w].pc = "claimed"
  /\ \/ Enter(w, "start") /\ UNCHANGED used
     \/ Spend("faults", MaxFaults) /\ (Load(w, "unsupported") \/ Enter(w, "raised"))
  /\ Aside /\ Row /\ UNCHANGED <<toolLog, queue, heard, blind>>

-----------------------------------------------------------------------------
(* GenerateReply.execute *)
\* Mutant: a continued reply numbers its frames from zero.
StartFromZero(w) ==
  /\ worker[w].pc = "start"
  /\ worker' = [worker EXCEPT ![w].pc = IF status = "CANCELLED" THEN "tools" ELSE "open",
                              ![w].next = 0]
  /\ Aside /\ Row /\ UNCHANGED <<toolLog, queue, heard, used, blind>>

\* The next index is the number of stored chunks; a cancelled message returns.
Start(w) ==
  /\ worker[w].pc = "start"
  /\ worker' = [worker EXCEPT ![w].pc = IF status = "CANCELLED" THEN "tools" ELSE "open",
                              ![w].next = Cardinality(chunks)]
  /\ Aside /\ Row /\ UNCHANGED <<toolLog, queue, heard, used, blind>>
\* Mutant: the stream opens whatever the row says.
OpenUnguarded(w) ==
  /\ worker[w].pc = "open"
  /\ status' = "STREAMING"
  /\ Step(w, "stream")
  /\ Aside /\ UNCHANGED <<body, hash, chunks, toolLog, queue, heard, used, blind>>

Open(w) ==
  /\ worker[w].pc = "open"
  /\ status' = StatusSet(status, "STREAMING")
  /\ Step(w, "stream")
  /\ Aside /\ UNCHANGED <<body, hash, chunks, toolLog, queue, heard, used, blind>>

\* A content frame is buffered; a full or stale buffer is flushed.
Frame(w) ==
  /\ worker[w].pc = "stream" /\ worker[w].next < MaxFrames
  /\ \E fence \in Calls \cup {None}, pc \in {"stream", "flush"} :
       worker' = [worker EXCEPT ![w].pc = pc, ![w].after = "stream", ![w].fence = fence,
                                ![w].buffer = @ \cup {worker[w].next}, ![w].next = @ + 1]
  /\ Aside /\ Row /\ UNCHANGED <<toolLog, queue, heard, used, blind>>

\* The throttled probe of a later frame sees the cancellation and returns.
Probe(w) ==
  /\ worker[w].pc = "stream" /\ status = "CANCELLED"
  /\ Enter(w, "tools")
  /\ Aside /\ Row /\ UNCHANGED <<toolLog, queue, heard, used, blind>>

\* The stream ends, or fails: both flush what is left first.
StreamEnds(w) ==
  /\ worker[w].pc = "stream"
  /\ \E next \in {"finish", "fail"} :
       /\ IF next = "fail" THEN Spend("faults", MaxFaults) ELSE UNCHANGED used
       /\ worker' = [worker EXCEPT ![w].pc = IF worker[w].buffer = {} THEN next ELSE "flush",
                                   ![w].after = next]
  /\ Aside /\ Row /\ UNCHANGED <<toolLog, queue, heard, blind>>

\* _ChunkBatcher.flush reads the row; a cancelled message drops the batch.
Flush(w) ==
  /\ worker[w].pc = "flush"
  /\ IF status = "CANCELLED"
     THEN worker' = [worker EXCEPT ![w].buffer = {},
            ![w].pc = IF worker[w].after = "fail" THEN "fail" ELSE "tools"]
     ELSE Load(w, "append")
  /\ Aside /\ Row /\ UNCHANGED <<toolLog, queue, heard, used, blind>>

\* append_chunk skips an index that exists; the text goes after the row's text.
Append(w) ==
  /\ worker[w].pc = "append"
  /\ LET new == worker[w].buffer \ chunks IN
     /\ chunks' = chunks \cup new
     /\ body' = [worker[w].text EXCEPT !.len = @ + Cardinality(new),
                   !.fence = IF worker[w].fence = None THEN @ ELSE worker[w].fence]
  /\ worker' = [worker EXCEPT ![w] = [Idle EXCEPT !.pc = worker[w].after, !.owns = worker[w].owns,
                                                  !.next = worker[w].next]]
  /\ Aside /\ UNCHANGED <<status, hash, toolLog, queue, heard, used, blind>>

\* The final transaction: a cancelled message returns, an empty one fails, any
\* other completes and its hash covers the text the transaction read.
Finish(w) ==
  /\ worker[w].pc = "finish"
  /\ IF status = "CANCELLED" THEN Enter(w, "tools") ELSE Load(w, "complete")
  /\ Aside /\ Row /\ UNCHANGED <<toolLog, queue, heard, used, blind>>

Complete(w) ==
  /\ worker[w].pc = "complete"
  /\ LET new == IF IsEmpty(worker[w].text) THEN "FAILED" ELSE "COMPLETED"
     IN  /\ status' = new /\ Announce(w, new, "tools")
         /\ hash' = IF new = "COMPLETED" THEN worker[w].text ELSE hash
  /\ Late(w, "complete")
  /\ Aside /\ UNCHANGED <<body, chunks, toolLog, queue, heard, used>>

\* The error path: a message that is not cancelled becomes PARTIAL or FAILED.
Fail(w) ==
  /\ worker[w].pc = "fail"
  /\ IF status = "CANCELLED" THEN Enter(w, "raised") ELSE Load(w, "failing")
  /\ Aside /\ Row /\ UNCHANGED <<toolLog, queue, heard, used, blind>>

Failing(w) ==
  /\ worker[w].pc = "failing"
  /\ status' = TerminalStatus(worker[w].next)
  /\ Announce(w, TerminalStatus(worker[w].next), "raised")
  /\ Late(w, "fail")
  /\ Aside /\ UNCHANGED <<body, hash, chunks, toolLog, queue, heard, used>>

Publish(w) ==
  /\ worker[w].pc = "publish"
  /\ heard' = worker[w].event
  /\ Enter(w, worker[w].after)
  /\ Aside /\ Row /\ UNCHANGED <<toolLog, queue, used, blind>>
-----------------------------------------------------------------------------
(* run_tool_rounds *)
\* A completed message with an open fence and rounds left runs the tool, outside
\* any transaction; a logged "done" row of the same call is reused.
ToolScan(w) ==
  /\ worker[w].pc = "tools"
  /\ IF status = "COMPLETED" /\ Marks(body) < MaxRounds /\ body.fence # None
     THEN /\ Load(w, IF body.marks[body.fence] >= MaxSameCall THEN "circuit" ELSE "tool")
          /\ blind' = IF worker[w].owns THEN blind ELSE blind \cup {"tools"}
     ELSE Leave(w) /\ UNCHANGED blind
  /\ Aside /\ Row /\ UNCHANGED <<toolLog, queue, heard, used>>

\* The result block replaces the fence in the text read before the tool ran, the
\* hash follows, the message streams again.  The log row's key is the call: a
\* second row for it breaks the transaction.
ToolWrite(w) ==
  /\ worker[w].pc = "tool"
  /\ \E outcome \in {"done", "failed"} :
       LET text == worker[w].text
           call == text.fence
           reused == toolLog[call] = "done"
       IN  IF toolLog[call] = "failed"
           THEN Enter(w, "raised") /\ Row /\ UNCHANGED toolLog
           ELSE /\ body' = Marked(text) /\ hash' = Marked(text)
                /\ status' = StatusSet(status, "STREAMING")
                /\ toolLog' = IF reused THEN toolLog ELSE [toolLog EXCEPT ![call] = outcome]
                /\ Enter(w, "start") /\ UNCHANGED chunks
  /\ Aside /\ UNCHANGED <<queue, heard, used, blind>>
\* Mutant: the circuit breaker rewrites the text and keeps the hash.
CircuitBreakUnhashed(w) ==
  /\ worker[w].pc = "circuit"
  /\ body' = Marked(worker[w].text) /\ UNCHANGED hash
  /\ Leave(w)
  /\ Aside /\ UNCHANGED <<status, chunks, toolLog, queue, heard, used, blind>>

\* The same call twice: a hint replaces the fence and the message stays COMPLETED.
CircuitBreak(w) ==
  /\ worker[w].pc = "circuit"
  /\ body' = Marked(worker[w].text) /\ hash' = Marked(worker[w].text)
  /\ Leave(w)
  /\ Aside /\ UNCHANGED <<status, chunks, toolLog, queue, heard, used, blind>>

-----------------------------------------------------------------------------
(* The end of a task that raised, and of one whose worker dies *)
\* Mutant: no fallback settles the message of a task that raised.
RaisedSilently(w) ==
  /\ worker[w].pc = "raised"
  /\ Enter(w, "retry")
  /\ Aside /\ Row /\ UNCHANGED <<toolLog, queue, heard, used, blind>>

\* The fallback of generate_chat settles a message left PENDING or STREAMING.
Raised(w) ==
  /\ worker[w].pc = "raised"
  /\ IF status \in {"PENDING", "STREAMING"} THEN Load(w, "fallback") ELSE Enter(w, "retry")
  /\ Aside /\ Row /\ UNCHANGED <<toolLog, queue, heard, used, blind>>

Fallback(w) ==
  /\ worker[w].pc = "fallback"
  /\ LET new == TerminalStatus(IF IsEmpty(worker[w].text) THEN 0 ELSE 1)
     IN  status' = new /\ Announce(w, new, "retry")
  /\ blind' = IF worker[w].row # status \/ (status = "STREAMING" /\ ~worker[w].owns)
              THEN blind \cup {"fallback"} ELSE blind
  /\ Aside /\ UNCHANGED <<body, hash, chunks, toolLog, queue, heard, used>>

\* autoretry_for delivers the task again a bounded number of times.
Retry(w) ==
  /\ worker[w].pc = "retry"
  /\ Leave(w)
  /\ \/ Spend("retries", MaxRetries) /\ queue' = queue + 1
     \/ used.retries = MaxRetries /\ UNCHANGED <<used, queue>>
  /\ Aside /\ Row /\ UNCHANGED <<toolLog, heard, blind>>

\* A worker dies; its unacknowledged delivery returns, or an in-process queue
\* loses it.
Crash(w) ==
  /\ worker[w].pc # "idle"
  /\ Lose
  /\ worker' = [worker EXCEPT ![w] = Idle]
  /\ queue' \in {queue, queue + 1}
  /\ Aside /\ Row /\ UNCHANGED <<toolLog, heard, blind>>

\* The broker delivers a running task once more (its visibility timeout passed).
Redeliver(w) ==
  /\ worker[w].pc # "idle"
  /\ Spend("faults", MaxFaults)
  /\ queue' = queue + 1
  /\ Aside /\ Row /\ UNCHANGED <<toolLog, worker, heard, blind>>

-----------------------------------------------------------------------------
(* The placeholder of an agent run *)

\* The run ends; the process that ended it writes the outcome back, unless it dies.
RunEnds(p) ==
  /\ run = "ACTIVE" /\ writer[p].pc = "idle"
  /\ \E final \in Settled :
       /\ run' = final
       /\ \/ writer' = [writer EXCEPT ![p].pc = "load", ![p].final = final] /\ UNCHANGED used
          \/ Lose /\ UNCHANGED writer
  /\ UNCHANGED <<message, toolLog, queue, worker, http, heard, blind>>

\* A failed run is retried; its message keeps the status it has.
RunRevived ==
  /\ run = "FAILED" /\ sender = "done"
  /\ Spend("revivals", MaxRevivals)
  /\ run' = "ACTIVE"
  /\ UNCHANGED <<message, toolLog, queue, worker, http, writer, heard, blind>>
\* Mutant: the sweep looks at completed runs only.
SweepCompleted(p) ==
  /\ run = "COMPLETED" /\ status \notin Settled
  /\ writer[p].pc = "idle"
  /\ writer' = [writer EXCEPT ![p].pc = "load", ![p].final = run]
  /\ UNCHANGED <<message, toolLog, queue, worker, http, run, heard, used, blind>>

\* sweep_stale_run_messages, pass 1: terminal runs whose message never flipped.
SweepRun(p) ==
  /\ run \in Settled /\ status \notin Settled
  /\ writer[p].pc = "idle"
  /\ writer' = [writer EXCEPT ![p].pc = "load", ![p].final = run]
  /\ UNCHANGED <<message, toolLog, queue, worker, http, run, heard, used, blind>>

\* writeback_run_message: the summary replaces the content; a message read as
\* CANCELLED keeps its status, any other takes the outcome that was handed over.
WriterLoad(p) ==
  /\ writer[p].pc = "load"
  /\ writer' = [writer EXCEPT ![p].pc = "write", ![p].row = status]
  /\ UNCHANGED <<message, toolLog, queue, worker, http, run, heard, used, blind>>
\* Mutant: a settled message is never written again.
WriterWriteOnce(p) ==
  /\ writer[p].pc = "write"
  /\ IF writer[p].row \in Settled
     THEN writer' = [writer EXCEPT ![p] = NoWrite] /\ UNCHANGED status
     ELSE writer' = [writer EXCEPT ![p].pc = "publish"] /\ status' = writer[p].final
  /\ body' = [EmptyBody EXCEPT !.len = 1]
  /\ blind' = IF writer[p].final # run THEN blind \cup {"writer"} ELSE blind
  /\ UNCHANGED <<owner, hash, chunks, toolLog, queue, worker, http, run, heard, used>>

WriterWrite(p) ==
  /\ writer[p].pc = "write"
  /\ IF writer[p].row = "CANCELLED"
     THEN writer' = [writer EXCEPT ![p] = NoWrite] /\ UNCHANGED status
     ELSE writer' = [writer EXCEPT ![p].pc = "publish"] /\ status' = writer[p].final
  /\ body' = [EmptyBody EXCEPT !.len = 1]
  /\ blind' = IF writer[p].final # run THEN blind \cup {"writer"} ELSE blind
  /\ UNCHANGED <<owner, hash, chunks, toolLog, queue, worker, http, run, heard, used>>

WriterPublish(p) ==
  /\ writer[p].pc = "publish"
  /\ writer' = [writer EXCEPT ![p] = NoWrite]
  /\ heard' = writer[p].final
  /\ UNCHANGED <<message, toolLog, queue, worker, http, run, used, blind>>

-----------------------------------------------------------------------------
\* The dispatcher answers a message with a chat reply or with an agent run.
Dispatch == SendChat \/ SendRun

Request ==
  \/ Dispatch \/ SendEnqueue \/ SendFails \/ RunStart
  \/ Stop \/ StopPublish
  \/ \E r \in Requests : RequeueRead(r) \/ RequeueWrite(r) \/ RequeueEnqueue(r)

Chat(w) ==
  \/ Take(w) \/ Prepass(w) \/ Gate(w) \/ Refuse(w) \/ Claim(w) \/ ClaimLost(w)
  \/ CompileFails(w) \/ Build(w) \/ Start(w) \/ Open(w) \/ Frame(w) \/ Probe(w)
  \/ StreamEnds(w) \/ Flush(w) \/ Append(w) \/ Finish(w) \/ Complete(w)
  \/ Fail(w) \/ Failing(w) \/ Publish(w) \/ ToolScan(w) \/ ToolWrite(w)
  \/ CircuitBreak(w) \/ Raised(w) \/ Fallback(w) \/ Retry(w)

Report(p) == SweepRun(p) \/ WriterLoad(p) \/ WriterWrite(p) \/ WriterPublish(p)

Next ==
  \/ Request
  \/ \E w \in Workers : Chat(w) \/ Crash(w) \/ Redeliver(w)
  \/ \E p \in Writers : RunEnds(p) \/ Report(p)
  \/ RunRevived

\* A handler that has begun goes on, workers take deliveries and drive their task,
\* and the sweeper is scheduled every few minutes.  Nobody has to stop, retry or
\* end anything; a stream has finitely many frames and then ends.
Fairness ==
  /\ WF_vars(SendEnqueue \/ SendFails \/ RunStart)
  /\ WF_vars(StopPublish)
  /\ \A r \in Requests : WF_vars(RequeueWrite(r)) /\ WF_vars(RequeueEnqueue(r))
  /\ \A w \in Workers : WF_vars(Chat(w))
  /\ \A p \in Writers : WF_vars(Report(p))

Spec == Init /\ [][Next]_vars /\ Fairness
-----------------------------------------------------------------------------
(* Properties *)

WorkerPCs == {"idle", "prepass", "gate", "claim", "claimed", "unsupported", "start", "open",
              "stream", "flush", "append", "finish", "complete", "fail", "failing", "publish",
              "tools", "tool", "circuit", "raised", "fallback", "retry"}

Statuses == Active \cup Settled
Bodies == [len : Nat, marks : [Calls -> Nat], fence : Calls \cup {None}]
Executions ==
  [pc : WorkerPCs, row : Statuses \cup {None}, text : Bodies, next : 0..MaxFrames,
   buffer : SUBSET (0..(MaxFrames - 1)), fence : Calls \cup {None},
   after : WorkerPCs \cup {None}, event : Statuses \cup {None}, owns : BOOLEAN]
WriteBacks ==
  [pc : {"idle", "load", "write", "publish"}, row : Statuses \cup {None},
   final : Settled \cup {None}]

TypeOK ==
  /\ owner \in {None, "chat", "run"} /\ status \in Statuses
  /\ body \in Bodies /\ hash \in Bodies /\ chunks \subseteq 0..(MaxFrames - 1)
  /\ toolLog \in [Calls -> {None, "done", "failed"}]
  /\ queue \in Nat /\ worker \in [Workers -> Executions]
  /\ sender \in {"idle", "enqueue", "start", "done"} /\ stopper \in {"idle", "publish"}
  /\ request \in [Requests -> [pc : {"idle", "write", "enqueue"}, resume : BOOLEAN]]
  /\ run \in {None, "ACTIVE"} \cup Settled /\ writer \in [Writers -> WriteBacks]
  /\ heard \in Statuses \cup {None}
  /\ used \in [{"retries", "requests", "faults", "lost", "revivals"} -> Nat]

\* The worker owns the stream of the message.
Streaming(w) == worker[w].pc \in {"claimed", "start", "open", "stream", "flush", "append",
                                  "finish", "complete", "fail", "failing", "tool"}

\* At most one execution streams into the message, however many deliveries, retries
\* and redeliveries there are, as long as nobody wrote on a row that had changed.
OneStream ==
  \A v, w \in Workers : Streaming(v) /\ Streaming(w) => v = w \/ blind # {}

\* Every frame the subscribers saw is in the text when the reply completes: the
\* indexes of a continued reply start after the stored ones.
NoFrameLost ==
  \A w \in Workers : worker[w].pc = "complete" => chunks = 0..(worker[w].next - 1) \/ blind # {}

\* The hash of a completed reply covers the text the user sees, after every
\* continuation, tool round and circuit break.
HashCoversBody ==
  owner = "chat" /\ status = "COMPLETED" => hash = body \/ blind # {}

\* A settled placeholder reports the end its run came to, retries of the run
\* included, unless a write-back was lost or carried an earlier end.
ReportsTheRun ==
  /\ owner = "run" /\ run \in Settled /\ status \in Settled
  /\ \A p \in Writers : writer[p].pc = "idle"
  /\ used.lost = 0 /\ blind = {}
  => status = run

\* A generation that starts afresh (PENDING) never finds text: the old and the new
\* text would be joined.  Only PARTIAL messages are continued.
FreshStartsEmpty ==
  [][\A w \in Workers :
       Claim(w) /\ worker[w].row = "PENDING" => IsEmpty(body) \/ blind' # {}]_vars

\* A cancelled reply stays cancelled, except for a write that relied on an earlier
\* status, or on none.
CancelHolds ==
  [][owner = "chat" /\ status = "CANCELLED" /\ status' # "CANCELLED" => blind' # {}]_vars

\* A reply that is pending or streaming settles, or becomes PARTIAL, unless its
\* worker died or its delivery was lost.
MessageSettles ==
  (owner = "chat" /\ status \in {"PENDING", "STREAMING"})
    ~> (status \in Settled \cup {"PARTIAL"} \/ used.lost > 0)

\* Whoever watches a claimed reply gets a terminal event.
TailEnds ==
  (status = "STREAMING") ~> (heard # None \/ used.lost > 0)

\* The placeholder of a run that ended settles, even when the process that ended
\* the run died before its write-back.
PlaceholderSettles == (run \in Settled) ~> (status \in Settled \/ run = "ACTIVE")

\* Claims the code's comments make, which it does not keep.
CancelledIsFinal == [][status = "CANCELLED" => status' = "CANCELLED"]_vars
ToolsNeverRaise ==
  [][\A w \in Workers : worker[w].pc = "tool" => worker'[w].pc # "raised"]_vars
=============================================================================
