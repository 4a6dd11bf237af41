----------------------------- MODULE ModelServer -----------------------------
(***************************************************************************)
(* The local embedding model: its weights on disk and its llama-server,    *)
(* shared by every process of the host and coordinated by lock files       *)
(* (infrastructure/embeddings/llama_server.py).                            *)
(*                                                                         *)
(* A caller is one process with one embedder at a time.  Its attempt makes *)
(* sure that the weights exist (lock "fetch") and that a server answers    *)
(* (lock "serve"), sends its request, and restarts the server once if the  *)
(* request fails.  Every system call is a step: between the failed open of *)
(* a lock file and its stat, and between the stat and the unlink of a      *)
(* stale one, anything may happen.                                         *)
(***************************************************************************)
EXTENDS Naturals, FiniteSets

CONSTANTS
    Callers,        \* processes (api, workers), each with one attempt at a time
    Slots,          \* names for server processes, reused when one is gone
    None, Left,     \* no lock file; a lock file whose process died
    Scenarios       \* what may go wrong: budgets of faults

Locks == {"fetch", "serve"}
Faults == {"crash", "slow", "fetch", "request", "exit"}

ASSUME SlotsAssumption == None \notin Slots /\ None # Left /\ {None, Left} \cap Callers = {}
ASSUME FaultsAssumption == Scenarios \subseteq [Faults -> Nat]

VARIABLES
    weights,        \* the GGUF file is in a search root
    status,         \* state of status.<model>.json
    lock,           \* download.lock and server.<model>.lock: who created it
    old,            \* its mtime is beyond the threshold of staleness
    server,         \* the llama-server processes
    caller,         \* the locals of each caller's attempt
    left,           \* faults that may still happen
    calm,           \* history: nothing has failed so far
    stolen          \* history: a lock grew stale under a live holder, or one
                    \* that was not stale was removed as if it were

files == <<weights, status>>
vars == <<weights, status, lock, old, server, caller, left, calm, stolen>>

Live == {"starting", "loading", "serving"}
Places ==
    {<<step>> : step \in {"idle", "weights", "announce", "fetch", "publish", "recheck",
                          "spawn", "await", "request", "restart", "look"}}
    \cup ({"open", "stat", "poll", "break", "unlink"} \X Locks)

Attempts == [at : Places, goal : Locks, own : Slots \cup {None}, bad : BOOLEAN,
             again : BOOLEAN, verdict : {"none", "ok", "failed"}]
Fresh == [at |-> <<"idle">>, goal |-> "serve", own |-> None, bad |-> FALSE,
          again |-> FALSE, verdict |-> "none"]

Init ==
    /\ weights \in BOOLEAN
    /\ status = "none"
    /\ lock = [k \in Locks |-> None]
    /\ old = [k \in Locks |-> FALSE]
    /\ server = [s \in Slots |-> "none"]
    /\ caller = [c \in Callers |-> Fresh]
    /\ left \in Scenarios
    /\ calm = TRUE
    /\ stolen = [k \in Locks |-> FALSE]

-----------------------------------------------------------------------------
(* Steps of an attempt change the caller's locals, and may use up a fault. *)

At(c, place) == caller[c].at = place
Becomes(c, attempt) == caller' = [caller EXCEPT ![c] = attempt]
Moves(c, place) == Becomes(c, [caller[c] EXCEPT !.at = place])
MovesBadly(c, place) == Becomes(c, [caller[c] EXCEPT !.at = place, !.bad = TRUE])
Ends(c, verdict) == Becomes(c, [Fresh EXCEPT !.verdict = verdict])

Faulty(fault) ==
    /\ left[fault] > 0
    /\ left' = [left EXCEPT ![fault] = @ - 1]
    /\ calm' = FALSE
NoFault == UNCHANGED <<left, calm>>

(* /health: a serving process answers, one that is going down may or may   *)
(* not.  The registered pid and /v1/models then say that it is ours.       *)
Answers == \E s \in Slots : server[s] = "serving"
MayAnswer == \E s \in Slots : server[s] \in {"serving", "dying"}
PortInUse == \E s \in Slots : server[s] \in {"loading", "serving", "dying"}

Begin(c, goal) ==
    /\ At(c, <<"idle">>)
    /\ Becomes(c, [caller[c] EXCEPT !.at = <<"weights">>, !.goal = goal])
    /\ NoFault
    /\ UNCHANGED <<files, lock, old, server, stolen>>

HasWeights(c) == \* what follows ensure_model_ready
    IF caller[c].goal = "fetch" THEN Ends(c, "ok") ELSE Moves(c, <<"look">>)

FindWeights(c) ==
    /\ At(c, <<"weights">>)
    /\ IF weights
       THEN /\ status' = "ready"
            /\ HasWeights(c)
       ELSE /\ Moves(c, <<"open", "fetch">>)
            /\ UNCHANGED status
    /\ NoFault
    /\ UNCHANGED <<weights, lock, old, server, stolen>>

-----------------------------------------------------------------------------
(* A lock file: O_EXCL, the age of the one that is there, and its removal. *)

AfterOpen == [fetch |-> <<"announce">>, serve |-> <<"recheck">>]

Open(c, k) ==
    /\ At(c, <<"open", k>>)
    /\ IF lock[k] = None
       THEN /\ lock' = [lock EXCEPT ![k] = c]
            /\ old' = [old EXCEPT ![k] = FALSE]
            /\ Moves(c, AfterOpen[k])
       ELSE /\ Moves(c, <<"stat", k>>)
            /\ UNCHANGED <<lock, old>>
    /\ NoFault
    /\ UNCHANGED <<files, server, stolen>>

NeverStale(k) == FALSE \* mutant: a lock file is never taken for stale

Stale(k) == old[k]

Stat(c, k) ==
    /\ At(c, <<"stat", k>>)
    /\ lock[k] # None
    /\ Moves(c, <<IF Stale(k) THEN "break" ELSE "poll", k>>)
    /\ NoFault
    /\ UNCHANGED <<files, lock, old, server, stolen>>

StatOfNothing(c, k) == \* FileNotFoundError, which nobody catches
    /\ At(c, <<"stat", k>>)
    /\ lock[k] = None
    /\ Ends(c, "failed")
    /\ calm' = FALSE
    /\ UNCHANGED <<files, lock, old, server, left, stolen>>

Break(c, k) ==
    /\ At(c, <<"break", k>>)
    /\ lock' = [lock EXCEPT ![k] = None]
    /\ stolen' = [stolen EXCEPT ![k] = @ \/ (lock[k] # None /\ ~old[k])]
    /\ Moves(c, <<"open", k>>)
    /\ NoFault
    /\ UNCHANGED <<files, old, server>>

Unlink(c, k) == \* the finally clause, whoever the file belongs to by now
    /\ At(c, <<"unlink", k>>)
    /\ lock' = [lock EXCEPT ![k] = None]
    /\ IF caller[c].bad THEN Ends(c, "failed")
       ELSE IF k = "fetch" THEN HasWeights(c)
       ELSE Moves(c, <<"request">>)
    /\ NoFault
    /\ UNCHANGED <<files, old, server, stolen>>

Again(c, k) == /\ Moves(c, <<"open", k>>) /\ NoFault

PollFetchUnlinks(c) == \* mutant: the finally clause covers the wait
    /\ At(c, <<"poll", "fetch">>)
    /\ \/ weights /\ HasWeights(c) /\ NoFault
       \/ ~weights /\ status = "error" /\ Ends(c, "failed") /\ NoFault
       \/ ~weights /\ status # "error" /\ Again(c, "fetch")
       \/ ~weights /\ status # "error" /\ Faulty("slow")
          /\ MovesBadly(c, <<"unlink", "fetch">>)
    /\ UNCHANGED <<files, lock, old, server, stolen>>

PollFetch(c) ==
    /\ At(c, <<"poll", "fetch">>)
    /\ \/ weights /\ HasWeights(c) /\ NoFault
       \/ ~weights /\ status = "error" /\ Ends(c, "failed") /\ NoFault
       \/ ~weights /\ status # "error" /\ Again(c, "fetch")
       \/ ~weights /\ status # "error" /\ Ends(c, "failed") /\ Faulty("slow")
    /\ UNCHANGED <<files, lock, old, server, stolen>>

PollServe(c) ==
    /\ At(c, <<"poll", "serve">>)
    /\ \/ MayAnswer /\ Moves(c, <<"request">>) /\ NoFault
       \/ ~Answers /\ Again(c, "serve")
       \/ ~Answers /\ lock["serve"] = Left /\ Ends(c, "failed") /\ NoFault
       \/ ~Answers /\ Ends(c, "failed") /\ Faulty("slow")
    /\ UNCHANGED <<files, lock, old, server, stolen>>

-----------------------------------------------------------------------------
(* Under the download lock. *)

Announce(c) ==
    /\ At(c, <<"announce">>)
    /\ status' = "downloading"
    /\ Moves(c, <<"fetch">>)
    /\ NoFault
    /\ UNCHANGED <<weights, lock, old, server, stolen>>

Fetch(c) ==
    /\ At(c, <<"fetch">>)
    /\ weights' = TRUE
    /\ Moves(c, <<"publish">>)
    /\ NoFault
    /\ UNCHANGED <<status, lock, old, server, stolen>>

Publish(c) ==
    /\ At(c, <<"publish">>)
    /\ status' = "ready"
    /\ Moves(c, <<"unlink", "fetch">>)
    /\ NoFault
    /\ UNCHANGED <<weights, lock, old, server, stolen>>

FetchFails(c) ==
    /\ At(c, <<"fetch">>)
    /\ Faulty("fetch")
    /\ status' = "error"
    /\ MovesBadly(c, <<"unlink", "fetch">>)
    /\ UNCHANGED <<weights, lock, old, server, stolen>>

-----------------------------------------------------------------------------
(* Under the spawn lock. *)

Look(c) ==
    /\ At(c, <<"look">>)
    /\ \/ MayAnswer /\ Moves(c, <<"request">>)
       \/ ~Answers /\ Moves(c, <<"open", "serve">>)
    /\ NoFault
    /\ UNCHANGED <<files, lock, old, server, stolen>>

RecheckNever(c) == \* mutant: no second look under the lock
    /\ At(c, <<"recheck">>)
    /\ Moves(c, <<"spawn">>)
    /\ NoFault
    /\ UNCHANGED <<files, lock, old, server, stolen>>

Recheck(c) ==
    /\ At(c, <<"recheck">>)
    /\ \/ MayAnswer /\ Moves(c, <<"unlink", "serve">>)
       \/ ~Answers /\ Moves(c, <<"spawn">>)
    /\ NoFault
    /\ UNCHANGED <<files, lock, old, server, stolen>>

(* The names that no process has and no embedder holds a handle of; their  *)
(* number bounds the server processes.                                     *)
FreeSlots == {s \in Slots : server[s] = "none" /\ \A c \in Callers : caller[c].own # s}
NewSlot == CHOOSE s \in FreeSlots : TRUE

SpawnOnTakenPort(c) == \* mutant: the port is not probed
    /\ At(c, <<"spawn">>)
    /\ FreeSlots # {}
    /\ server' = [server EXCEPT ![NewSlot] = "starting"]
    /\ Becomes(c, [caller[c] EXCEPT !.at = <<"await">>, !.own = NewSlot])
    /\ NoFault
    /\ UNCHANGED <<files, lock, old, stolen>>

Spawn(c) ==
    /\ At(c, <<"spawn">>)
    /\ IF PortInUse
       THEN /\ MovesBadly(c, <<"unlink", "serve">>)
            /\ UNCHANGED server
       ELSE /\ FreeSlots # {}
            /\ server' = [server EXCEPT ![NewSlot] = "starting"]
            /\ Becomes(c, [caller[c] EXCEPT !.at = <<"await">>, !.own = NewSlot])
    /\ NoFault
    /\ UNCHANGED <<files, lock, old, stolen>>

Await(c) ==
    /\ At(c, <<"await">>)
    /\ LET own == server[caller[c].own]
       IN \/ own = "none" /\ MovesBadly(c, <<"unlink", "serve">>) /\ NoFault
          \/ own # "none" /\ MayAnswer /\ Moves(c, <<"unlink", "serve">>) /\ NoFault
          \/ own \in {"loading", "dying"} /\ ~Answers /\ MovesBadly(c, <<"unlink", "serve">>) /\ Faulty("slow")
    /\ UNCHANGED <<files, lock, old, server, stolen>>

-----------------------------------------------------------------------------
(* The request, and the one restart when it fails. *)

Request(c) ==
    /\ At(c, <<"request">>)
    /\ Answers
    /\ Ends(c, "ok")
    /\ NoFault
    /\ UNCHANGED <<files, lock, old, server, stolen>>

RequestFails(c) ==
    /\ At(c, <<"request">>)
    /\ IF Answers THEN Faulty("request") ELSE NoFault
    /\ IF caller[c].again THEN Ends(c, "failed") ELSE Moves(c, <<"restart">>)
    /\ UNCHANGED <<files, lock, old, server, stolen>>

(* SIGTERM to the process we spawned: one that serves closes in its time.  *)
Terminated(s) == IF server[s] \in {"serving", "dying"} THEN "dying" ELSE "none"

Restart(c) ==
    /\ At(c, <<"restart">>)
    /\ server' = [s \in Slots |-> IF s = caller[c].own THEN Terminated(s) ELSE server[s]]
    /\ Becomes(c, [caller[c] EXCEPT !.at = <<"look">>, !.own = None, !.again = TRUE])
    /\ NoFault
    /\ UNCHANGED <<files, lock, old, stolen>>

-----------------------------------------------------------------------------
(* The host: server processes, time and crashes. *)

(* Only one process can listen on the port: another one exits. *)
Bind(s) ==
    /\ server[s] = "starting"
    /\ server' = [server EXCEPT ![s] = IF PortInUse THEN "none" ELSE "loading"]
    /\ NoFault
    /\ UNCHANGED <<files, lock, old, caller, stolen>>

(* Loading the weights takes seconds, binding the port moments. *)
Settled == \A s \in Slots : server[s] # "starting"

Loaded(s) ==
    /\ server[s] = "loading"
    /\ Settled
    /\ server' = [server EXCEPT ![s] = "serving"]
    /\ NoFault
    /\ UNCHANGED <<files, lock, old, caller, stolen>>

Gone(s) ==
    /\ server[s] = "dying"
    /\ server' = [server EXCEPT ![s] = "none"]
    /\ NoFault
    /\ UNCHANGED <<files, lock, old, caller, stolen>>

Exits(s) ==
    /\ server[s] \in Live
    /\ Faulty("exit")
    /\ server' = [server EXCEPT ![s] = "none"]
    /\ UNCHANGED <<files, lock, old, caller, stolen>>

(* Ten or fifteen minutes pass: a server that was starting has bound its   *)
(* port or exited by then, a live holder is still at work only if slow.    *)
Ages(k) ==
    /\ lock[k] # None
    /\ ~old[k]
    /\ Settled
    /\ old' = [old EXCEPT ![k] = TRUE]
    /\ IF lock[k] = Left THEN NoFault ELSE Faulty("slow")
    /\ stolen' = [stolen EXCEPT ![k] = @ \/ lock[k] # Left]
    /\ UNCHANGED <<files, lock, server, caller>>

Crash(c) == \* the servers are detached and survive
    /\ ~At(c, <<"idle">>)
    /\ Faulty("crash")
    /\ Ends(c, "none")
    /\ lock' = [k \in Locks |-> IF lock[k] = c THEN Left ELSE lock[k]]
    /\ UNCHANGED <<files, old, server, stolen>>

-----------------------------------------------------------------------------
Attempt(c) ==
    \/ \E goal \in Locks : Begin(c, goal)
    \/ FindWeights(c)
    \/ \E k \in Locks : Open(c, k) \/ Stat(c, k) \/ StatOfNothing(c, k) \/ Break(c, k) \/ Unlink(c, k)
    \/ PollFetch(c) \/ Announce(c) \/ Fetch(c) \/ Publish(c)
    \/ Look(c) \/ PollServe(c) \/ Recheck(c) \/ Spawn(c) \/ Await(c)
    \/ Request(c) \/ RequestFails(c) \/ Restart(c)

Next ==
    \/ \E c \in Callers : Attempt(c) \/ FetchFails(c) \/ Crash(c)
    \/ \E s \in Slots : Bind(s) \/ Loaded(s) \/ Gone(s) \/ Exits(s)
    \/ \E k \in Locks : Ages(k)

(* Attempts go on and new ones begin (jobs are re-armed, chats retrieve),  *)
(* server processes start and stop, and time passes.                       *)
Fairness ==
    /\ \A c \in Callers : WF_vars(Attempt(c))
    /\ \A s \in Slots : WF_vars(Bind(s) \/ Loaded(s) \/ Gone(s))
    /\ \A k \in Locks : WF_vars(lock[k] = Left /\ Ages(k))

Spec == Init /\ [][Next]_vars /\ Fairness

-----------------------------------------------------------------------------
(* Types, with a slot for every server process that can be alive. *)
TypeOK ==
    /\ weights \in BOOLEAN
    /\ status \in {"none", "downloading", "ready", "error"}
    /\ lock \in [Locks -> Callers \cup {None, Left}]
    /\ old \in [Locks -> BOOLEAN]
    /\ server \in [Slots -> Live \cup {"none", "dying"}]
    /\ caller \in [Callers -> Attempts]
    /\ left \in [Faults -> Nat]
    /\ calm \in BOOLEAN
    /\ stolen \in [Locks -> BOOLEAN]

(* One downloads while the others wait, and there is "at most one          *)
(* llama-server per model, shared by every process on the host"            *)
(* (LLAMA_MODELS), whoever crashes, times out or restarts it.  To have two *)
(* it takes a lock that grew stale under a live holder, as that of a       *)
(* download of more than fifteen minutes does, or a caller that removes    *)
(* for stale a lock file younger than the one it looked at.                *)
OneAtWork ==
    /\ ~stolen["fetch"] => Cardinality({c \in Callers : At(c, <<"fetch">>)}) <= 1
    /\ ~stolen["serve"] => Cardinality({s \in Slots : server[s] \in Live}) <= 1

(* Concurrency alone fails nobody: without a fault every attempt that ends *)
(* has its embedding, however the attempts meet at the locks and the port. *)
(* (The stat of a lock file that was removed since the open counts as a    *)
(* fault: see the findings.)                                               *)
Blameless == calm => \A c \in Callers : caller[c].verdict # "failed"

(* Once faults stop, attempts stop failing: no lock file, status file or   *)
(* half-started server that a dead process left behind is in the way.      *)
Heals == <>[](\A c \in Callers : caller[c].verdict # "failed")

=============================================================================
