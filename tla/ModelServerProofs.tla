------------------------- MODULE ModelServerProofs -------------------------
(***************************************************************************)
(* Proofs about ModelServer, for any number of processes and any faults:   *)
(* one server at a time unless a lock was taken from its holder, and no    *)
(* failure without a fault.                                                *)
(*                                                                         *)
(* Safe is what holds of locks and servers whatever happens, Calm what     *)
(* holds besides until the first fault; each is inductive with TypeOK.     *)
(***************************************************************************)
EXTENDS ModelServer, FiniteSetTheorems, TLAPS

(* Where a caller is between the open of a lock file and its unlink. *)
Critical ==
    [fetch |-> {<<"announce">>, <<"fetch">>, <<"publish">>, <<"unlink", "fetch">>},
     serve |-> {<<"recheck">>, <<"spawn">>, <<"await">>, <<"unlink", "serve">>}]

AwaitsIts(c, s) == At(c, <<"await">>) /\ caller[c].own = s

(* A caller that waits for a server holds the handle of one. *)
HasHandle == \A c \in Callers : At(c, <<"await">>) => caller[c].own \in Slots

(* Who works under a lock created its file, which has not grown stale. *)
HoldersHold ==
    \A k \in Locks : ~stolen[k] =>
        /\ \A c \in Callers : caller[c].at \in Critical[k] => lock[k] = c
        /\ lock[k] \in Callers => ~old[k]

(* One process, and as long as it has not bound the port, it is behind the *)
(* lock of the caller that waits for it, or behind what a crash left of it. *)
OneServer == \A s, r \in Slots : server[s] # "none" /\ server[r] # "none" => s = r
StartIsGuarded ==
    \A s \in Slots : server[s] = "starting" =>
        \/ lock["serve"] = Left /\ ~old["serve"]
        \/ \E c \in Callers : AwaitsIts(c, s) /\ lock["serve"] = c
ServersApart == ~stolen["serve"] => OneServer /\ StartIsGuarded

(* Until the first fault nothing is left over, and each caller finds what its *)
(* place promises: an answering server, one on its way, or a free port.       *)
CalmLocks == \A k \in Locks : lock[k] # Left /\ ~old[k] /\ ~stolen[k]
CalmCaller(c) ==
    /\ ~caller[c].bad /\ caller[c].verdict # "failed"
    /\ caller[c].at \notin {<<"restart">>, <<"break", "fetch">>, <<"break", "serve">>}
    /\ caller[c].at \in {<<"request">>, <<"unlink", "serve">>} => Answers
    /\ At(c, <<"await">>) => server[caller[c].own] \in Live
    /\ At(c, <<"spawn">>) => \A s \in Slots : server[s] = "none"
CalmServer(s) ==
    /\ server[s] # "dying"
    /\ server[s] \in {"starting", "loading"} => \E c \in Callers : AwaitsIts(c, s)
Untroubled ==
    /\ status # "error"
    /\ CalmLocks
    /\ \A c \in Callers : CalmCaller(c)
    /\ \A s \in Slots : CalmServer(s)
Calm == calm => Untroubled

-----------------------------------------------------------------------------
(* What a step does to the attempt of its caller, field by field. *)
Goes(c, at, own, bad, verdict) ==
    /\ caller' \in [Callers -> Attempts]
    /\ caller'[c].at = at /\ caller'[c].own = own
    /\ caller'[c].bad = bad /\ caller'[c].verdict = verdict
    /\ \A d \in Callers \ {c} : caller'[d] = caller[d]

(* The four ways a step changes an attempt, seen field by field. *)
LEMMA PutAttempt ==
  ASSUME TypeOK, NEW c \in Callers, NEW a \in Attempts, Becomes(c, a)
  PROVE  Goes(c, a.at, a.own, a.bad, a.verdict)
<1>1. caller' = [caller EXCEPT ![c] = a] /\ caller \in [Callers -> Attempts]
  BY DEF Becomes, TypeOK
<1>2. caller' \in [Callers -> Attempts] /\ caller'[c] = a
      /\ \A d \in Callers \ {c} : caller'[d] = caller[d]
  BY <1>1
<1> QED BY <1>2 DEF Goes

LEMMA MovesGoes ==
  ASSUME TypeOK, NEW c \in Callers, NEW place \in Places, Moves(c, place)
  PROVE  Goes(c, place, caller[c].own, caller[c].bad, caller[c].verdict)
<1> DEFINE a == [caller[c] EXCEPT !.at = place]
<1>1. caller[c] \in Attempts
  BY DEF TypeOK
<1>2. /\ a \in Attempts /\ a.at = place /\ a.own = caller[c].own /\ a.bad = caller[c].bad
      /\ a.verdict = caller[c].verdict
  BY <1>1 DEF Attempts
<1>3. Becomes(c, a)
  BY DEF Moves
<1> HIDE DEF a
<1>4. Goes(c, a.at, a.own, a.bad, a.verdict)
  BY <1>2, <1>3, PutAttempt
<1> QED BY <1>2, <1>4

LEMMA MovesBadlyGoes ==
  ASSUME TypeOK, NEW c \in Callers, NEW place \in Places, MovesBadly(c, place)
  PROVE  Goes(c, place, caller[c].own, TRUE, caller[c].verdict)
<1> DEFINE a == [caller[c] EXCEPT !.at = place, !.bad = TRUE]
<1>1. caller[c] \in Attempts
  BY DEF TypeOK
<1>2. /\ a \in Attempts /\ a.at = place /\ a.own = caller[c].own /\ a.bad = TRUE
      /\ a.verdict = caller[c].verdict
  BY <1>1 DEF Attempts
<1>3. Becomes(c, a)
  BY DEF MovesBadly
<1> HIDE DEF a
<1>4. Goes(c, a.at, a.own, a.bad, a.verdict)
  BY <1>2, <1>3, PutAttempt
<1> QED BY <1>2, <1>4

LEMMA EndsGoes ==
  ASSUME TypeOK, NEW c \in Callers, NEW verdict \in {"none", "ok", "failed"}, Ends(c, verdict)
  PROVE  Goes(c, <<"idle">>, None, FALSE, verdict)
<1> DEFINE a == [Fresh EXCEPT !.verdict = verdict]
<1>1. <<"idle">> \in Places
  BY DEF Places
<1>2. /\ a \in Attempts /\ a.at = <<"idle">> /\ a.own = None /\ a.bad = FALSE
      /\ a.verdict = verdict
  BY <1>1 DEF Attempts, Fresh, Locks
<1>3. Becomes(c, a)
  BY DEF Ends
<1> HIDE DEF a
<1>4. Goes(c, a.at, a.own, a.bad, a.verdict)
  BY <1>2, <1>3, PutAttempt
<1> QED BY <1>2, <1>4

(* The places of callers, and what a fault uses up. *)
LEMMA ThePlaces ==
  /\ \A p \in {"idle", "weights", "announce", "fetch", "publish", "recheck", "spawn", "await",
               "request", "restart", "look"} : <<p>> \in Places
  /\ \A p \in {"open", "stat", "poll", "break", "unlink"} : \A k \in Locks : <<p, k>> \in Places
  BY DEF Places, Locks

LEMMA FaultsCount ==
  ASSUME TypeOK, NEW fault \in Faults, Faulty(fault)
  PROVE  left' \in [Faults -> Nat] /\ calm' = FALSE
  BY DEF TypeOK, Faulty

(* Everything but the callers' attempts keeps its type. *)
OthersTyped ==
  /\ weights' \in BOOLEAN
  /\ status' \in {"none", "downloading", "ready", "error"}
  /\ lock' \in [Locks -> Callers \cup {None, Left}]
  /\ old' \in [Locks -> BOOLEAN]
  /\ server' \in [Slots -> Live \cup {"none", "dying"}]
  /\ left' \in [Faults -> Nat]
  /\ calm' \in BOOLEAN
  /\ stolen' \in [Locks -> BOOLEAN]

(* A step of a caller keeps the other types; a step of the host keeps all. *)
LEMMA OthersAttempt ==
  ASSUME TypeOK, NEW c \in Callers, Attempt(c) \/ FetchFails(c) \/ Crash(c)
  PROVE  OthersTyped
<1>1. UNCHANGED <<left, calm>> => left' \in [Faults -> Nat] /\ calm' \in BOOLEAN
  BY DEF TypeOK
<1>2. \A f \in Faults : Faulty(f) => left' \in [Faults -> Nat] /\ calm' \in BOOLEAN
  BY FaultsCount
<1> USE <1>1, <1>2 DEF OthersTyped, NoFault, files, Faults
<1>3. ASSUME NEW goal \in Locks, Begin(c, goal) PROVE OthersTyped
  BY <1>3 DEF Begin, TypeOK
<1>4. CASE FindWeights(c)
  BY <1>4 DEF FindWeights, TypeOK
<1>5. ASSUME NEW k \in Locks, Open(c, k) PROVE OthersTyped
  BY <1>5 DEF Open, TypeOK
<1>6. ASSUME NEW k \in Locks, Stat(c, k) PROVE OthersTyped
  BY <1>6 DEF Stat, TypeOK
<1>7. ASSUME NEW k \in Locks, StatOfNothing(c, k) PROVE OthersTyped
  BY <1>7 DEF StatOfNothing, TypeOK
<1>8. ASSUME NEW k \in Locks, Break(c, k) PROVE OthersTyped
  BY <1>8 DEF Break, TypeOK
<1>9. ASSUME NEW k \in Locks, Unlink(c, k) PROVE OthersTyped
  BY <1>9 DEF Unlink, TypeOK
<1>10. CASE PollFetch(c)
  BY <1>10 DEF PollFetch, Again, TypeOK
<1>11. CASE Announce(c) \/ Fetch(c) \/ Publish(c) \/ FetchFails(c)
  BY <1>11 DEF Announce, Fetch, Publish, FetchFails, TypeOK
<1>12. CASE PollServe(c) \/ Look(c) \/ Recheck(c) \/ Await(c)
  BY <1>12 DEF PollServe, Look, Recheck, Await, Again, TypeOK
<1>13. CASE Spawn(c)
  BY <1>13 DEF Spawn, TypeOK, Live
<1>14. CASE Request(c) \/ RequestFails(c)
  BY <1>14 DEF Request, RequestFails, TypeOK
<1>15. CASE Restart(c)
  BY <1>15 DEF Restart, Terminated, TypeOK, Live
<1>16. CASE Crash(c)
  BY <1>16 DEF Crash, TypeOK
<1> QED BY <1>3, <1>4, <1>5, <1>6, <1>7, <1>8, <1>9, <1>10, <1>11, <1>12, <1>13, <1>14, <1>15,
           <1>16 DEF Attempt

LEMMA HostTypes ==
  ASSUME TypeOK,
         \/ \E s \in Slots : Bind(s) \/ Loaded(s) \/ Gone(s) \/ Exits(s)
         \/ \E k \in Locks : Ages(k)
  PROVE  TypeOK'
<1>1. UNCHANGED <<left, calm>> => left' \in [Faults -> Nat] /\ calm' \in BOOLEAN
  BY DEF TypeOK
<1>2. \A f \in Faults : Faulty(f) => left' \in [Faults -> Nat] /\ calm' \in BOOLEAN
  BY FaultsCount
<1> USE <1>1, <1>2 DEF NoFault, files, Faults
<1>3. ASSUME NEW s \in Slots, Bind(s) \/ Loaded(s) \/ Gone(s) \/ Exits(s) PROVE TypeOK'
  BY <1>3 DEF Bind, Loaded, Gone, Exits, TypeOK, Live
<1>4. ASSUME NEW k \in Locks, Ages(k) PROVE TypeOK'
  BY <1>4 DEF Ages, TypeOK
<1> QED BY <1>3, <1>4
-----------------------------------------------------------------------------
(* Most steps only move a caller, and into no critical section.            *)
Quiet(c) ==
  /\ UNCHANGED <<lock, old, server, stolen>>
  /\ caller' \in [Callers -> Attempts]
  /\ \A d \in Callers \ {c} : caller'[d] = caller[d]
  /\ \A k \in Locks : caller'[c].at \in Critical[k] => caller[c].at \in Critical[k]
  /\ caller'[c].at # <<"await">>
  /\ ~stolen["serve"] /\ At(c, <<"await">>) => server[caller[c].own] # "starting"

(* A quiet step keeps the invariant, and these steps are quiet. *)
LEMMA QuietKeeps ==
  ASSUME TypeOK, HasHandle, HoldersHold, ServersApart, NEW c \in Callers, Quiet(c)
  PROVE  HasHandle' /\ HoldersHold' /\ ServersApart'
<1>1. HasHandle'
  BY DEF HasHandle, Quiet, At
<1>2. HoldersHold'
  <2> SUFFICES ASSUME NEW k \in Locks, ~stolen'[k]
               PROVE  /\ \A d \in Callers : caller'[d].at \in Critical[k] => lock'[k] = d
                      /\ lock'[k] \in Callers => ~old'[k]
    BY DEF HoldersHold
  <2>1. /\ \A d \in Callers : caller[d].at \in Critical[k] => lock[k] = d
        /\ lock[k] \in Callers => ~old[k]
    BY DEF HoldersHold, Quiet
  <2> QED BY <2>1 DEF Quiet
<1>3. ServersApart'
  <2> SUFFICES ASSUME ~stolen["serve"], OneServer, StartIsGuarded
               PROVE  OneServer' /\ StartIsGuarded'
    BY DEF ServersApart, Quiet
  <2>1. OneServer'
    BY DEF OneServer, Quiet
  <2>2. ASSUME NEW s \in Slots, server[s] = "starting", NEW d \in Callers, AwaitsIts(d, s)
        PROVE  AwaitsIts(d, s)'
    <3>1. d # c
      BY <2>2 DEF AwaitsIts, Quiet
    <3> QED BY <2>2, <3>1 DEF AwaitsIts, Quiet, At
  <2> QED BY <2>1, <2>2 DEF StartIsGuarded, Quiet
<1> QED BY <1>1, <1>2, <1>3

LEMMA QuietMoves ==
  ASSUME TypeOK, NEW c \in Callers,
         \/ \E goal \in Locks : Begin(c, goal)
         \/ FindWeights(c)
         \/ \E k \in Locks : Open(c, k) /\ lock[k] # None
         \/ \E k \in Locks : Stat(c, k) \/ StatOfNothing(c, k)
         \/ PollFetch(c) \/ Announce(c) \/ Fetch(c) \/ Publish(c) \/ FetchFails(c)
         \/ Look(c) \/ PollServe(c) \/ Recheck(c) \/ Request(c) \/ RequestFails(c)
  PROVE  Quiet(c)
<1>0. caller[c] \in Attempts /\ caller[c].at \in Places
  BY DEF TypeOK, Attempts
<1>1. ASSUME NEW place \in Places, Moves(c, place) \/ MovesBadly(c, place),
             UNCHANGED <<lock, old, server, stolen>>, place # <<"await">>, ~At(c, <<"await">>),
             \A k \in Locks : place \in Critical[k] => caller[c].at \in Critical[k]
      PROVE  Quiet(c)
  <2>1. /\ caller' \in [Callers -> Attempts] /\ caller'[c].at = place
        /\ \A d \in Callers \ {c} : caller'[d] = caller[d]
    <3>1. CASE Moves(c, place)
      BY <1>1, <3>1, MovesGoes DEF Goes
    <3>2. CASE MovesBadly(c, place)
      BY <1>1, <3>2, MovesBadlyGoes DEF Goes
    <3> QED BY <1>1, <3>1, <3>2
  <2>2. \A k \in Locks : caller'[c].at \in Critical[k] => caller[c].at \in Critical[k]
    BY <1>1, <2>1
  <2> QED BY <1>1, <2>1, <2>2 DEF Quiet
<1>2. ASSUME NEW verdict \in {"none", "ok", "failed"}, Ends(c, verdict),
             UNCHANGED <<lock, old, server, stolen>>, ~At(c, <<"await">>)
      PROVE  Quiet(c)
  <2>1. \A k \in Locks : <<"idle">> \notin Critical[k]
    BY DEF Critical, Locks
  <2>2. Goes(c, <<"idle">>, None, FALSE, verdict)
    BY <1>2, EndsGoes
  <2>3. /\ caller' \in [Callers -> Attempts] /\ caller'[c].at = <<"idle">>
        /\ \A d \in Callers \ {c} : caller'[d] = caller[d]
    BY <2>2 DEF Goes
  <2>4. \A k \in Locks : caller'[c].at \in Critical[k] => caller[c].at \in Critical[k]
    BY <2>1, <2>3
  <2>5. caller'[c].at # <<"await">>
    BY <2>3
  <2> QED BY <1>2, <2>3, <2>4, <2>5 DEF Quiet
<1>3. ASSUME NEW goal \in Locks, Begin(c, goal) PROVE Quiet(c)
  <2> DEFINE a == [caller[c] EXCEPT !.at = <<"weights">>, !.goal = goal]
  <2>1. a \in Attempts /\ a.at = <<"weights">>
    BY <1>0, ThePlaces DEF Attempts
  <2>2. Becomes(c, a)
    BY <1>3 DEF Begin
  <2> HIDE DEF a
  <2>3. Goes(c, a.at, a.own, a.bad, a.verdict)
    BY <2>1, <2>2, PutAttempt
  <2>4. \A k \in Locks : <<"weights">> \notin Critical[k]
    BY DEF Critical, Locks
  <2>5. /\ caller' \in [Callers -> Attempts] /\ caller'[c].at = <<"weights">>
        /\ \A d \in Callers \ {c} : caller'[d] = caller[d]
    BY <2>1, <2>3 DEF Goes
  <2>6. \A k \in Locks : caller'[c].at \in Critical[k] => caller[c].at \in Critical[k]
    BY <2>4, <2>5
  <2>7. caller'[c].at # <<"await">> /\ ~At(c, <<"await">>)
    <3>1. At(c, <<"idle">>)
      BY <1>3, Zenon DEF Begin
    <3> QED BY <3>1, <2>5 DEF At
  <2>8. UNCHANGED <<lock, old, server, stolen>>
    BY <1>3 DEF Begin
  <2> QED BY <2>5, <2>6, <2>7, <2>8 DEF Quiet
<1>4. \A k \in Locks : \A p \in {<<"look">>, <<"restart">>, <<"request">>} : p \notin Critical[k]
  BY DEF Critical, Locks
<1>5. \A k, l \in Locks : \A p \in {"open", "stat", "poll", "break"} : <<p, l>> \notin Critical[k]
  BY DEF Critical, Locks
<1>6. CASE FindWeights(c)
  BY <1>6, <1>1, <1>2, <1>4, <1>5, ThePlaces DEF FindWeights, HasWeights, At, Locks
<1>7. ASSUME NEW k \in Locks, Open(c, k), lock[k] # None PROVE Quiet(c)
  <2>1. Moves(c, <<"stat", k>>) /\ UNCHANGED <<lock, old, server, stolen>>
    BY <1>7 DEF Open
  <2>2. <<"stat", k>> \in Places /\ <<"stat", k>> # <<"await">> /\ ~At(c, <<"await">>)
    BY <1>7, ThePlaces DEF Open, At
  <2>3. \A l \in Locks : <<"stat", k>> \notin Critical[l]
    BY <1>5
  <2> QED BY <2>1, <2>2, <2>3, <1>1
<1>8. ASSUME NEW k \in Locks, Stat(c, k) PROVE Quiet(c)
  <2> DEFINE p == IF Stale(k) THEN "break" ELSE "poll"
  <2>1. Moves(c, <<p, k>>) /\ UNCHANGED <<lock, old, server, stolen>>
    BY <1>8 DEF Stat
  <2>2. p \in {"poll", "break"}
    OBVIOUS
  <2> HIDE DEF p
  <2>3. <<p, k>> \in Places /\ <<p, k>> # <<"await">> /\ ~At(c, <<"await">>)
    BY <1>8, <2>2, ThePlaces DEF Stat, At
  <2>4. \A l \in Locks : <<p, k>> \notin Critical[l]
    BY <2>2, <1>5
  <2> QED BY <2>1, <2>3, <2>4, <1>1
<1>9. ASSUME NEW k \in Locks, StatOfNothing(c, k) PROVE Quiet(c)
  BY <1>9, <1>2 DEF StatOfNothing, At
<1>10. CASE PollFetch(c)
  BY <1>10, <1>1, <1>2, <1>4, <1>5, ThePlaces DEF PollFetch, HasWeights, Again, At, Locks
<1>11. CASE Announce(c) \/ Fetch(c) \/ Publish(c) \/ FetchFails(c)
  <2>1. /\ \A p \in {"announce", "fetch", "publish"} : <<p>> \in Critical["fetch"]
        /\ \A p \in {"announce", "fetch", "publish"} : <<p>> \notin Critical["serve"]
        /\ <<"unlink", "fetch">> \in Critical["fetch"]
        /\ <<"unlink", "fetch">> \notin Critical["serve"]
    BY DEF Critical
  <2> QED BY <1>11, <2>1, <1>1, ThePlaces DEF Announce, Fetch, Publish, FetchFails, At, Locks
<1>12. CASE PollServe(c) \/ Look(c)
  BY <1>12, <1>1, <1>2, <1>4, <1>5, ThePlaces DEF PollServe, Look, Again, At, Locks
<1>13. CASE Recheck(c)
  <2>1. /\ \A p \in {"recheck", "spawn"} : <<p>> \in Critical["serve"] /\ <<p>> \notin Critical["fetch"]
        /\ <<"unlink", "serve">> \in Critical["serve"]
        /\ <<"unlink", "serve">> \notin Critical["fetch"]
    BY DEF Critical
  <2> QED BY <1>13, <2>1, <1>1, ThePlaces DEF Recheck, At, Locks
<1>14. CASE Request(c) \/ RequestFails(c)
  BY <1>14, <1>1, <1>2, <1>4, ThePlaces DEF Request, RequestFails, At
<1> QED BY <1>3, <1>6, <1>7, <1>8, <1>9, <1>10, <1>11, <1>12, <1>13, <1>14

-----------------------------------------------------------------------------
(* The other steps of an attempt, each with what it does to locks and      *)
(* servers.                                                                *)
Safe == HasHandle /\ HoldersHold /\ ServersApart

Comes(c, at) ==
  /\ caller' \in [Callers -> Attempts] /\ caller'[c].at = at
  /\ \A d \in Callers \ {c} : caller'[d] = caller[d]

(* A caller that moves, fails under a lock or ends has come to another place. *)
LEMMA ThreeWays ==
  ASSUME TypeOK, NEW c \in Callers
  PROVE  /\ \A place \in Places : Moves(c, place) \/ MovesBadly(c, place) => Comes(c, place)
         /\ \A v \in {"none", "ok", "failed"} : Ends(c, v) => Comes(c, <<"idle">>)
<1>1. ASSUME NEW place \in Places, Moves(c, place) PROVE Comes(c, place)
  <2>1. Goes(c, place, caller[c].own, caller[c].bad, caller[c].verdict)
    BY <1>1, MovesGoes
  <2> QED BY <2>1 DEF Goes, Comes
<1>2. ASSUME NEW place \in Places, MovesBadly(c, place) PROVE Comes(c, place)
  <2>1. Goes(c, place, caller[c].own, TRUE, caller[c].verdict)
    BY <1>2, MovesBadlyGoes
  <2> QED BY <2>1 DEF Goes, Comes
<1>3. ASSUME NEW v \in {"none", "ok", "failed"}, Ends(c, v) PROVE Comes(c, <<"idle">>)
  <2>1. Goes(c, <<"idle">>, None, FALSE, v)
    BY <1>3, EndsGoes
  <2> QED BY <2>1 DEF Goes, Comes
<1> QED BY <1>1, <1>2, <1>3

(* Nobody who waits for a server moves by a step of another caller.        *)
LEMMA StillAwaits ==
  ASSUME NEW c \in Callers, NEW d \in Callers, NEW s \in Slots, NEW at,
         Comes(c, at), AwaitsIts(d, s), ~At(c, <<"await">>)
  PROVE  AwaitsIts(d, s)'
<1>1. d # c
  BY DEF AwaitsIts, At
<1> QED BY <1>1 DEF Comes, AwaitsIts, At

(* Only a spawn makes a caller wait. *)
LEMMA HandlesStay ==
  ASSUME HasHandle, NEW c \in Callers, NEW at, Comes(c, at), at # <<"await">>
  PROVE  HasHandle'
  BY DEF HasHandle, Comes, At

(* What guards the start of a server outlasts steps that leave its lock alone. *)
LEMMA GuardStays ==
  ASSUME NEW c \in Callers, NEW at, Comes(c, at), ~At(c, <<"await">>), StartIsGuarded,
         server' = server, lock'["serve"] = lock["serve"], old'["serve"] = old["serve"]
  PROVE  StartIsGuarded'
<1> SUFFICES ASSUME NEW s \in Slots, server[s] = "starting"
             PROVE  \/ lock'["serve"] = Left /\ ~old'["serve"]
                    \/ \E d \in Callers : AwaitsIts(d, s)' /\ lock'["serve"] = d
  BY DEF StartIsGuarded
<1>1. CASE lock["serve"] = Left /\ ~old["serve"]
  BY <1>1
<1>2. ASSUME NEW d \in Callers, AwaitsIts(d, s), lock["serve"] = d
      PROVE  \E e \in Callers : AwaitsIts(e, s)' /\ lock'["serve"] = e
  BY <1>2, StillAwaits
<1> QED BY <1>1, <1>2 DEF StartIsGuarded

(* Whoever creates the lock file is the only one inside. *)
LEMMA OpenKeeps ==
  ASSUME TypeOK, Safe, NEW c \in Callers, NEW k \in Locks, Open(c, k), lock[k] = None
  PROVE  caller' \in [Callers -> Attempts] /\ Safe'
<1>1. /\ lock' = [lock EXCEPT ![k] = c] /\ old' = [old EXCEPT ![k] = FALSE]
      /\ Moves(c, AfterOpen[k]) /\ UNCHANGED <<server, stolen>>
  BY Zenon DEF Open
<1>2. /\ AfterOpen[k] \in Places /\ AfterOpen[k] # <<"await">>
      /\ \A l \in Locks : l # k => AfterOpen[k] \notin Critical[l]
  BY DEF AfterOpen, Places, Locks, Critical
<1>3. Comes(c, AfterOpen[k])
  BY <1>1, <1>2, ThreeWays
<1>4. caller' \in [Callers -> Attempts]
  BY <1>3 DEF Comes
<1>5. /\ lock'[k] = c /\ \A l \in Locks \ {k} : lock'[l] = lock[l]
      /\ ~old'[k] /\ \A l \in Locks \ {k} : old'[l] = old[l]
  BY <1>1 DEF TypeOK
<1>6. HasHandle'
  BY <1>2, <1>3 DEF Safe, HasHandle, Comes, At
<1>7. HoldersHold'
  <2> SUFFICES ASSUME NEW l \in Locks, ~stolen[l]
               PROVE  /\ \A d \in Callers : caller'[d].at \in Critical[l] => lock'[l] = d
                      /\ lock'[l] \in Callers => ~old'[l]
    BY <1>1 DEF HoldersHold
  <2>1. /\ \A d \in Callers : caller[d].at \in Critical[l] => lock[l] = d
        /\ lock[l] \in Callers => ~old[l]
    BY DEF Safe, HoldersHold
  <2>2. CASE l = k
    BY <2>1, <2>2, <1>3, <1>5, SlotsAssumption DEF Comes
  <2>3. CASE l # k
    BY <2>1, <2>3, <1>2, <1>3, <1>5 DEF Comes
  <2> QED BY <2>2, <2>3
<1>8. ServersApart'
  <2> SUFFICES ASSUME ~stolen["serve"], OneServer, StartIsGuarded
               PROVE  OneServer' /\ StartIsGuarded'
    BY <1>1 DEF Safe, ServersApart
  <2>1. OneServer'
    BY <1>1 DEF OneServer
  <2>2. StartIsGuarded'
    <3>1. CASE k = "serve"
      BY <3>1, <1>1, SlotsAssumption DEF StartIsGuarded
    <3>2. CASE k # "serve"
      <4>1. ~At(c, <<"await">>)
        BY DEF Open, At
      <4> QED BY <4>1, <3>2, <1>1, <1>3, <1>5, GuardStays DEF Locks
    <3> QED BY <3>1, <3>2
  <2> QED BY <2>1, <2>2
<1> QED BY <1>4, <1>6, <1>7, <1>8 DEF Safe

(* The removal of a stale lock leaves nobody inside without one, and no server *)
(* that starts unguarded, unless the lock was not stale.                        *)
LEMMA BreakKeeps ==
  ASSUME TypeOK, Safe, NEW c \in Callers, NEW k \in Locks, Break(c, k)
  PROVE  caller' \in [Callers -> Attempts] /\ Safe'
<1>1. /\ lock' = [lock EXCEPT ![k] = None] /\ UNCHANGED <<old, server>>
      /\ stolen' = [stolen EXCEPT ![k] = stolen[k] \/ (lock[k] # None /\ ~old[k])]
      /\ Moves(c, <<"open", k>>) /\ At(c, <<"break", k>>)
  BY Zenon DEF Break
<1>2. /\ <<"open", k>> \in Places /\ <<"open", k>> # <<"await">> /\ ~At(c, <<"await">>)
      /\ \A l \in Locks : <<"open", k>> \notin Critical[l]
  BY <1>1, ThePlaces DEF Critical, Locks, At
<1>3. Comes(c, <<"open", k>>)
  BY <1>1, <1>2, ThreeWays
<1>4. caller' \in [Callers -> Attempts]
  BY <1>3 DEF Comes
<1>5. /\ lock'[k] = None /\ \A l \in Locks \ {k} : lock'[l] = lock[l] /\ stolen'[l] = stolen[l]
      /\ ~stolen'[k] => ~stolen[k] /\ (lock[k] = None \/ old[k])
  BY <1>1 DEF TypeOK
<1>6. HasHandle'
  BY <1>2, <1>3, HandlesStay DEF Safe
<1>7. HoldersHold'
  <2> SUFFICES ASSUME NEW l \in Locks, ~stolen'[l]
               PROVE  /\ \A d \in Callers : caller'[d].at \in Critical[l] => lock'[l] = d
                      /\ lock'[l] \in Callers => ~old'[l]
    BY DEF HoldersHold
  <2>1. /\ \A d \in Callers : caller[d].at \in Critical[l] => lock[l] = d
        /\ lock[l] \in Callers => ~old[l]
    BY <1>5 DEF Safe, HoldersHold
  <2>2. CASE l = k
    <3>1. \A d \in Callers : caller[d].at \notin Critical[l]
      BY <2>1, <2>2, <1>5, SlotsAssumption
    <3> QED BY <3>1, <2>2, <1>2, <1>3, <1>5, SlotsAssumption DEF Comes
  <2>3. CASE l # k
    BY <2>1, <2>3, <1>1, <1>2, <1>3, <1>5 DEF Comes
  <2> QED BY <2>2, <2>3
<1>8. ServersApart'
  <2> SUFFICES ASSUME ~stolen'["serve"]
               PROVE  OneServer' /\ StartIsGuarded'
    BY DEF ServersApart
  <2>0. ~stolen["serve"] /\ OneServer /\ StartIsGuarded
    BY <1>5 DEF Safe, ServersApart, Locks
  <2>1. OneServer'
    BY <1>1, <2>0 DEF OneServer
  <2>2. StartIsGuarded'
    <3>1. CASE k = "serve"
      <4>1. "serve" \in Locks /\ (lock["serve"] \in Callers => ~old["serve"])
        BY <2>0 DEF Safe, HoldersHold, Locks
      <4>2. \A s \in Slots : server[s] # "starting"
        BY <4>1, <3>1, <2>0, <1>5, SlotsAssumption DEF StartIsGuarded
      <4> QED BY <4>2, <1>1 DEF StartIsGuarded
    <3>2. CASE k # "serve"
      BY <2>0, <3>2, <1>1, <1>2, <1>3, <1>5, GuardStays DEF Locks
    <3> QED BY <3>1, <3>2
  <2> QED BY <2>1, <2>2
<1> QED BY <1>4, <1>6, <1>7, <1>8 DEF Safe

(* The holder gives its own lock back, with no server still starting. *)
LEMMA UnlinkKeeps ==
  ASSUME TypeOK, Safe, NEW c \in Callers, NEW k \in Locks, Unlink(c, k)
  PROVE  caller' \in [Callers -> Attempts] /\ Safe'
<1>1. /\ lock' = [lock EXCEPT ![k] = None] /\ UNCHANGED <<old, server, stolen>>
      /\ At(c, <<"unlink", k>>)
      /\ \/ Ends(c, "failed") \/ Ends(c, "ok") \/ Moves(c, <<"look">>) \/ Moves(c, <<"request">>)
  BY Zenon DEF Unlink, HasWeights
<1>2. ~At(c, <<"await">>)
  BY <1>1 DEF At
<1>3. PICK at \in {<<"idle">>, <<"look">>, <<"request">>} : Comes(c, at)
  BY <1>1, ThreeWays, ThePlaces
<1>4. at # <<"await">> /\ \A l \in Locks : at \notin Critical[l]
  BY DEF Critical, Locks
<1>5. lock'[k] = None /\ \A l \in Locks \ {k} : lock'[l] = lock[l]
  BY <1>1 DEF TypeOK
<1>6. HasHandle'
  BY <1>3, <1>4, HandlesStay DEF Safe
<1>7. ~stolen[k] => lock[k] = c
  <2>1. caller[c].at \in Critical[k]
    BY <1>1 DEF At, Critical, Locks
  <2> QED BY <2>1 DEF Safe, HoldersHold
<1>8. HoldersHold'
  <2> SUFFICES ASSUME NEW l \in Locks, ~stolen[l]
               PROVE  /\ \A d \in Callers : caller'[d].at \in Critical[l] => lock'[l] = d
                      /\ lock'[l] \in Callers => ~old'[l]
    BY <1>1 DEF HoldersHold
  <2>1. /\ \A d \in Callers : caller[d].at \in Critical[l] => lock[l] = d
        /\ lock[l] \in Callers => ~old[l]
    BY DEF Safe, HoldersHold
  <2>2. CASE l = k
    <3>1. \A d \in Callers \ {c} : caller[d].at \notin Critical[l]
      BY <2>1, <2>2, <1>7
    <3> QED BY <3>1, <2>2, <1>3, <1>4, <1>5, SlotsAssumption DEF Comes
  <2>3. CASE l # k
    BY <2>1, <2>3, <1>1, <1>3, <1>4, <1>5 DEF Comes
  <2> QED BY <2>2, <2>3
<1>9. ServersApart'
  <2> SUFFICES ASSUME ~stolen["serve"], OneServer, StartIsGuarded
               PROVE  OneServer' /\ StartIsGuarded'
    BY <1>1 DEF Safe, ServersApart
  <2>1. OneServer'
    BY <1>1 DEF OneServer
  <2>2. CASE k = "serve"
    <3>1. ASSUME NEW s \in Slots, server[s] = "starting" PROVE FALSE
      <4>1. lock["serve"] = c
        BY <2>2, <1>7
      <4>2. PICK d \in Callers : AwaitsIts(d, s) /\ lock["serve"] = d
        BY <4>1, <3>1, SlotsAssumption DEF StartIsGuarded
      <4> QED BY <4>1, <4>2, <1>2 DEF AwaitsIts
    <3> QED BY <3>1, <2>1, <1>1 DEF StartIsGuarded
  <2>3. CASE k # "serve"
    BY <2>1, <2>3, <1>1, <1>2, <1>3, <1>5, GuardStays DEF Locks
  <2> QED BY <2>2, <2>3
<1> QED BY <1>3, <1>6, <1>8, <1>9 DEF Safe, Comes

(* Who spawns holds the lock, so no other server starts, and none has the port. *)
LEMMA SpawnKeeps ==
  ASSUME TypeOK, Safe, NEW c \in Callers, Spawn(c)
  PROVE  caller' \in [Callers -> Attempts] /\ Safe'
<1>1. At(c, <<"spawn">>) /\ UNCHANGED <<lock, old, stolen>>
  BY DEF Spawn
<1>2. ~At(c, <<"await">>)
  BY <1>1 DEF At
<1>3. CASE PortInUse
  <2>1. MovesBadly(c, <<"unlink", "serve">>) /\ server' = server
    BY <1>3, Zenon DEF Spawn
  <2>2. <<"unlink", "serve">> \in Places
    BY ThePlaces DEF Locks
  <2>3. Comes(c, <<"unlink", "serve">>)
    BY <2>1, <2>2, ThreeWays
  <2>4. \A k \in Locks : <<"unlink", "serve">> \in Critical[k] => <<"spawn">> \in Critical[k]
    BY DEF Critical, Locks
  <2>5. Quiet(c)
    BY <2>1, <2>3, <2>4, <1>1, <1>2 DEF Quiet, Comes, At
  <2> QED BY <2>3, <2>5, QuietKeeps DEF Safe, Comes
<1>4. CASE ~PortInUse
  <2> DEFINE a == [caller[c] EXCEPT !.at = <<"await">>, !.own = NewSlot]
  <2>1. /\ server' = [server EXCEPT ![NewSlot] = "starting"] /\ FreeSlots # {}
        /\ Becomes(c, a)
    BY <1>4, Zenon DEF Spawn
  <2>2. NewSlot \in FreeSlots
    BY <2>1 DEF NewSlot
  <2>3. NewSlot \in Slots /\ server[NewSlot] = "none"
    BY <2>2 DEF FreeSlots
  <2>4. a \in Attempts /\ a.at = <<"await">> /\ a.own = NewSlot
    <3>1. caller[c] \in Attempts
      BY DEF TypeOK
    <3> HIDE DEF NewSlot
    <3> QED BY <3>1, <2>3, ThePlaces DEF Attempts
  <2> HIDE DEF a, NewSlot
  <2>5. Goes(c, a.at, a.own, a.bad, a.verdict)
    BY <2>1, <2>4, PutAttempt
  <2>6. Comes(c, <<"await">>) /\ caller'[c].own = NewSlot
    BY <2>4, <2>5 DEF Goes, Comes
  <2>7. HasHandle'
    BY <2>3, <2>6 DEF Safe, HasHandle, Comes, At
  <2>8. HoldersHold'
    <3>1. \A k \in Locks : <<"await">> \in Critical[k] => <<"spawn">> \in Critical[k]
      BY DEF Critical, Locks
    <3> SUFFICES ASSUME NEW k \in Locks, ~stolen[k]
                 PROVE  /\ \A d \in Callers : caller'[d].at \in Critical[k] => lock[k] = d
                        /\ lock[k] \in Callers => ~old[k]
      BY <1>1 DEF HoldersHold
    <3>2. /\ \A d \in Callers : caller[d].at \in Critical[k] => lock[k] = d
          /\ lock[k] \in Callers => ~old[k]
      BY DEF Safe, HoldersHold
    <3> QED BY <3>1, <3>2, <2>6, <1>1 DEF Comes, At
  <2>9. ServersApart'
    <3> SUFFICES ASSUME ~stolen["serve"], OneServer, StartIsGuarded
                 PROVE  OneServer' /\ StartIsGuarded'
      BY <1>1 DEF Safe, ServersApart
    <3>1. lock["serve"] = c
      <4>1. <<"spawn">> \in Critical["serve"] /\ "serve" \in Locks
        BY DEF Critical, Locks
      <4> QED BY <4>1, <1>1 DEF Safe, HoldersHold, At
    <3>2. \A s \in Slots : server[s] = "none"
      <4> SUFFICES ASSUME NEW s \in Slots PROVE server[s] = "none"
        OBVIOUS
      <4>1. server[s] \notin {"loading", "serving", "dying"}
        BY <1>4 DEF PortInUse
      <4>2. server[s] # "starting"
        BY <3>1, <1>2, SlotsAssumption DEF StartIsGuarded, AwaitsIts
      <4> QED BY <4>1, <4>2 DEF TypeOK, Live
    <3>3. server'[NewSlot] = "starting" /\ \A s \in Slots \ {NewSlot} : server'[s] = "none"
      BY <2>1, <2>3, <3>2 DEF TypeOK
    <3>4. OneServer'
      BY <3>3 DEF OneServer
    <3>5. ASSUME NEW s \in Slots, server'[s] = "starting"
          PROVE  AwaitsIts(c, s)' /\ lock'["serve"] = c
      <4>1. s = NewSlot
        BY <3>3, <3>5
      <4> QED BY <4>1, <3>1, <2>6, <1>1 DEF AwaitsIts, Comes, At
    <3> QED BY <3>4, <3>5 DEF StartIsGuarded
  <2> QED BY <2>6, <2>7, <2>8, <2>9 DEF Safe, Comes
<1> QED BY <1>3, <1>4

(* The wait ends only when its server has bound the port or is gone. *)
LEMMA AwaitKeeps ==
  ASSUME TypeOK, Safe, NEW c \in Callers, Await(c)
  PROVE  caller' \in [Callers -> Attempts] /\ Safe'
<1>1. /\ At(c, <<"await">>) /\ UNCHANGED <<lock, old, server, stolen>>
      /\ Moves(c, <<"unlink", "serve">>) \/ MovesBadly(c, <<"unlink", "serve">>)
      /\ \/ server[caller[c].own] \in {"none", "loading", "dying"}
         \/ server[caller[c].own] # "none" /\ MayAnswer
  BY Zenon DEF Await
<1>2. Comes(c, <<"unlink", "serve">>)
  BY <1>1, ThreeWays, ThePlaces DEF Locks
<1>3. ~stolen["serve"] => server[caller[c].own] # "starting"
  <2> SUFFICES ASSUME OneServer, server[caller[c].own] = "starting" PROVE FALSE
    BY DEF Safe, ServersApart
  <2>1. PICK s \in Slots : server[s] \in {"serving", "dying"}
    BY <1>1 DEF MayAnswer
  <2>2. caller[c].own \in Slots
    BY <1>1 DEF Safe, HasHandle
  <2> QED BY <2>1, <2>2 DEF OneServer
<1>4. \A k \in Locks : <<"unlink", "serve">> \in Critical[k] => <<"await">> \in Critical[k]
  BY DEF Critical, Locks
<1>5. Quiet(c)
  BY <1>1, <1>2, <1>3, <1>4 DEF Quiet, Comes, At
<1> QED BY <1>2, <1>5, QuietKeeps DEF Safe, Comes

(* A restart ends servers and begins none. *)
LEMMA RestartKeeps ==
  ASSUME TypeOK, Safe, NEW c \in Callers, Restart(c)
  PROVE  caller' \in [Callers -> Attempts] /\ Safe'
<1> DEFINE a == [caller[c] EXCEPT !.at = <<"look">>, !.own = None, !.again = TRUE]
<1>1. /\ At(c, <<"restart">>) /\ UNCHANGED <<lock, old, stolen>> /\ Becomes(c, a)
      /\ server' = [s \in Slots |-> IF s = caller[c].own THEN Terminated(s) ELSE server[s]]
  BY Zenon DEF Restart
<1>2. a \in Attempts /\ a.at = <<"look">>
  <2>1. caller[c] \in Attempts
    BY DEF TypeOK
  <2> QED BY <2>1, ThePlaces DEF Attempts
<1> HIDE DEF a
<1>3. Goes(c, a.at, a.own, a.bad, a.verdict)
  BY <1>1, <1>2, PutAttempt
<1>4. Comes(c, <<"look">>)
  BY <1>2, <1>3 DEF Goes, Comes
<1>5. ~At(c, <<"await">>) /\ \A k \in Locks : <<"look">> \notin Critical[k]
  BY <1>1 DEF At, Critical, Locks
<1>6. HasHandle'
  BY <1>4, HandlesStay DEF Safe
<1>7. HoldersHold'
  BY <1>1, <1>4, <1>5 DEF Safe, HoldersHold, Comes
<1>8. ServersApart'
  <2> SUFFICES ASSUME ~stolen["serve"], OneServer, StartIsGuarded
               PROVE  OneServer' /\ StartIsGuarded'
    BY <1>1 DEF Safe, ServersApart
  <2>1. \A s \in Slots : /\ server'[s] # "none" => server[s] # "none"
                         /\ server'[s] = "starting" => server[s] = "starting"
    BY <1>1 DEF Terminated
  <2>2. OneServer'
    BY <2>1 DEF OneServer
  <2>3. ASSUME NEW s \in Slots, server'[s] = "starting"
        PROVE  \/ lock'["serve"] = Left /\ ~old'["serve"]
               \/ \E d \in Callers : AwaitsIts(d, s)' /\ lock'["serve"] = d
    BY <2>1, <2>3, <1>1, <1>4, <1>5, StillAwaits DEF StartIsGuarded
  <2> QED BY <2>2, <2>3 DEF StartIsGuarded
<1> QED BY <1>4, <1>6, <1>7, <1>8 DEF Safe, Comes

(* A crash leaves the lock in front of the server that it left starting. *)
LEMMA CrashKeeps ==
  ASSUME TypeOK, Safe, NEW c \in Callers, Crash(c)
  PROVE  caller' \in [Callers -> Attempts] /\ Safe'
<1>1. /\ Ends(c, "none") /\ UNCHANGED <<old, server, stolen>>
      /\ lock' = [k \in Locks |-> IF lock[k] = c THEN Left ELSE lock[k]]
  BY Zenon DEF Crash
<1>2. Comes(c, <<"idle">>)
  BY <1>1, ThreeWays
<1>3. \A k \in Locks : <<"idle">> \notin Critical[k]
  BY DEF Critical, Locks
<1>4. HasHandle'
  BY <1>2, HandlesStay DEF Safe
<1>5. \A k \in Locks : IF lock[k] = c THEN lock'[k] = Left ELSE lock'[k] = lock[k]
  BY <1>1
<1>6. HoldersHold'
  <2> SUFFICES ASSUME NEW k \in Locks, ~stolen[k]
               PROVE  /\ \A d \in Callers : caller'[d].at \in Critical[k] => lock'[k] = d
                      /\ lock'[k] \in Callers => ~old'[k]
    BY <1>1 DEF HoldersHold
  <2>1. /\ \A d \in Callers : caller[d].at \in Critical[k] => lock[k] = d
        /\ lock[k] \in Callers => ~old[k]
    BY DEF Safe, HoldersHold
  <2>2. lock'[k] \in Callers => ~old'[k]
    BY <2>1, <1>1, <1>5, SlotsAssumption
  <2>3. \A d \in Callers : caller'[d].at \in Critical[k] => lock'[k] = d
    BY <2>1, <1>2, <1>3, <1>5 DEF Comes
  <2> QED BY <2>2, <2>3
<1>7. ServersApart'
  <2> SUFFICES ASSUME ~stolen["serve"], OneServer, StartIsGuarded
               PROVE  OneServer' /\ StartIsGuarded'
    BY <1>1 DEF Safe, ServersApart
  <2>1. OneServer'
    BY <1>1 DEF OneServer
  <2>2. ASSUME NEW s \in Slots, server[s] = "starting"
        PROVE  \/ lock'["serve"] = Left /\ ~old'["serve"]
               \/ \E d \in Callers : AwaitsIts(d, s)' /\ lock'["serve"] = d
    <3>1. CASE lock["serve"] = c
      <4>1. ~old["serve"]
        BY <3>1 DEF Safe, HoldersHold, Locks
      <4> QED BY <4>1, <3>1, <1>1, <1>5 DEF Locks
    <3>2. CASE lock["serve"] # c
      <4>1. lock'["serve"] = lock["serve"]
        BY <3>2, <1>5 DEF Locks
      <4>2. ASSUME NEW d \in Callers, AwaitsIts(d, s), lock["serve"] = d
            PROVE  AwaitsIts(d, s)'
        BY <4>2, <3>2, <1>2 DEF Comes, AwaitsIts, At
      <4> QED BY <4>1, <4>2, <2>2, <1>1 DEF StartIsGuarded
    <3> QED BY <3>1, <3>2
  <2> QED BY <2>1, <2>2, <1>1 DEF StartIsGuarded
<1> QED BY <1>2, <1>4, <1>6, <1>7 DEF Safe, Comes

(* Server processes and time. *)
LEMMA ServerKeeps ==
  ASSUME TypeOK, Safe, NEW s \in Slots, Bind(s) \/ Loaded(s) \/ Gone(s) \/ Exits(s)
  PROVE  Safe'
<1>1. /\ UNCHANGED <<lock, old, caller, stolen>>
      /\ \A r \in Slots : /\ server'[r] # "none" => server[r] # "none"
                          /\ server'[r] = "starting" => server[r] = "starting"
  <2>1. PICK v \in {"none", "loading", "serving"} :
          server[s] # "none" /\ server' = [server EXCEPT ![s] = v]
    <3>1. CASE Bind(s)
      <4>1. CASE PortInUse
        BY <3>1, <4>1 DEF Bind
      <4>2. CASE ~PortInUse
        BY <3>1, <4>2 DEF Bind
      <4> QED BY <4>1, <4>2
    <3> QED BY <3>1 DEF Loaded, Gone, Exits, Live
  <2>2. UNCHANGED <<lock, old, caller, stolen>>
    BY DEF Bind, Loaded, Gone, Exits
  <2> QED BY <2>1, <2>2 DEF TypeOK
<1>2. HasHandle'
  BY <1>1 DEF Safe, HasHandle, At
<1>3. HoldersHold'
  BY <1>1 DEF Safe, HoldersHold
<1>4. ServersApart'
  <2> SUFFICES ASSUME ~stolen["serve"], OneServer, StartIsGuarded
               PROVE  OneServer' /\ StartIsGuarded'
    BY <1>1 DEF Safe, ServersApart
  <2>1. OneServer'
    BY <1>1 DEF OneServer
  <2>2. StartIsGuarded'
    BY <1>1 DEF StartIsGuarded, AwaitsIts, At
  <2> QED BY <2>1, <2>2
<1> QED BY <1>2, <1>3, <1>4 DEF Safe

(* No lock grows old in front of a server that is starting. *)
LEMMA AgesKeeps ==
  ASSUME TypeOK, Safe, NEW k \in Locks, Ages(k)
  PROVE  Safe'
<1>1. /\ Settled /\ lock[k] # None /\ UNCHANGED <<lock, server, caller>>
      /\ old' = [old EXCEPT ![k] = TRUE]
      /\ stolen' = [stolen EXCEPT ![k] = stolen[k] \/ lock[k] # Left]
  BY Zenon DEF Ages
<1>2. /\ \A l \in Locks \ {k} : old'[l] = old[l] /\ stolen'[l] = stolen[l]
      /\ ~stolen'[k] => ~stolen[k] /\ lock[k] = Left
  BY <1>1 DEF TypeOK
<1>3. HasHandle'
  BY <1>1 DEF Safe, HasHandle, At
<1>4. HoldersHold'
  <2> SUFFICES ASSUME NEW l \in Locks, ~stolen'[l]
               PROVE  /\ \A d \in Callers : caller'[d].at \in Critical[l] => lock'[l] = d
                      /\ lock'[l] \in Callers => ~old'[l]
    BY DEF HoldersHold
  <2>1. /\ \A d \in Callers : caller[d].at \in Critical[l] => lock[l] = d
        /\ lock[l] \in Callers => ~old[l]
    BY <1>2 DEF Safe, HoldersHold
  <2> QED BY <2>1, <1>1, <1>2, SlotsAssumption
<1>5. ServersApart'
  <2> SUFFICES ASSUME ~stolen'["serve"]
               PROVE  OneServer' /\ StartIsGuarded'
    BY DEF ServersApart
  <2>1. OneServer
    BY <1>2 DEF Safe, ServersApart, Locks
  <2> QED BY <2>1, <1>1 DEF OneServer, StartIsGuarded, Settled
<1> QED BY <1>3, <1>4, <1>5 DEF Safe

(* The invariant holds at the start and is kept by every step. *)
LEMMA InitSafe ==
  ASSUME Init
  PROVE  TypeOK /\ Safe
<1>1. Fresh \in Attempts /\ Fresh.at = <<"idle">>
  BY ThePlaces DEF Attempts, Fresh, Locks
<1>2. TypeOK
  <2>1. left \in [Faults -> Nat]
    BY FaultsAssumption DEF Init
  <2> HIDE DEF Fresh
  <2> QED BY <1>1, <2>1 DEF Init, TypeOK, Live
<1>3. \A c \in Callers : caller[c].at = <<"idle">>
  <2> HIDE DEF Fresh
  <2> QED BY <1>1 DEF Init
<1>4. \A k \in Locks : <<"idle">> \notin Critical[k]
  BY DEF Critical, Locks
<1>5. HoldersHold
  BY <1>3, <1>4, SlotsAssumption DEF Init, HoldersHold
<1>6. HasHandle
  BY <1>3 DEF HasHandle, At
<1>7. ServersApart
  BY DEF Init, ServersApart, OneServer, StartIsGuarded
<1> QED BY <1>2, <1>5, <1>6, <1>7 DEF Safe

LEMMA StepSafe ==
  ASSUME TypeOK, Safe, [Next]_vars
  PROVE  TypeOK' /\ Safe'
<1>1. ASSUME NEW c \in Callers, Attempt(c) \/ FetchFails(c) \/ Crash(c)
      PROVE  TypeOK' /\ Safe'
  <2>1. caller' \in [Callers -> Attempts] /\ Safe'
    <3>1. ASSUME Quiet(c) PROVE caller' \in [Callers -> Attempts] /\ Safe'
      BY <3>1, QuietKeeps DEF Safe, Quiet
    <3>2. ASSUME NEW k \in Locks, Open(c, k) PROVE caller' \in [Callers -> Attempts] /\ Safe'
      BY <3>2, <3>1, OpenKeeps, QuietMoves
    <3>3. CASE \/ \E goal \in Locks : Begin(c, goal)
               \/ FindWeights(c)
               \/ \E k \in Locks : Stat(c, k) \/ StatOfNothing(c, k)
               \/ PollFetch(c) \/ Announce(c) \/ Fetch(c) \/ Publish(c) \/ FetchFails(c)
               \/ Look(c) \/ PollServe(c) \/ Recheck(c) \/ Request(c) \/ RequestFails(c)
      BY <3>3, <3>1, QuietMoves
    <3> QED BY <1>1, <3>2, <3>3, BreakKeeps, UnlinkKeeps, SpawnKeeps, AwaitKeeps, RestartKeeps,
               CrashKeeps DEF Attempt
  <2>2. OthersTyped
    BY <1>1, OthersAttempt
  <2> QED BY <2>1, <2>2 DEF OthersTyped, TypeOK
<1>2. ASSUME NEW s \in Slots, Bind(s) \/ Loaded(s) \/ Gone(s) \/ Exits(s)
      PROVE  TypeOK' /\ Safe'
  BY <1>2, HostTypes, ServerKeeps
<1>3. ASSUME NEW k \in Locks, Ages(k)
      PROVE  TypeOK' /\ Safe'
  BY <1>3, HostTypes, AgesKeeps
<1>4. CASE UNCHANGED vars
  BY <1>4 DEF vars, files, TypeOK, Safe, HasHandle, At, HoldersHold, ServersApart, OneServer,
              StartIsGuarded, AwaitsIts
<1> QED BY <1>1, <1>2, <1>3, <1>4 DEF Next

(* A set without two elements counts at most one. *)
LEMMA AtMostOne ==
  ASSUME NEW S, \A x, y \in S : x = y
  PROVE  Cardinality(S) <= 1
<1>1. CASE S = {}
  BY <1>1, FS_EmptySet
<1>2. CASE S # {}
  <2>1. PICK x \in S : TRUE
    BY <1>2
  <2>2. S = {x}
    BY <2>1
  <2> QED BY <2>2, FS_Singleton
<1> QED BY <1>1, <1>2

(* Types, and who holds what: whoever is inside a critical section created its *)
(* lock file, one server process exists at most and, until it has bound the    *)
(* port, a holder or a leftover lock keeps others from a spawn, as long as no  *)
(* lock was broken that was not stale and none grew old under its holder.      *)
THEOREM TypeCorrect == Spec => [](TypeOK /\ Safe)
<1>1. Init => TypeOK /\ Safe
  BY InitSafe
<1>2. TypeOK /\ Safe /\ [Next]_vars => (TypeOK /\ Safe)'
  BY StepSafe
<1> QED BY <1>1, <1>2, PTL DEF Spec

(* At most one process downloads and at most one server lives, whatever crashes, *)
(* times out, exits or is restarted, unless that lock was stolen.                *)
THEOREM OneServerAtATime == Spec => []OneAtWork
<1>1. TypeOK /\ Safe => OneAtWork
  <2> SUFFICES ASSUME TypeOK, Safe PROVE OneAtWork
    OBVIOUS
  <2>1. ASSUME ~stolen["fetch"]
        PROVE  Cardinality({c \in Callers : At(c, <<"fetch">>)}) <= 1
    <3>1. <<"fetch">> \in Critical["fetch"] /\ "fetch" \in Locks
      BY DEF Critical, Locks
    <3>2. \A c \in Callers : At(c, <<"fetch">>) => lock["fetch"] = c
      BY <2>1, <3>1 DEF Safe, HoldersHold, At
    <3> QED BY <3>2, AtMostOne
  <2>2. ASSUME ~stolen["serve"]
        PROVE  Cardinality({s \in Slots : server[s] \in Live}) <= 1
    <3>1. \A s, r \in Slots : server[s] \in Live /\ server[r] \in Live => s = r
      BY <2>2 DEF Safe, ServersApart, OneServer, Live
    <3> QED BY <3>1, AtMostOne
  <2> QED BY <2>1, <2>2 DEF OneAtWork
<1> QED BY <1>1, TypeCorrect, PTL

-----------------------------------------------------------------------------
(* Without a fault.                                                        *)
Well(c, at) == Comes(c, at) /\ ~caller'[c].bad /\ caller'[c].verdict # "failed"

(* The moves that fail nobody. *)
LEMMA WellMoves ==
  ASSUME TypeOK, NEW c \in Callers, CalmCaller(c)
  PROVE  /\ \A place \in Places : Moves(c, place) => Well(c, place)
         /\ Ends(c, "ok") => Well(c, <<"idle">>)
         /\ \A goal \in Locks : Begin(c, goal) => Well(c, <<"weights">>)
<1>0. ~caller[c].bad /\ caller[c].verdict # "failed"
  BY DEF CalmCaller
<1>1. ASSUME NEW place \in Places, Moves(c, place) PROVE Well(c, place)
  <2>1. Goes(c, place, caller[c].own, caller[c].bad, caller[c].verdict)
    BY <1>1, MovesGoes
  <2> QED BY <1>0, <2>1 DEF Goes, Comes, Well
<1>2. ASSUME Ends(c, "ok") PROVE Well(c, <<"idle">>)
  <2>1. Goes(c, <<"idle">>, None, FALSE, "ok")
    BY <1>2, EndsGoes
  <2> QED BY <2>1 DEF Goes, Comes, Well
<1>3. ASSUME NEW goal \in Locks, Begin(c, goal) PROVE Well(c, <<"weights">>)
  <2> DEFINE a == [caller[c] EXCEPT !.at = <<"weights">>, !.goal = goal]
  <2>1. caller[c] \in Attempts
    BY DEF TypeOK
  <2>2. /\ a \in Attempts /\ a.at = <<"weights">> /\ a.bad = caller[c].bad
        /\ a.verdict = caller[c].verdict
    BY <2>1, ThePlaces DEF Attempts
  <2>3. Becomes(c, a)
    BY <1>3 DEF Begin
  <2> HIDE DEF a
  <2>4. Goes(c, a.at, a.own, a.bad, a.verdict)
    BY <2>2, <2>3, PutAttempt
  <2> QED BY <1>0, <2>2, <2>4 DEF Goes, Comes, Well
<1> QED BY <1>1, <1>2, <1>3

(* A move keeps calm where its place promises what is there. *)
LEMMA CalmMove ==
  ASSUME Untroubled, OneServer, NEW c \in Callers, NEW at, Well(c, at),
         server' = server, CalmLocks', status' # "error",
         at \notin {<<"restart">>, <<"break", "fetch">>, <<"break", "serve">>, <<"await">>},
         at \in {<<"request">>, <<"unlink", "serve">>} => Answers,
         at = <<"spawn">> => \A s \in Slots : server[s] = "none",
         At(c, <<"await">>) => Answers
  PROVE  Untroubled'
<1>1. Answers' = Answers
  BY DEF Answers
<1>2. CalmCaller(c)'
  BY <1>1 DEF CalmCaller, Well, Comes, At
<1>3. ASSUME NEW d \in Callers \ {c} PROVE CalmCaller(d)'
  <2>1. caller'[d] = caller[d] /\ CalmCaller(d)
    BY DEF Well, Comes, Untroubled
  <2> QED BY <2>1, <1>1 DEF CalmCaller, At
<1>4. ASSUME NEW s \in Slots PROVE CalmServer(s)'
  <2>1. CalmServer(s)
    BY DEF Untroubled
  <2>2. CASE server[s] \in {"starting", "loading"}
    <3>1. PICK d \in Callers : AwaitsIts(d, s)
      BY <2>1, <2>2 DEF CalmServer
    <3>2. ~Answers
      BY <2>2 DEF Answers, OneServer
    <3>3. AwaitsIts(d, s)'
      BY <3>1, <3>2, StillAwaits DEF Well, AwaitsIts
    <3> QED BY <2>1, <3>3 DEF CalmServer
  <2>3. CASE server[s] \notin {"starting", "loading"}
    BY <2>1, <2>3 DEF CalmServer
  <2> QED BY <2>2, <2>3
<1> QED BY <1>2, <1>3, <1>4 DEF Untroubled

(* What calm adds to the invariant of locks and servers. *)
LEMMA CalmFacts ==
  ASSUME TypeOK, Safe, Untroubled
  PROVE  /\ OneServer /\ StartIsGuarded
         /\ MayAnswer => Answers
         /\ \A k \in Locks : \A c \in Callers : caller[c].at \in Critical[k] => lock[k] = c
         /\ \A k \in Locks : lock[k] # Left /\ ~old[k] /\ ~stolen[k]
         /\ status # "error"
         /\ \A c \in Callers : CalmCaller(c)
<1>1. \A k \in Locks : lock[k] # Left /\ ~old[k] /\ ~stolen[k]
  BY DEF Untroubled, CalmLocks
<1>2. OneServer /\ StartIsGuarded
  BY <1>1 DEF Safe, ServersApart, Locks
<1>3. MayAnswer => Answers
  BY DEF Untroubled, CalmServer, MayAnswer, Answers
<1>4. \A k \in Locks : \A c \in Callers : caller[c].at \in Critical[k] => lock[k] = c
  BY <1>1 DEF Safe, HoldersHold
<1> QED BY <1>1, <1>2, <1>3, <1>4 DEF Untroubled

(* The steps that touch neither locks nor servers. *)
LEMMA CalmWalk ==
  ASSUME TypeOK, Safe, Untroubled, calm' = TRUE, calm = TRUE, NEW c \in Callers,
         \/ \E goal \in Locks : Begin(c, goal)
         \/ FindWeights(c)
         \/ \E k \in Locks : Stat(c, k) \/ StatOfNothing(c, k)
         \/ PollFetch(c) \/ Announce(c) \/ Fetch(c) \/ Publish(c) \/ FetchFails(c)
         \/ Look(c) \/ PollServe(c) \/ Recheck(c) \/ Await(c) \/ Request(c) \/ RequestFails(c)
  PROVE  Untroubled'
<1>0. /\ OneServer /\ StartIsGuarded /\ (MayAnswer => Answers) /\ status # "error"
      /\ \A k \in Locks : lock[k] # Left /\ ~old[k]
      /\ CalmCaller(c) /\ CalmLocks
  BY CalmFacts DEF Untroubled
<1>1. ASSUME NEW at, Well(c, at), UNCHANGED <<lock, old, server, stolen>>, status' # "error",
             at \notin {<<"restart">>, <<"break", "fetch">>, <<"break", "serve">>, <<"await">>},
             at \in {<<"request">>, <<"unlink", "serve">>} => Answers,
             at = <<"spawn">> => \A s \in Slots : server[s] = "none",
             At(c, <<"await">>) => Answers
      PROVE  Untroubled'
  <2>1. CalmLocks'
    BY <1>0, <1>1 DEF CalmLocks
  <2> QED BY <2>1, <1>0, <1>1, CalmMove
<1>2. ASSUME NEW p \in {"weights", "look", "fetch", "publish", "request", "spawn"},
             Moves(c, <<p>>), UNCHANGED <<lock, old, server, stolen>>, status' # "error",
             p = "request" => Answers, ~At(c, <<"await">>),
             p = "spawn" => \A s \in Slots : server[s] = "none"
      PROVE  Untroubled'
  <2>1. Well(c, <<p>>)
    BY <1>0, <1>2, WellMoves, ThePlaces
  <2>2. <<p>> \notin {<<"restart">>, <<"break", "fetch">>, <<"break", "serve">>, <<"await">>}
        /\ <<p>> # <<"unlink", "serve">>
    BY <1>2
  <2> QED BY <2>1, <2>2, <1>1, <1>2
<1>3. ASSUME NEW p \in {"open", "poll", "unlink", "stat"}, NEW k \in Locks,
             Moves(c, <<p, k>>), UNCHANGED <<lock, old, server, stolen>>, status' # "error",
             p = "unlink" /\ k = "serve" => Answers, At(c, <<"await">>) => Answers
      PROVE  Untroubled'
  <2>1. Well(c, <<p, k>>)
    BY <1>0, <1>3, WellMoves, ThePlaces
  <2>2. /\ <<p, k>> \notin {<<"restart">>, <<"break", "fetch">>, <<"break", "serve">>, <<"await">>}
        /\ <<p, k>> # <<"request">> /\ <<p, k>> # <<"spawn">>
        /\ <<p, k>> = <<"unlink", "serve">> => p = "unlink" /\ k = "serve"
    BY <1>3
  <2> QED BY <2>1, <2>2, <1>1, <1>3
<1>4. ASSUME Ends(c, "ok"), UNCHANGED <<lock, old, server, stolen>>, status' # "error",
             ~At(c, <<"await">>)
      PROVE  Untroubled'
  <2>1. Well(c, <<"idle">>)
    BY <1>0, <1>4, WellMoves
  <2> QED BY <2>1, <1>1, <1>4
<1>5. "fetch" \in Locks /\ "serve" \in Locks
  BY DEF Locks
<1>6. \A fault \in Faults : ~Faulty(fault)
  BY DEF Faulty
<1>7. ASSUME NEW goal \in Locks, Begin(c, goal) PROVE Untroubled'
  <2>1. Well(c, <<"weights">>) /\ UNCHANGED <<lock, old, server, stolen>> /\ status' = status
    BY <1>0, <1>7, WellMoves DEF Begin, files
  <2>2. At(c, <<"idle">>)
    BY <1>7, Zenon DEF Begin
  <2> QED BY <2>1, <2>2, <1>0, <1>1 DEF At
<1>8. CASE FindWeights(c)
  <2>1. ~At(c, <<"await">>)
    BY <1>8 DEF FindWeights, At
  <2>2. /\ UNCHANGED <<lock, old, server, stolen>>
        /\ status' \in {status, "ready"}
        /\ Ends(c, "ok") \/ Moves(c, <<"look">>) \/ Moves(c, <<"open", "fetch">>)
    BY <1>8, Zenon DEF FindWeights, HasWeights
  <2>3. status' # "error"
    BY <2>2, <1>0
  <2> QED BY <2>1, <2>2, <2>3, <1>2, <1>3, <1>4, <1>5
<1>9. ASSUME NEW k \in Locks, Stat(c, k) PROVE Untroubled'
  <2>1. ~At(c, <<"await">>)
    BY <1>9 DEF Stat, At
  <2>2. Moves(c, <<IF Stale(k) THEN "break" ELSE "poll", k>>) /\ ~Stale(k)
    BY <1>0, <1>9 DEF Stat, Stale
  <2>3. Moves(c, <<"poll", k>>)
    BY <2>2
  <2>4. UNCHANGED <<lock, old, server, stolen>> /\ status' = status
    BY <1>9 DEF Stat, files
  <2> QED BY <2>1, <2>3, <2>4, <1>0, <1>3
<1>10. ASSUME NEW k \in Locks PROVE ~StatOfNothing(c, k)
  BY DEF StatOfNothing
<1>11. CASE PollFetch(c)
  <2>1. ~At(c, <<"await">>)
    BY <1>11 DEF PollFetch, At
  <2>2. /\ UNCHANGED <<lock, old, server, stolen>> /\ status' = status
        /\ Ends(c, "ok") \/ Moves(c, <<"look">>) \/ Moves(c, <<"open", "fetch">>)
    BY <1>0, <1>6, <1>11 DEF PollFetch, HasWeights, Again, files, Faults
  <2> QED BY <2>1, <2>2, <1>0, <1>2, <1>3, <1>4, <1>5
<1>12. CASE Announce(c) \/ Fetch(c) \/ Publish(c)
  <2>1. ~At(c, <<"await">>)
    BY <1>12 DEF Announce, Fetch, Publish, At
  <2>2. /\ UNCHANGED <<lock, old, server, stolen>>
        /\ status' \in {status, "downloading", "ready"}
        /\ Moves(c, <<"fetch">>) \/ Moves(c, <<"publish">>) \/ Moves(c, <<"unlink", "fetch">>)
    BY <1>12, Zenon DEF Announce, Fetch, Publish
  <2>3. status' # "error"
    BY <2>2, <1>0
  <2> QED BY <2>1, <2>2, <2>3, <1>2, <1>3, <1>5
<1>13. ~FetchFails(c)
  BY <1>6 DEF FetchFails, Faults
<1>14. CASE Look(c) \/ PollServe(c)
  <2>1. ~At(c, <<"await">>)
    BY <1>14 DEF Look, PollServe, At
  <2>2. /\ UNCHANGED <<lock, old, server, stolen>> /\ status' = status
        /\ \/ Answers /\ Moves(c, <<"request">>)
           \/ Moves(c, <<"open", "serve">>)
    BY <1>0, <1>5, <1>6, <1>14 DEF Look, PollServe, Again, files, Faults
  <2> QED BY <2>1, <2>2, <1>0, <1>2, <1>3, <1>5
<1>15. CASE Recheck(c)
  <2>1. At(c, <<"recheck">>) /\ ~At(c, <<"await">>)
    BY <1>15 DEF Recheck, At
  <2>2. /\ UNCHANGED <<lock, old, server, stolen>> /\ status' = status
        /\ \/ Answers /\ Moves(c, <<"unlink", "serve">>)
           \/ ~Answers /\ Moves(c, <<"spawn">>)
    BY <1>0, <1>15 DEF Recheck, files
  <2>3. ASSUME ~Answers, NEW s \in Slots PROVE server[s] = "none"
    <3>1. server[s] # "serving"
      BY <2>3 DEF Answers
    <3>2. server[s] \notin {"starting", "loading"}
      <4> SUFFICES ASSUME NEW d \in Callers, AwaitsIts(d, s) PROVE FALSE
        BY DEF Untroubled, CalmServer
      <4>1. <<"await">> \in Critical["serve"] /\ <<"recheck">> \in Critical["serve"]
        BY DEF Critical
      <4>2. lock["serve"] = d /\ lock["serve"] = c
        BY <4>1, <2>1, <1>5, CalmFacts DEF AwaitsIts, At
      <4> QED BY <4>2, <2>1 DEF AwaitsIts
    <3>3. server[s] # "dying"
      BY DEF Untroubled, CalmServer
    <3> QED BY <3>1, <3>2, <3>3 DEF TypeOK, Live
  <2> QED BY <2>1, <2>2, <2>3, <1>0, <1>2, <1>3, <1>5
<1>16. CASE Await(c)
  <2>1. At(c, <<"await">>) /\ server[caller[c].own] # "none"
    BY <1>16, <1>0 DEF Await, CalmCaller, Live
  <2>2. /\ UNCHANGED <<lock, old, server, stolen>> /\ status' = status
        /\ Answers /\ Moves(c, <<"unlink", "serve">>)
    BY <2>1, <1>0, <1>6, <1>16 DEF Await, files, Faults
  <2> QED BY <2>2, <1>0, <1>3, <1>5
<1>17. CASE Request(c)
  <2>1. ~At(c, <<"await">>)
    BY <1>17 DEF Request, At
  <2>2. UNCHANGED <<lock, old, server, stolen>> /\ status' = status /\ Ends(c, "ok")
    BY <1>17 DEF Request, files
  <2> QED BY <2>1, <2>2, <1>0, <1>4
<1>18. ~RequestFails(c)
  BY <1>0, <1>6 DEF RequestFails, CalmCaller, At, Faults
<1> QED BY <1>7, <1>8, <1>9, <1>10, <1>11, <1>12, <1>13, <1>14, <1>15, <1>16, <1>17, <1>18

(* The steps that take and give back a lock. *)
LEMMA CalmLocking ==
  ASSUME TypeOK, Safe, Untroubled, NEW c \in Callers, NEW k \in Locks,
         Open(c, k) \/ Unlink(c, k)
  PROVE  Untroubled'
<1>0. /\ OneServer /\ status # "error" /\ CalmCaller(c)
      /\ \A l \in Locks : lock[l] # Left /\ ~old[l] /\ ~stolen[l]
  BY CalmFacts
<1>1. ~At(c, <<"await">>)
  BY DEF Open, Unlink, At
<1>2. UNCHANGED <<server, stolen>> /\ status' = status
  BY DEF Open, Unlink, files
<1>3. CalmLocks'
  <2>1. CASE Open(c, k)
    BY <2>1, <1>0, SlotsAssumption DEF Open, CalmLocks, TypeOK
  <2>2. CASE Unlink(c, k)
    BY <2>2, <1>0, SlotsAssumption DEF Unlink, CalmLocks, TypeOK
  <2> QED BY <2>1, <2>2
<1>4. ASSUME NEW p \in {"look", "request", "announce", "recheck", "idle"}, Well(c, <<p>>),
             p = "request" => Answers
      PROVE  Untroubled'
  <2>1. <<p>> \notin {<<"restart">>, <<"break", "fetch">>, <<"break", "serve">>, <<"await">>}
        /\ <<p>> # <<"unlink", "serve">> /\ <<p>> # <<"spawn">>
    BY <1>4
  <2> QED BY <2>1, <1>0, <1>1, <1>2, <1>3, <1>4, CalmMove
<1>5. ASSUME Open(c, k), lock[k] = None PROVE Untroubled'
  <2>1. PICK p \in {"announce", "recheck"} : Moves(c, <<p>>)
    BY <1>5 DEF Open, AfterOpen, Locks
  <2>2. Well(c, <<p>>)
    BY <2>1, <1>0, WellMoves, ThePlaces
  <2> QED BY <2>2, <1>4
<1>6. ASSUME Open(c, k), lock[k] # None PROVE Untroubled'
  <2>1. Moves(c, <<"stat", k>>) /\ <<"stat", k>> \in Places
    BY <1>6, ThePlaces DEF Open
  <2>2. Well(c, <<"stat", k>>)
    BY <2>1, <1>0, WellMoves
  <2>3. /\ <<"stat", k>> \notin {<<"restart">>, <<"break", "fetch">>, <<"break", "serve">>,
                                 <<"await">>}
        /\ <<"stat", k>> \notin {<<"request">>, <<"unlink", "serve">>}
        /\ <<"stat", k>> # <<"spawn">>
    OBVIOUS
  <2> QED BY <2>2, <2>3, <1>0, <1>1, <1>2, <1>3, CalmMove
<1>7. ASSUME Unlink(c, k) PROVE Untroubled'
  <2>1. ~caller[c].bad /\ (k = "serve" => Answers)
    BY <1>0, <1>7 DEF CalmCaller, Unlink, At
  <2>2. \/ Ends(c, "ok") \/ Moves(c, <<"look">>)
        \/ Answers /\ Moves(c, <<"request">>)
    BY <2>1, <1>7 DEF Unlink, HasWeights, Locks
  <2>3. \/ Well(c, <<"idle">>) \/ Well(c, <<"look">>)
        \/ Answers /\ Well(c, <<"request">>)
    BY <2>2, <1>0, WellMoves, ThePlaces
  <2>4. ASSUME Well(c, <<"idle">>) PROVE Untroubled'
    BY <2>4, <1>4
  <2>5. ASSUME Well(c, <<"look">>) PROVE Untroubled'
    BY <2>5, <1>4
  <2>6. ASSUME Well(c, <<"request">>), Answers PROVE Untroubled'
    BY <2>6, <1>4
  <2> QED BY <2>3, <2>4, <2>5, <2>6
<1> QED BY <1>5, <1>6, <1>7

(* A spawn without a fault finds no server and begins the only one. *)
LEMMA CalmSpawn ==
  ASSUME TypeOK, Safe, Untroubled, NEW c \in Callers, Spawn(c)
  PROVE  Untroubled'
<1>0. /\ status # "error" /\ CalmCaller(c)
      /\ \A d \in Callers : CalmCaller(d)
      /\ \A k \in Locks : \A d \in Callers : caller[d].at \in Critical[k] => lock[k] = d
      /\ \A k \in Locks : lock[k] # Left /\ ~old[k] /\ ~stolen[k]
  BY CalmFacts
<1>1. At(c, <<"spawn">>) /\ UNCHANGED <<lock, old, stolen>> /\ status' = status
  BY DEF Spawn, files
<1>2. \A s \in Slots : server[s] = "none"
  BY <1>0, <1>1 DEF CalmCaller
<1>3. ~PortInUse
  BY <1>2 DEF PortInUse
<1> DEFINE a == [caller[c] EXCEPT !.at = <<"await">>, !.own = NewSlot]
<1>4. /\ server' = [server EXCEPT ![NewSlot] = "starting"] /\ FreeSlots # {} /\ Becomes(c, a)
  BY <1>3, Zenon DEF Spawn
<1>5. NewSlot \in Slots
  <2>1. NewSlot \in FreeSlots
    BY <1>4 DEF NewSlot
  <2> QED BY <2>1 DEF FreeSlots
<1>6. /\ a \in Attempts /\ a.at = <<"await">> /\ a.own = NewSlot /\ a.bad = caller[c].bad
      /\ a.verdict = caller[c].verdict
  <2>1. caller[c] \in Attempts
    BY DEF TypeOK
  <2> HIDE DEF NewSlot
  <2> QED BY <2>1, <1>5, ThePlaces DEF Attempts
<1> HIDE DEF a
<1>7. Goes(c, a.at, a.own, a.bad, a.verdict)
  BY <1>4, <1>6, PutAttempt
<1>8. PICK n \in Slots : n = NewSlot
  BY <1>5
<1>9. Well(c, <<"await">>) /\ caller'[c].own = n
  BY <1>0, <1>6, <1>7, <1>8 DEF Goes, Comes, Well, CalmCaller
<1>10. server'[n] = "starting" /\ \A s \in Slots \ {n} : server'[s] = "none"
  BY <1>2, <1>4, <1>8 DEF TypeOK
<1>11. CalmLocks'
  BY <1>0, <1>1 DEF CalmLocks
<1>12. CalmCaller(c)'
  BY <1>9, <1>10 DEF CalmCaller, Well, Comes, At, Live
<1>13. ASSUME NEW d \in Callers \ {c} PROVE CalmCaller(d)'
  <2>1. caller'[d] = caller[d] /\ CalmCaller(d)
    BY <1>0, <1>9 DEF Well, Comes
  <2>2. ~Answers
    BY <1>2 DEF Answers
  <2>3. /\ <<"spawn">> \in Critical["serve"] /\ <<"await">> \in Critical["serve"]
        /\ "serve" \in Locks
    BY DEF Critical, Locks
  <2>4. caller[d].at # <<"spawn">> /\ caller[d].at # <<"await">>
    BY <2>3, <1>0, <1>1 DEF At
  <2> QED BY <2>1, <2>2, <2>4 DEF CalmCaller, At
<1>14. ASSUME NEW s \in Slots PROVE CalmServer(s)'
  <2>1. CASE s = n
    BY <2>1, <1>9, <1>10 DEF CalmServer, AwaitsIts, Well, Comes, At
  <2>2. CASE s # n
    BY <2>2, <1>10 DEF CalmServer
  <2> QED BY <2>1, <2>2
<1> QED BY <1>0, <1>1, <1>11, <1>12, <1>13, <1>14 DEF Untroubled

(* A server that binds its port or has loaded its weights. *)
LEMMA CalmServing ==
  ASSUME TypeOK, Safe, Untroubled, NEW s \in Slots, Bind(s) \/ Loaded(s)
  PROVE  Untroubled'
<1>0. OneServer /\ \A r \in Slots : CalmServer(r)
  BY CalmFacts DEF Untroubled
<1>1. PICK v \in {"loading", "serving"} :
        server[s] \in {"starting", "loading"} /\ server' = [server EXCEPT ![s] = v]
  <2>1. CASE Bind(s)
    <3>1. server[s] = "starting"
      BY <2>1 DEF Bind
    <3>2. ~PortInUse
      BY <3>1, <1>0 DEF PortInUse, OneServer
    <3> QED BY <2>1, <3>1, <3>2 DEF Bind
  <2>2. CASE Loaded(s)
    BY <2>2 DEF Loaded
  <2> QED BY <2>1, <2>2
<1>2. UNCHANGED <<lock, old, caller, stolen>> /\ status' = status
  BY DEF Bind, Loaded, files
<1>3. server'[s] = v /\ \A r \in Slots \ {s} : server'[r] = server[r]
  BY <1>1 DEF TypeOK
<1>4. CalmLocks'
  BY <1>2 DEF Untroubled, CalmLocks
<1>5. ASSUME NEW d \in Callers PROVE CalmCaller(d)'
  <2>1. caller'[d] = caller[d] /\ CalmCaller(d)
    BY <1>2 DEF Untroubled
  <2>2. Answers => Answers'
    BY <1>1, <1>3 DEF Answers
  <2>3. \A r \in Slots : server[r] \in Live => server'[r] \in Live
    BY <1>1, <1>3 DEF Live
  <2>4. At(d, <<"await">>) => caller[d].own \in Slots
    BY DEF Safe, HasHandle
  <2>5. server[s] # "none"
    BY <1>1
  <2> QED BY <2>1, <2>2, <2>3, <2>4, <2>5 DEF CalmCaller, At
<1>6. ASSUME NEW r \in Slots PROVE CalmServer(r)'
  BY <1>0, <1>1, <1>2, <1>3 DEF CalmServer, AwaitsIts, At
<1> QED BY <1>2, <1>4, <1>5, <1>6 DEF Untroubled

(* Calm does not come back. *)
LEMMA TroubleStays ==
  ASSUME [Next]_vars, calm' = TRUE
  PROVE  calm = TRUE \/ UNCHANGED vars
<1>0. /\ \A fault \in Faults : ~Faulty(fault)
      /\ NoFault => calm = TRUE
  BY DEF Faulty, NoFault
<1>1. ASSUME NEW c \in Callers, Attempt(c) PROVE calm = TRUE
  <2>1. ASSUME NEW k \in Locks,
               Begin(c, k) \/ Open(c, k) \/ Stat(c, k) \/ Break(c, k) \/ Unlink(c, k)
        PROVE  NoFault
    BY <2>1, Zenon DEF Begin, Open, Stat, Break, Unlink
  <2>2. ASSUME \/ FindWeights(c) \/ Announce(c) \/ Fetch(c) \/ Publish(c) \/ Look(c)
               \/ Recheck(c) \/ Spawn(c) \/ Request(c) \/ Restart(c)
        PROVE  NoFault
    BY <2>2, Zenon DEF FindWeights, Announce, Fetch, Publish, Look, Recheck, Spawn, Request, Restart
  <2>3. CASE PollFetch(c) \/ PollServe(c)
    <3>1. ~Faulty("slow")
      BY <1>0 DEF Faults
    <3>2. NoFault
      <4>1. CASE PollFetch(c)
        BY <4>1, <3>1, Zenon DEF PollFetch, Again
      <4>2. CASE PollServe(c)
        BY <4>2, <3>1, Zenon DEF PollServe, Again
      <4> QED BY <2>3, <4>1, <4>2
    <3> QED BY <3>2, <1>0
  <2>4. CASE Await(c) \/ RequestFails(c)
    BY <2>4, <1>0 DEF Await, RequestFails, Faults
  <2>5. \A k \in Locks : ~StatOfNothing(c, k)
    BY DEF StatOfNothing
  <2> QED BY <1>0, <1>1, <2>1, <2>2, <2>3, <2>4, <2>5 DEF Attempt
<1>2. ASSUME NEW s \in Slots, Bind(s) \/ Loaded(s) \/ Gone(s) PROVE calm = TRUE
  BY <1>0, <1>2 DEF Bind, Loaded, Gone
<1>3. ASSUME NEW k \in Locks, Ages(k) PROVE calm = TRUE
  BY <1>0, <1>3 DEF Ages, Faults
<1>4. \A c \in Callers : ~FetchFails(c) /\ ~Crash(c)
  BY <1>0 DEF FetchFails, Crash, Faults
<1>5. \A s \in Slots : ~Exits(s)
  BY <1>0 DEF Exits, Faults
<1> QED BY <1>1, <1>2, <1>3, <1>4, <1>5 DEF Next

(* Every step without a fault keeps calm. *)
LEMMA StepCalm ==
  ASSUME TypeOK, Safe, Calm, [Next]_vars
  PROVE  Calm'
<1> SUFFICES ASSUME calm' = TRUE PROVE Untroubled'
  BY StepSafe DEF Calm, TypeOK
<1>1. ASSUME NEW c \in Callers, Attempt(c) \/ FetchFails(c) \/ Crash(c), calm = TRUE
      PROVE  Untroubled'
  <2>0. Untroubled /\ CalmCaller(c)
    BY <1>1 DEF Calm, Untroubled
  <2>1. ~Crash(c)
    BY DEF Crash, Faulty
  <2>2. ~Restart(c)
    BY <2>0 DEF Restart, CalmCaller, At
  <2>3. \A k \in Locks : ~Break(c, k)
    BY <2>0 DEF Break, CalmCaller, At, Locks
  <2>4. ASSUME NEW k \in Locks, Open(c, k) \/ Unlink(c, k) PROVE Untroubled'
    BY <2>0, <2>4, CalmLocking
  <2>5. CASE Spawn(c)
    BY <2>0, <2>5, CalmSpawn
  <2>6. CASE \/ \E goal \in Locks : Begin(c, goal)
             \/ FindWeights(c)
             \/ \E k \in Locks : Stat(c, k) \/ StatOfNothing(c, k)
             \/ PollFetch(c) \/ Announce(c) \/ Fetch(c) \/ Publish(c) \/ FetchFails(c)
             \/ Look(c) \/ PollServe(c) \/ Recheck(c) \/ Await(c) \/ Request(c) \/ RequestFails(c)
    BY <1>1, <2>0, <2>6, CalmWalk
  <2> QED BY <1>1, <2>1, <2>2, <2>3, <2>4, <2>5, <2>6 DEF Attempt
<1>2. ASSUME NEW s \in Slots, Bind(s) \/ Loaded(s) \/ Gone(s) \/ Exits(s), calm = TRUE
      PROVE  Untroubled'
  <2>1. Untroubled /\ CalmServer(s)
    BY <1>2 DEF Calm, Untroubled
  <2>2. ~Gone(s) /\ ~Exits(s)
    BY <2>1 DEF Gone, Exits, Faulty, CalmServer
  <2> QED BY <1>2, <2>1, <2>2, CalmServing
<1>3. ASSUME NEW k \in Locks, calm = TRUE
      PROVE  ~Ages(k)
  <2>1. lock[k] # Left
    BY <1>3 DEF Calm, Untroubled, CalmLocks
  <2> QED BY <2>1 DEF Ages, Faulty
<1>4. CASE UNCHANGED vars
  BY <1>4 DEF vars, files, Calm, Untroubled, CalmLocks, CalmCaller, CalmServer, Answers, AwaitsIts, At
<1>5. calm = TRUE \/ UNCHANGED vars
  BY TroubleStays
<1> QED BY <1>1, <1>2, <1>3, <1>4, <1>5 DEF Next

(* Until something fails from outside, no attempt fails, however the attempts of *)
(* any number of processes meet at the two locks and at the port.                *)
THEOREM AttemptsSucceed == Spec => []Blameless
<1>1. Init => Calm
  <2> SUFFICES ASSUME Init PROVE Untroubled
    BY DEF Calm
  <2>1. \A c \in Callers : caller[c] = Fresh
    BY DEF Init
  <2>2. Fresh.at = <<"idle">> /\ Fresh.bad = FALSE /\ Fresh.verdict = "none"
    BY DEF Fresh
  <2> HIDE DEF Fresh
  <2>3. \A c \in Callers : CalmCaller(c)
    BY <2>1, <2>2 DEF CalmCaller, At
  <2> QED BY <2>3, SlotsAssumption DEF Init, Untroubled, CalmLocks, CalmServer
<1>2. TypeOK /\ Safe /\ Calm /\ [Next]_vars => Calm'
  BY StepCalm
<1>3. Calm => Blameless
  BY DEF Calm, Untroubled, CalmCaller, Blameless
<1> QED BY <1>1, <1>2, <1>3, TypeCorrect, PTL DEF Spec
=============================================================================
