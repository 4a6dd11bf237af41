--------------------------- MODULE PromiseLedger ---------------------------
(***************************************************************************)
(* The promises of a project: rows of story_bible_entries that the runs    *)
(* writing its chapters open, advance and settle, and that the user edits. *)
(* A run goes through the pinpoint rewrite of its draft, the verification  *)
(* of the promises that are due, the registration of new ones and, once    *)
(* the chapter is written back, the sync of the hooks named in its goal.   *)
(* Each reads the rows it may change without a lock, changes the objects   *)
(* it read and commits: an UPDATE sets the columns whose value differs     *)
(* from what was read and no WHERE clause checks the version.  The user's  *)
(* requests do check it.  (project, kind, key, version) is unique.         *)
(*                                                                         *)
(* Rows are never deleted: a row's id is its place in the table.           *)
(***************************************************************************)
EXTENDS Naturals, Sequences

CONSTANTS
  Keys,      \* the keys promises have
  Runs,      \* the runs that write chapters of the project
  Chapters,  \* the chapters they write
  Quotes,    \* what a model may quote as evidence
  Scenarios  \* the table a behaviour starts from and how much of each thing it sees

Statuses == {"open", "developing", "resolved", "abandoned", "excluded"}
Fulfilments == [chapter : Chapters, quote : Quotes]
\* value_json is the fulfilments and the number required; version counts the changes.
Rows == [key : Keys, status : Statuses, version : Nat \ {0},
         fulfilments : Seq(Fulfilments), required : Nat \ {0}]
\* edits: requests of the user; faults: processes that die, writes that fail.
Bounds == [edits : Nat, faults : Nat]
\* No evidence of a chapter is on a row twice.
Once(row) ==
  \A j, k \in DOMAIN row.fulfilments : row.fulfilments[j] = row.fulfilments[k] => j = k
Sound == {row \in Rows : Once(row)}
ASSUME LedgerAssumption == Scenarios \subseteq [rows : Seq(Sound), bounds : Bounds]

VARIABLES
  rows,  \* the table
  run,   \* what each run is doing
  tx,    \* the open transaction of each run
  form,  \* the row the user has before them
  left   \* what is left of each bound

vars == <<rows, run, tx, form, left>>

PCs == {"start", "rewrite", "rewriting", "verify", "verifying", "verified",
        "register", "registering", "sync", "syncing", "done"}
\* fulfilled, missed: of the verification; landed: the keys whose fulfilment it committed.
RunStates == [pc : PCs, chapter : Chapters, due : SUBSET Keys, reported : BOOLEAN,
              fulfilled : SUBSET Keys, missed : SUBSET Keys, landed : SUBSET Keys]
\* seen: the table when it was read; out: the objects and the new rows; values: those
\* whose value_json differs from what was read.
NoTx == [seen |-> <<>>, out |-> <<>>, values |-> {}]
NoForm == [id |-> 0, row |-> <<>>]

-----------------------------------------------------------------------------

\* PROMISE_TRANSITIONS.
Transition == [s \in Statuses |-> CASE s = "open" -> {"developing"}
                                    [] s = "developing" -> {"resolved", "abandoned"}
                                    [] OTHER -> {}]
Pending(row) == row.status \in {"open", "developing"}

\* apply_fulfillment: counted once per chapter and quote, settled at the required count.
Counted(list, f) == \E i \in DOMAIN list : list[i] = f
\* Mutant: what is on record already is appended again.
FulfilAgain(row, f) ==
  LET list == Append(row.fulfilments, f)
  IN  [row EXCEPT !.fulfilments = list,
                  !.version = @ + 1,
                  !.status = IF Len(list) >= row.required /\ Pending(row) THEN "resolved"
                             ELSE IF @ = "open" THEN "developing" ELSE @]
\* Mutant: the required count is compared as if the quote were new.
FulfilAhead(row, f) ==
  LET list == IF Counted(row.fulfilments, f) THEN row.fulfilments ELSE Append(row.fulfilments, f)
  IN  [row EXCEPT !.fulfilments = list,
                  !.version = @ + 1,
                  !.status = IF Len(row.fulfilments) + 1 >= row.required /\ Pending(row) THEN "resolved"
                             ELSE IF @ = "open" THEN "developing" ELSE @]

Fulfil(row, f) ==
  LET list == IF Counted(row.fulfilments, f) THEN row.fulfilments ELSE Append(row.fulfilments, f)
  IN  [row EXCEPT !.fulfilments = list,
                  !.version = @ + 1,
                  !.status = IF Len(list) >= row.required /\ Pending(row) THEN "resolved"
                             ELSE IF @ = "open" THEN "developing" ELSE @]
Bumped(row) == [row EXCEPT !.version = @ + 1]
NewRow(key) == [key |-> key, status |-> "open", version |-> 1, fulfilments |-> <<>>, required |-> 1]

Of(table, key) == {i \in DOMAIN table : table[i].key = key}
\* What a registration merges into, whatever its status: by_key holds one of the rows of a
\* key, the one the query returned last.
Target(table, cand) ==
  LET named == Of(table, cand.duplicateOf)
  IN  IF named # {} THEN named ELSE Of(table, cand.key)

-----------------------------------------------------------------------------

\* The table after the UPDATEs of a transaction, then its INSERTs.
Updated(t, i) ==
  IF i > Len(t.seen) \/ t.out[i] = t.seen[i] THEN rows[i]
  ELSE [key |-> rows[i].key,
        status |-> IF t.out[i].status = t.seen[i].status THEN rows[i].status ELSE t.out[i].status,
        version |-> t.out[i].version,
        fulfilments |-> IF i \in t.values THEN t.out[i].fulfilments ELSE rows[i].fulfilments,
        required |-> IF i \in t.values THEN t.out[i].required ELSE rows[i].required]
Flushed(t) == [i \in DOMAIN rows |-> Updated(t, i)]
                \o SubSeq(t.out, Len(t.seen) + 1, Len(t.out))
\* uq_story_bible_version, checked at each statement, in the order of the ids.
Collides(t) ==
  LET new == Flushed(t)
      written(i) == i \in DOMAIN rows => new[i] # rows[i]
      then(i, j) == IF j < i THEN new[j] ELSE rows[j]
  IN  \E i \in DOMAIN new : written(i) /\ \E j \in DOMAIN rows \cup 1..i - 1 :
        i # j /\ then(i, j).key = new[i].key /\ then(i, j).version = new[i].version

-----------------------------------------------------------------------------

Init ==
  /\ \E s \in Scenarios : rows = s.rows /\ left = s.bounds
  /\ run \in [Runs -> [pc : {"start"}, chapter : Chapters, due : {{}}, reported : {FALSE},
                       fulfilled : {{}}, missed : {{}}, landed : {{}}]]
  /\ tx = [r \in Runs |-> NoTx]
  /\ form = NoForm

Spend(what) == left[what] > 0 /\ left' = [left EXCEPT ![what] = @ - 1]

Moves(r, from, to) == run[r].pc = from /\ run' = [run EXCEPT ![r].pc = to]

\* A transaction reads the table and changes its objects; the commit is a step of its own.
Reads(r, out, values) ==
  /\ tx' = [tx EXCEPT ![r] = [seen |-> rows, out |-> out, values |-> values]]
  /\ UNCHANGED <<rows, form, left>>
Ends(r) == tx' = [tx EXCEPT ![r] = NoTx] /\ UNCHANGED form
\* The commit goes through, or the database refuses and all of it is rolled back.
Commits(r) == ~Collides(tx[r]) /\ rows' = Flushed(tx[r]) /\ UNCHANGED left
Fails(r) == /\ UNCHANGED rows
            /\ \/ Collides(tx[r]) /\ UNCHANGED left
               \/ Spend("faults")

\* promise_contract: the keys that are due, judged by a model.
Contract(r) ==
  /\ run[r].pc = "start"
  /\ \E due \in SUBSET Keys : run' = [run EXCEPT ![r].pc = "rewrite", ![r].due = due]
  /\ UNCHANGED <<rows, tx, form, left>>

\* No paragraph was rewritten, or none that a fulfilment quotes.
NoRewrite(r) == Moves(r, "rewrite", "verify") /\ UNCHANGED <<rows, tx, form, left>>
\* reconcile_promise_evidence: fulfilments of the chapter are anchored anew.
Quoting(r) == {i \in DOMAIN rows :
                 \E j \in DOMAIN rows[i].fulfilments :
                    rows[i].fulfilments[j].chapter = run[r].chapter}
RewriteRead(r) ==
  /\ Moves(r, "rewrite", "rewriting")
  /\ \E changed \in SUBSET Quoting(r) \ {{}} :
       Reads(r, [i \in DOMAIN rows |-> IF i \in changed THEN Bumped(rows[i]) ELSE rows[i]], changed)
RewriteCommit(r) == Moves(r, "rewriting", "verify") /\ Ends(r) /\ (Commits(r) \/ Fails(r))

\* The verdicts of the model name the keys it found fulfilled and a quote for each; the
\* query takes the pending rows of those keys.  The value_json of a row without new
\* evidence may differ all the same: the chapter that settled it is in it.
Judged(keys) == {i \in DOMAIN rows : rows[i].key \in keys /\ Pending(rows[i])}
VerifyRead(r) ==
  /\ run[r].pc = "verify" /\ run[r].due # {}
  /\ \E keys \in SUBSET run[r].due \ {{}} :
     \E quote \in [keys -> Quotes] :
       LET ids == Judged(keys)
           out == [i \in DOMAIN rows |->
                     IF i \in ids
                     THEN Fulfil(rows[i], [chapter |-> run[r].chapter, quote |-> quote[rows[i].key]])
                     ELSE rows[i]]
           new == {i \in ids : out[i].fulfilments # rows[i].fulfilments}
       IN  /\ \E same \in SUBSET (ids \ new) : Reads(r, out, new \cup same)
           /\ run' = [run EXCEPT ![r].pc = "verifying",
                                 ![r].fulfilled = {rows[i].key : i \in ids}]
VerifyCommit(r) ==
  /\ run[r].pc = "verifying" /\ Commits(r) /\ Ends(r)
  /\ run' = [run EXCEPT ![r].pc = "verified", ![r].landed = @ \cup run[r].fulfilled]
\* Mutant: the keys stay marked when the write fails.
VerifyFailHopefully(r) ==
  /\ run[r].pc = "verifying" /\ Fails(r) /\ Ends(r)
  /\ run' = [run EXCEPT ![r].pc = "verified"]

\* The write failed: nothing was fulfilled.
VerifyFail(r) ==
  /\ run[r].pc = "verifying" /\ Fails(r) /\ Ends(r)
  /\ run' = [run EXCEPT ![r].pc = "verified", ![r].fulfilled = {}]
\* No verdict names a key: nothing is read.
VerifyNone(r) ==
  /\ run[r].pc = "verify" /\ run[r].due # {}
  /\ run' = [run EXCEPT ![r].pc = "verified", ![r].fulfilled = {}]
  /\ UNCHANGED <<rows, tx, form, left>>
\* The executor commits the task with the chapter.promise_missed events.
Report(r) ==
  /\ run[r].pc = "verified"
  /\ run' = [run EXCEPT ![r].pc = "register", ![r].reported = TRUE,
                        ![r].missed = run[r].due \ run[r].fulfilled, ![r].fulfilled = {}]
  /\ UNCHANGED <<rows, tx, form, left>>
\* Nothing is due, or the call of the model failed: no key is marked and none reported.
VerifySkip(r) ==
  /\ run[r].due = {} \/ left.faults > 0
  /\ Moves(r, "verify", "register")
  /\ left' = IF run[r].due = {} THEN left ELSE [left EXCEPT !.faults = @ - 1]
  /\ UNCHANGED <<rows, tx, form>>

\* promise_register: the new promise a model found is merged into a row or becomes one.
RegisterRead(r) ==
  /\ Moves(r, "register", "registering")
  /\ \E key \in Keys, dup \in Keys, noted \in BOOLEAN :
       LET found == Target(rows, [key |-> key, duplicateOf |-> dup])
       IN  IF found = {} THEN noted /\ Reads(r, Append(rows, NewRow(key)), {})
           ELSE \E i \in found :
                  Reads(r, [rows EXCEPT ![i] = Bumped(@)], IF noted THEN {i} ELSE {})
RegisterNone(r) == Moves(r, "register", "sync") /\ UNCHANGED <<rows, tx, form, left>>
RegisterCommit(r) == Moves(r, "registering", "sync") /\ Ends(r) /\ (Commits(r) \/ Fails(r))

\* sync_promises_from_goal: a hook planted, or resolved, by the chapter.
Plants(key) ==
  IF Of(rows, key) = {} THEN {[out |-> Append(rows, NewRow(key)), values |-> {}]}
  ELSE {[out |-> [rows EXCEPT ![i] = IF @.status = "open" THEN [Bumped(@) EXCEPT !.status = "developing"]
                                     ELSE @],
         values |-> {}] : i \in Of(rows, key)}
Resolves(key) ==
  {[out |-> IF ~Pending(rows[i]) THEN rows
            ELSE [rows EXCEPT ![i].status = "resolved",
                              ![i].version = @ + (IF rows[i].status = "open" THEN 2 ELSE 1)],
    values |-> {i}] : i \in Of(rows, key)}
SyncRead(r) ==
  /\ Moves(r, "sync", "syncing")
  /\ \E key \in Keys : \E t \in Plants(key) \cup Resolves(key) : Reads(r, t.out, t.values)
SyncCommit(r) == Moves(r, "syncing", "done") /\ Ends(r) /\ (Commits(r) \/ Fails(r))
\* The goal names no hook, or a resolved one without a row; or the run was refused.
SyncNone(r) == Moves(r, "sync", "done") /\ UNCHANGED <<rows, tx, form, left>>

\* The process dies: the executor runs the task again, but the sync of a chapter that is
\* written back already is not repeated.
Die(r) ==
  /\ run[r].pc \in {"rewriting", "verifying", "verified", "registering", "syncing"}
  /\ Spend("faults") /\ Ends(r) /\ UNCHANGED rows
  /\ run' = [run EXCEPT ![r].pc = CASE @ = "rewriting" -> "rewrite"
                                    [] @ \in {"verifying", "verified"} -> "verify"
                                    [] @ = "registering" -> "register"
                                    [] OTHER -> "done"]

-----------------------------------------------------------------------------

\* The user's requests.  Look is what the page shows, or what the request itself reads.
Look(i) ==
  /\ left.edits > 0 /\ form # [id |-> i, row |-> rows[i]]
  /\ form' = [id |-> i, row |-> rows[i]]
  /\ UNCHANGED <<rows, run, tx, left>>
Current == form.id # 0 /\ rows[form.id].version = form.row.version
\* UPDATE ... WHERE version = expected; another row of the key may have the next version.
Saves(new) ==
  /\ ~\E j \in DOMAIN rows : j # form.id /\ rows[j].key = new.key /\ rows[j].version = new.version
  /\ rows' = [rows EXCEPT ![form.id] = new]
  /\ Spend("edits") /\ form' = NoForm
  /\ UNCHANGED <<run, tx>>
\* Mutant: no version in the WHERE clause.
PatchBlind ==
  /\ form.id # 0
  /\ \E required \in {1, 2} \ {form.row.required}, read \in {form.row, rows[form.id]} :
       Saves([Bumped(rows[form.id]) EXCEPT !.status = read.status, !.required = required,
                                           !.fulfilments = form.row.fulfilments])

\* PATCH: the value of the page, the status of the row the request read.
Patch ==
  /\ Current
  /\ \E required \in {1, 2} \ {form.row.required}, read \in {form.row, rows[form.id]} :
       Saves([Bumped(rows[form.id]) EXCEPT !.status = read.status, !.required = required,
                                           !.fulfilments = form.row.fulfilments])

\* Mutant: the request's status is not validated.
AllowedAlways(s) == Statuses \ {s}

\* POST .../status.
Allowed(s) == Transition[s]
ChangeStatus ==
  /\ Current
  /\ \E s \in Allowed(form.row.status) :
       Saves([Bumped(rows[form.id]) EXCEPT !.status = s])
\* POST .../exclude: out of sight, or back to open.
ToggleExclude ==
  /\ Current
  /\ Saves([Bumped(rows[form.id]) EXCEPT
              !.status = IF form.row.status = "excluded" THEN "open" ELSE "excluded"])
\* POST .../pin changes the version alone.
Pin == Current /\ Saves(Bumped(rows[form.id]))

\* POST .../entries: no look at what exists.
Create(key) ==
  /\ ~\E j \in Of(rows, key) : rows[j].version = 1
  /\ rows' = Append(rows, NewRow(key))
  /\ Spend("edits") /\ UNCHANGED <<run, tx, form>>

Step(r) ==
  \/ Contract(r)
  \/ NoRewrite(r) \/ RewriteRead(r) \/ RewriteCommit(r)
  \/ VerifyRead(r) \/ VerifyCommit(r) \/ VerifyFail(r) \/ VerifyNone(r) \/ VerifySkip(r)
  \/ Report(r)
  \/ RegisterRead(r) \/ RegisterNone(r) \/ RegisterCommit(r)
  \/ SyncRead(r) \/ SyncNone(r) \/ SyncCommit(r)
  \/ Die(r)
Next ==
  \/ \E r \in Runs : Step(r)
  \/ \E i \in DOMAIN rows : Look(i)
  \/ Patch \/ ChangeStatus \/ ToggleExclude \/ Pin
  \/ \E key \in Keys : Create(key)

Spec == Init /\ [][Next]_vars

-----------------------------------------------------------------------------

\* Whose step this is: a run's, or the user's.
Writer(r) == run'[r] # run[r]
\* Row i is written by who read it before its last change.
Stale(i) ==
  \/ \E r \in Runs : Writer(r) /\ i \in DOMAIN tx[r].seen /\ tx[r].seen[i] # rows[i]
  \/ UNCHANGED run /\ Current /\ form.id = i /\ form.row # rows[i]

\* However often a verification is redelivered, and whatever writes overtake it, a row
\* never holds the same evidence of the same chapter twice.
OneCount == \A i \in DOMAIN rows : Once(rows[i])

\* A promise that was due and has no fulfilment on record is reported as missed, when the
\* write of the fulfilments failed or was refused too.
NoSilentMiss ==
  \A r \in Runs : run[r].reported => run[r].due \ run[r].landed \subseteq run[r].missed

\* A verification settles a promise on the evidence that is on record once it has
\* committed: the same quote found again by a redelivered task brings the promise no nearer
\* to its required count, and what others write meanwhile does not take away what it counted.
\* Excused is a verification that had not read the row as it is and has no evidence to add.
SettledOnEvidence ==
  [][\A r \in Runs : run[r].pc = "verifying" /\ run'[r].pc = "verified" =>
       \A i \in DOMAIN rows : rows[i].status # "resolved" /\ rows'[i].status = "resolved" =>
         \/ Len(rows'[i].fulfilments) >= rows'[i].required
         \/ Stale(i) /\ tx[r].out[i].fulfilments = tx[r].seen[i].fulfilments]_vars

\* A promise advances along PROMISE_TRANSITIONS, one or two steps at a time, and leaves
\* them only for the user who excludes or restores it: unless the writer had not read the
\* row as it is, a settled promise is never reopened and none is settled at a bound.
Leads(s) == Transition[s] \cup {"resolved" : t \in {u \in Transition[s] : "resolved" \in Transition[u]}}
StatusMoves ==
  [][\A i \in DOMAIN rows :
        \/ rows'[i].status = rows[i].status
        \/ rows'[i].status \in Transition[rows[i].status]
        \/ ~UNCHANGED run /\ rows[i].status = "open" /\ rows'[i].status = "resolved"
        \/ UNCHANGED run /\ (rows'[i].status = "excluded" \/ rows[i].status = "excluded")
        \/ Stale(i)]_vars

\* Evidence on record disappears only under a writer that had read the row before the
\* evidence was written: the version a request checks protects it from older pages.
FulfilmentsKept ==
  [][\A i \in DOMAIN rows :
        \/ \A j \in DOMAIN rows[i].fulfilments : Counted(rows'[i].fulfilments, rows[i].fulfilments[j])
        \/ Stale(i)]_vars

TypeOK ==
  /\ rows \in Seq(Rows)
  /\ run \in [Runs -> RunStates]
  /\ \A r \in Runs : /\ tx[r].seen \in Seq(Rows) /\ tx[r].out \in Seq(Rows)
                     /\ tx[r].values \subseteq DOMAIN tx[r].seen
  /\ form = NoForm \/ (form.id \in DOMAIN rows /\ form.row \in Rows)
  /\ left \in Bounds
=============================================================================
