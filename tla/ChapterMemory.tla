---------------------------- MODULE ChapterMemory ----------------------------
(***************************************************************************)
(* What the project remembers of its chapters.  A chapter's active version *)
(* changes by an edit, a rollback, an approved revision proposal or the    *)
(* write-back of an agent run; set_active_version then queues the jobs     *)
(* (retrieval_jobs rows) that re-index the chapter and summarize the new   *)
(* version, and invalidates every recap that covers the chapter.  The      *)
(* summary of the chapter that closes a volume queues a rollup, whose      *)
(* recaps are indexed in turn.                                             *)
(*                                                                         *)
(* The chapters are those of one volume.  A text is the set of chapter     *)
(* versions it was made from: a chapter document has one, a recap several. *)
(* The queue that carries a job to a worker is LocalTaskQueue's; here a    *)
(* pending row can be delivered at any moment, because sweep_pending_jobs  *)
(* re-dispatches every row that stays pending.                             *)
(***************************************************************************)
EXTENDS Naturals, Sequences, FiniteSets, SequencesExt

CONSTANTS
  Chapters,     \* the chapters of the volume
  Closing,      \* its last chapter
  Versions,     \* contents a chapter can have (append_version stores each once)
  Proposals,    \* revision proposals
  Writers,      \* requests and processes that change a chapter's active version (numbers)
  Workers,      \* worker slots that run the jobs (numbers)
  MaxAttempts,  \* MAX_ATTEMPTS
  RunChapter,   \* the chapter an agent run wrote,
  RunVersion,   \* and its final draft
  RowLocks,     \* whether SELECT ... FOR UPDATE locks (PostgreSQL) or not (SQLite)
  Scenarios     \* what a behaviour starts with and how much of each thing it sees

None == "none"
Levels == {"volume", "book"}
Sources == Chapters \cup Levels  \* what a retrieval document is made of

ASSUME SourceAssumption ==
  /\ {Closing, RunChapter} \subseteq Chapters /\ RunVersion \in Versions
  /\ IsFiniteSet(Chapters) /\ Chapters \cap Levels = {} /\ None \notin Versions
  /\ Writers \cup Workers \subseteq Nat
ASSUME LockAssumption == RowLocks \in BOOLEAN
\* edits: changes of an active version; faults: jobs that raise, workers that die or
\* are taken for dead, redeliveries, aborted writers; saves: of the embedding settings;
\* recomputes: of a stale recap, for a scene pack.
Bounds == [edits : Nat, faults : Nat, saves : Nat, recomputes : Nat]
ASSUME ScenarioAssumption ==
  /\ MaxAttempts \in Nat
  /\ Scenarios \subseteq [embedding : BOOLEAN, model : BOOLEAN, bounds : Bounds,
                         clients : SUBSET {"put", "edit", "approve", "writeback"}]

VARIABLES
  active,     \* chapters.active_version_id
  written,    \* the versions of each chapter
  summarized, \* the <<chapter, version>> whose summary is not empty
  recap,      \* recap_rollups: the text and the stale flag of each level
  doc,        \* retrieval_documents: text, and whether its chunks are served
  jobs,       \* the retrieval_jobs rows, in the order of their creation
  proposal,   \* revision_proposals
  landed,     \* chapter.written_back events of the agent run
  writer,     \* the writers in progress
  worker,     \* the jobs in progress
  embedding,  \* whether an embedding engine is configured
  model,      \* whether a writing model is configured
  clients,    \* the kinds of writers this behaviour has
  left,       \* what is left of each bound
  blind       \* history: writes that relied on something read before it changed

book == <<active, written, proposal, landed>>
memory == <<summarized, recap, doc>>
config == <<embedding, model, clients>>
vars == <<book, memory, jobs, writer, worker, config, left, blind>>

-----------------------------------------------------------------------------
(* Rows *)

NoText == {}
Current == {<<c, active[c]>> : c \in {d \in Chapters : active[d] # None}}
Spend(what) == left[what] > 0 /\ left' = [left EXCEPT ![what] = @ - 1]

Job(kind, of, ver) ==
  [kind |-> kind, of |-> of, ver |-> ver, status |-> "pending", attempt |-> 0]
Has(js, kind, of, statuses) ==
  \E j \in DOMAIN js : js[j].kind = kind /\ js[j].of = of /\ js[j].status \in statuses
\* Mutant: a running row is reused like a pending one.
EnqueueOnce(js, kind, of) ==
  IF Has(js, kind, of, {"pending", "running"}) THEN js ELSE Append(js, Job(kind, of, None))

\* enqueue_job: a pending row of the same source is reused, a running one is not.
Enqueue(js, kind, of) ==
  IF Has(js, kind, of, {"pending"}) THEN js ELSE Append(js, Job(kind, of, None))

\* claim_job: one conditional UPDATE.
Claimed(j) == [jobs EXCEPT ![j].status = "running", ![j].attempt = @ + 1]

\* _finish_job and the last statement of a job: the row is found by its id, whatever
\* its status became; a deleted row is left alone.
Finished(js, j, status) ==
  IF js[j].status = "deleted" THEN js ELSE [js EXCEPT ![j].status = status]

NoWriter == [pc |-> "idle", kind |-> None, ch |-> None, base |-> None, ver |-> None, prop |-> None]
NoProposal == [status |-> None, ch |-> None, base |-> None]
NoJob == [pc |-> "idle", job |-> 0, attempt |-> 0, text |-> NoText, old |-> NoText,
          late |-> FALSE]

\* Slots and requests are interchangeable: the first free one is taken.
Free(slot, w) == slot[w].pc = "idle" /\ \A u \in DOMAIN slot : slot[u].pc = "idle" => w <= u

Init ==
  /\ active = [c \in Chapters |-> None] /\ written = [c \in Chapters |-> {}]
  /\ summarized = {}
  /\ recap = [l \in Levels |-> [text |-> NoText, stale |-> FALSE]]
  /\ doc = [s \in Sources |-> [text |-> NoText, live |-> FALSE]]
  /\ jobs = <<>>
  /\ proposal = [p \in Proposals |-> NoProposal]
  /\ landed = 0
  /\ writer = [w \in Writers |-> NoWriter] /\ worker = [w \in Workers |-> NoJob]
  /\ \E s \in Scenarios :
       embedding = s.embedding /\ model = s.model /\ clients = s.clients /\ left = s.bounds
  /\ blind = {}

-----------------------------------------------------------------------------
(* The chapter's active version *)
\* Mutant: a change of a chapter invalidates the book recap only.
FreshBook == {l \in {"book"} : recap[l].text # NoText /\ ~recap[l].stale}

\* _on_active_version_changed: the recaps that were fresh become stale and their
\* chunks are superseded.
Fresh == {l \in Levels : recap[l].text # NoText /\ ~recap[l].stale}
\* Mutant: the chunks of the recaps that become stale are not superseded.
SetActiveServed(c, v) ==
  /\ Spend("edits")
  /\ written' = [written EXCEPT ![c] = @ \cup {v}]
  /\ active' = [active EXCEPT ![c] = v]
  /\ jobs' = Append(Enqueue(jobs, "index", c), Job("summarize", c, v))
  /\ recap' = [l \in Levels |-> [recap[l] EXCEPT !.stale = @ \/ l \in Fresh]]
  /\ doc' = [s \in Sources |-> [doc[s] EXCEPT !.live = @]]
  /\ UNCHANGED <<summarized, worker, config>>

\* append_version, set_active_version and the jobs they queue, in one commit.  The
\* summary job is added without looking for a pending one.
SetActive(c, v) ==
  /\ Spend("edits")
  /\ written' = [written EXCEPT ![c] = @ \cup {v}]
  /\ active' = [active EXCEPT ![c] = v]
  /\ jobs' = Append(Enqueue(jobs, "index", c), Job("summarize", c, v))
  /\ recap' = [l \in Levels |-> [recap[l] EXCEPT !.stale = @ \/ l \in Fresh]]
  /\ doc' = [s \in Sources |-> [doc[s] EXCEPT !.live = @ /\ s \notin Fresh]]
  /\ UNCHANGED <<summarized, worker, config>>

\* activate_version, back to a version the chapter has, and append_version or
\* create_chapter without a base.
Put(c, v) ==
  /\ "put" \in clients
  /\ SetActive(c, v)
  /\ UNCHANGED <<proposal, landed, writer, blind>>

Begin(w, kind, c, base, v, p) ==
  /\ Free(writer, w)
  /\ writer' = [writer EXCEPT ![w] =
       [pc |-> "loaded", kind |-> kind, ch |-> c, base |-> base, ver |-> v, prop |-> p]]
  /\ UNCHANGED <<book, memory, jobs, worker, config, left, blind>>

\* append_version with a base: it is compared with the active version as read; the
\* write comes later.
EditBegin(w, c, v) == "edit" \in clients /\ Begin(w, "edit", c, active[c], v, None)

EditCommit(w) ==
  LET e == writer[w] IN
  /\ e.pc = "loaded" /\ e.kind = "edit"
  /\ SetActive(e.ch, e.ver)
  /\ writer' = [writer EXCEPT ![w] = NoWriter]
  /\ blind' = IF e.base # active[e.ch] THEN blind \cup {"edit"} ELSE blind
  /\ UNCHANGED <<proposal, landed>>

\* create_proposal: any version of the chapter is the base, the active one or not.
Propose(p, c, v) ==
  /\ "approve" \in clients /\ proposal[p].status = None /\ v \in written[c]
  /\ proposal' = [proposal EXCEPT ![p] = [status |-> "PROPOSED", ch |-> c, base |-> v]]
  /\ UNCHANGED <<active, written, landed, memory, jobs, writer, worker, config, left, blind>>
Locked(p) == RowLocks /\ \E w \in Writers : writer[w].prop = p

\* approve_persisted_proposal: get_owned_for_update, the status, and the base against
\* the current version; then, below, the version and the decision.
ApproveBegin(w, p, v) ==
  /\ proposal[p].status = "PROPOSED" /\ ~Locked(p)
  /\ active[proposal[p].ch] = proposal[p].base
  /\ Begin(w, "approve", proposal[p].ch, proposal[p].base, v, p)

ApproveCommit(w) ==
  LET a == writer[w] IN
  /\ a.pc = "loaded" /\ a.kind = "approve"
  /\ SetActive(a.ch, a.ver)
  /\ proposal' = [proposal EXCEPT ![a.prop].status = "VERSION_CREATED"]
  /\ writer' = [writer EXCEPT ![w] = NoWriter]
  /\ blind' = IF active[a.ch] # a.base THEN blind \cup {"approve"} ELSE blind
  /\ UNCHANGED landed

\* reject_persisted_proposal: get_owned_for_update and the status; then the decision,
\* whatever the status became.
RejectBegin(w, p) ==
  /\ proposal[p].status = "PROPOSED" /\ ~Locked(p)
  /\ Begin(w, "reject", proposal[p].ch, proposal[p].base, proposal[p].base, p)

RejectCommit(w) ==
  LET r == writer[w] IN
  /\ r.pc = "loaded" /\ r.kind = "reject"
  /\ proposal' = [proposal EXCEPT ![r.prop].status = "REJECTED"]
  /\ writer' = [writer EXCEPT ![w] = NoWriter]
  /\ UNCHANGED <<active, written, landed, memory, jobs, worker, config, left, blind>>

\* writeback_chapter_for_run, called by the run's executor and replayed by the
\* sweeper for a completed run without a chapter.written_back event.
WritebackBegin(w) ==
  /\ "writeback" \in clients /\ landed = 0
  /\ Begin(w, "writeback", RunChapter, None, RunVersion, None)

WritebackCommit(w) ==
  LET b == writer[w] IN
  /\ b.pc = "loaded" /\ b.kind = "writeback"
  /\ SetActive(b.ch, b.ver)
  /\ landed' = landed + 1
  /\ writer' = [writer EXCEPT ![w] = NoWriter]
  /\ blind' = IF landed > 0 THEN blind \cup {"writeback"} ELSE blind
  /\ UNCHANGED proposal

\* A writer whose transaction is rolled back leaves nothing.
Abort(w) ==
  /\ writer[w].pc = "loaded" /\ Spend("faults")
  /\ writer' = [writer EXCEPT ![w] = NoWriter]
  /\ UNCHANGED <<book, memory, jobs, worker, config, blind>>

-----------------------------------------------------------------------------
(* The jobs *)

Release(w) == worker' = [worker EXCEPT ![w] = NoJob]
Settle(w, status) == jobs' = Finished(jobs, worker[w].job, status) /\ Release(w)

\* A delivery to worker w of the job j, whose row is pending.  The claims of the
\* indexing and rollup workers are atomic; the summarizer's reads the row first, so a
\* second delivery of a running row starts a second execution.  The claim's commit and
\* the reads that follow it are one step: nothing can happen between them that could
\* not happen just before.
Delivered(w, j, kinds) ==
  /\ Free(worker, w) /\ jobs[j].kind \in kinds
  /\ \/ jobs[j].status = "pending" /\ UNCHANGED left
     \/ jobs[j].status = "running" /\ jobs[j].kind = "summarize" /\ Spend("faults")
  /\ UNCHANGED <<book, memory, writer, config>>

\* What the claim leads to: the job ends at once, or the worker has what it read.
EndAtOnce(j, status) == jobs' = Finished(Claimed(j), j, status) /\ UNCHANGED worker
Proceed(w, j, text, old) ==
  /\ jobs' = Claimed(j)
  /\ worker' = [worker EXCEPT ![w] = [pc |-> "loaded", job |-> j,
       attempt |-> jobs[j].attempt + 1,  \* history: which claim of the row it is
       text |-> text, old |-> old, late |-> FALSE]]

Holds(w, kinds) ==
  /\ worker[w].pc = "loaded" /\ jobs[worker[w].job].kind \in kinds
  /\ jobs[worker[w].job].status # "deleted"

\* The row was deleted (an index rebuild) while the worker had it.
Skip(w) ==
  /\ worker[w].pc # "idle" /\ jobs[worker[w].job].status = "deleted"
  /\ Release(w)
  /\ UNCHANGED <<book, memory, jobs, writer, config, left, blind>>
\* The status of a row whose job raised: pending until its attempts are spent.
Retried(attempt) == IF attempt >= MaxAttempts THEN "failed" ELSE "pending"

\* A provider or an embedder raises.
Raise(w) ==
  /\ worker[w].pc = "loaded" /\ Spend("faults")
  /\ Settle(w, Retried(jobs[worker[w].job].attempt))
  /\ UNCHANGED <<book, memory, writer, config, blind>>

\* A worker is killed: its row stays running.
Kill(w) ==
  /\ worker[w].pc # "idle" /\ Spend("faults")
  /\ Release(w)
  /\ UNCHANGED <<book, memory, jobs, writer, config, blind>>
\* Mutant: the sweeper re-arms indexing jobs only.
RearmIndexing(j) ==
  /\ jobs[j].status = "running" /\ jobs[j].kind = "index"
  /\ IF \E w \in Workers : worker[w].job = j THEN Spend("faults") ELSE UNCHANGED left
  /\ jobs' = [jobs EXCEPT ![j].status = "pending"]
  /\ UNCHANGED <<book, memory, writer, worker, config, blind>>

\* rearm_stale_running_jobs: ten minutes after its claim a row is taken for abandoned,
\* whether its worker died or is only slow.
Rearm(j) ==
  /\ jobs[j].status = "running"
  /\ IF \E w \in Workers : worker[w].job = j THEN Spend("faults") ELSE UNCHANGED left
  /\ jobs' = [jobs EXCEPT ![j].status = "pending"]
  /\ UNCHANGED <<book, memory, writer, worker, config, blind>>

\* What an indexing job would index: _load_index_source.
Source(of) ==
  IF of \in Chapters THEN {cv \in Current : cv[1] = of} ELSE recap[of].text

\* _resolve_embedding_engine finds an engine and its credential; _build_provider a
\* credential for the write role's model.
EngineReady == embedding
ModelReady == model

\* history: an indexing job of the source is done while these are under way.
Passed(of) == [u \in Workers |->
  IF /\ worker[u].pc # "idle" /\ jobs[worker[u].job].of = of
     /\ jobs[worker[u].job].kind \in {"index", "index_recap"}
  THEN [worker[u] EXCEPT !.late = TRUE] ELSE worker[u]]

\* execute_index_job up to the embedding.
IndexStart(w, j) ==
  LET of == jobs[j].of IN
  /\ Delivered(w, j, {"index", "index_recap"})
  /\ IF ~EngineReady THEN EndAtOnce(j, "failed")
     ELSE IF (of \in Levels /\ recap[of].stale) \/ doc[of].text = Source(of)
     THEN jobs' = Finished(Claimed(j), j, "done") /\ worker' = Passed(of)
     ELSE Proceed(w, j, Source(of), NoText)
  /\ blind' = IF /\ EngineReady /\ of \in Levels /\ ~recap[of].stale
                 /\ doc[of].text = Source(of) /\ ~doc[of].live
              THEN blind \cup {"superseded"} ELSE blind

\* history: the row was taken from the worker, or another job of the same source came
\* and went meanwhile.
Overtaken(w) ==
  LET j == worker[w].job IN
  jobs[j].status # "running" \/ jobs[j].attempt # worker[w].attempt \/ worker[w].late

\* Its last transaction, after the embedding: upsert_document and the new chunks.
\* Nothing is read again but the job row.
IndexWrite(w) ==
  LET of == jobs[worker[w].job].of IN
  /\ Holds(w, {"index", "index_recap"})
  /\ doc' = [doc EXCEPT ![of] = [text |-> worker[w].text, live |-> TRUE]]
  /\ jobs' = Finished(jobs, worker[w].job, "done")
  /\ worker' = [Passed(of) EXCEPT ![w] = NoJob]
  /\ blind' = IF \/ worker[w].text # Source(of) /\ Overtaken(w)
                 \/ of \in Levels /\ recap[of].stale
              THEN blind \cup {"index"} ELSE blind
  /\ UNCHANGED <<book, summarized, recap, writer, config, left>>

\* execute_summarize_job: a version that has a summary is left as it is.
SummarizeStart(w, j) ==
  /\ Delivered(w, j, {"summarize"})
  /\ IF <<jobs[j].of, jobs[j].ver>> \in summarized THEN EndAtOnce(j, "done")
     ELSE IF ~ModelReady THEN EndAtOnce(j, "failed")
     ELSE Proceed(w, j, NoText, NoText)
  /\ UNCHANGED blind

\* parse_summary_payload takes what the model wrote: the summary may come out empty.
Summaries(cv) == {summarized \cup {cv}, summarized \ {cv}}

\* The summary and what was extracted with it (characters, conflicts, the state ledger
\* and the memories, none of which is read back here) are one commit.
SummarizeWrite(w) ==
  LET j == worker[w].job IN
  /\ Holds(w, {"summarize"})
  /\ summarized' \in Summaries(<<jobs[j].of, jobs[j].ver>>)
  /\ jobs' = Finished(jobs, j, "done")
  /\ worker' = [worker EXCEPT ![w].pc = "summarized"]
  /\ UNCHANGED <<book, recap, doc, writer, config, left, blind>>

\* _enqueue_rollup_if_volume_end: a transaction of its own, after the summary's.
SummarizeRollup(w) ==
  LET of == jobs[worker[w].job].of IN
  /\ worker[w].pc = "summarized"
  /\ jobs' = IF of = Closing THEN Enqueue(jobs, "rollup", of) ELSE jobs
  /\ Release(w)
  /\ UNCHANGED <<book, memory, writer, config, left, blind>>

\* execute_rollup_job: the summaries of the active versions and the old book recap.
\* With no summary yet it raises; with some it goes on with those.
RollupStart(w, j) ==
  LET material == Current \cap summarized IN
  /\ Delivered(w, j, {"rollup"})
  /\ IF material = {} THEN EndAtOnce(j, Retried(jobs[j].attempt + 1))
     ELSE IF ~ModelReady THEN EndAtOnce(j, "failed")
     ELSE Proceed(w, j, material, recap["book"].text)
  /\ UNCHANGED blind

\* _upsert_rollup of the volume and of the book, which clears both stale flags, and
\* the jobs that index them.
RollupWrite(w) ==
  LET j == worker[w].job
      text == worker[w].text
      indexing == Enqueue(Enqueue(jobs, "index_recap", "volume"), "index_recap", "book")
  IN
  /\ Holds(w, {"rollup"})
  /\ recap' = [l \in Levels |->
       [text |-> IF l = "volume" THEN text ELSE text \cup worker[w].old, stale |-> FALSE]]
  /\ jobs' = Finished(indexing, j, "done")
  /\ Release(w)
  /\ blind' = IF text # Current THEN blind \cup {"rollup"} ELSE blind
  /\ UNCHANGED <<book, summarized, doc, writer, config, left>>

-----------------------------------------------------------------------------
(* The scene pack and the embedding settings *)

\* enqueue_stale_recap_recompute, before a later chapter is written.
Recompute ==
  /\ recap["volume"].stale
  /\ ~Has(jobs, "rollup", Closing, {"pending", "running"})
  /\ Spend("recomputes")
  /\ jobs' = Append(jobs, Job("rollup", Closing, None))
  /\ UNCHANGED <<book, memory, writer, worker, config, blind>>

\* put_embedding_settings without force: every failed index_chapter row is re-armed.
SaveSettings ==
  /\ Spend("saves")
  /\ embedding' = TRUE
  /\ jobs' = [j \in DOMAIN jobs |->
       IF jobs[j].status = "failed" /\ jobs[j].kind = "index"
       THEN [jobs[j] EXCEPT !.status = "pending"] ELSE jobs[j]]
  /\ UNCHANGED <<book, memory, writer, worker, model, clients, blind>>

\* With force: the unfinished jobs of every type and all documents are deleted, and
\* each chapter that has an active version gets an indexing job.
Rebuild ==
  LET unfinished == {j \in DOMAIN jobs : jobs[j].status \in {"pending", "running"}}
      kept == [j \in DOMAIN jobs |->
        IF j \in unfinished THEN [jobs[j] EXCEPT !.status = "deleted"] ELSE jobs[j]]
      indexable == {c \in Chapters : active[c] # None}
  IN
  /\ Spend("saves")
  /\ embedding' = TRUE
  /\ doc' = [s \in Sources |-> [text |-> NoText, live |-> FALSE]]
  /\ jobs' = kept \o SetToSeq({Job("index", c, None) : c \in indexable})
  /\ blind' = IF \/ \E j \in unfinished : jobs[j].kind # "index"
                 \/ \E l \in Levels : doc[l].text # NoText
              THEN blind \cup {"rebuild"} ELSE blind
  /\ UNCHANGED <<book, summarized, recap, writer, worker, model, clients>>

-----------------------------------------------------------------------------
WriterStep(w) == EditCommit(w) \/ ApproveCommit(w) \/ WritebackCommit(w)
Write ==
  \/ \E w \in Writers, c \in Chapters, v \in Versions : EditBegin(w, c, v)
  \/ \E c \in Chapters, v \in Versions : Put(c, v)
  \/ \E p \in Proposals, c \in Chapters, v \in Versions : Propose(p, c, v)
  \/ \E w \in Writers, p \in Proposals, v \in Versions : ApproveBegin(w, p, v)
  \/ \E w \in Writers, p \in Proposals : RejectBegin(w, p)
  \/ \E w \in Writers : WritebackBegin(w) \/ Abort(w) \/ WriterStep(w) \/ RejectCommit(w)

Start(w, j) == IndexStart(w, j) \/ SummarizeStart(w, j) \/ RollupStart(w, j)
JobStep(w) ==
  IndexWrite(w) \/ SummarizeWrite(w) \/ SummarizeRollup(w) \/ RollupWrite(w) \/ Skip(w)
Deliver(w) == \E j \in DOMAIN jobs : jobs[j].status = "pending" /\ Start(w, j)
Sweep == \E j \in DOMAIN jobs : Rearm(j)

Next ==
  \/ Write
  \/ \E w \in Workers : JobStep(w) \/ Raise(w) \/ Kill(w)
  \/ \E w \in Workers, j \in DOMAIN jobs : Start(w, j)
  \/ Sweep
  \/ Recompute \/ SaveSettings \/ Rebuild

\* Fairness: a worker that has a job goes on with it, a free worker takes a pending
\* row sooner or later (the sweeper re-dispatches it), and the sweeper re-arms a row
\* whose worker died.  Nobody has to write, to save settings or to build a scene pack.
Abandoned(j) == jobs[j].status = "running" /\ \A w \in Workers : worker[w].job # j
Fairness ==
  /\ \A w \in Workers : WF_vars(JobStep(w)) /\ WF_vars(Deliver(w))
  /\ WF_vars(\E j \in DOMAIN jobs : Abandoned(j) /\ Rearm(j))

Spec == Init /\ [][Next]_vars /\ Fairness

-----------------------------------------------------------------------------
(* Properties *)

VersionOrNone == Versions \cup {None}
Texts == SUBSET (Chapters \X Versions)

\* The rows of one kind of job; an indexing job is of a chapter or of a recap, and only
\* a summary is of a version.
JobsOf(kind, of, ver) ==
  [kind : {kind}, of : of, ver : ver, attempt : Nat,
   status : {"pending", "running", "done", "failed", "deleted"}]
JobRow == JobsOf("index", Chapters, {None}) \cup JobsOf("summarize", Chapters, Versions)
     \cup JobsOf("rollup", Chapters, {None}) \cup JobsOf("index_recap", Levels, {None})

WriterRow == {NoWriter} \cup
  [pc : {"loaded"}, kind : {"edit", "approve", "reject", "writeback"}, ch : Chapters,
   base : VersionOrNone, ver : Versions, prop : Proposals \cup {None}]
WorkerRow == {NoJob} \cup
  [pc : {"loaded", "summarized"}, job : Nat, attempt : Nat, text : Texts, old : Texts,
   late : BOOLEAN]
ProposalRow == {NoProposal} \cup
  [status : {"PROPOSED", "VERSION_CREATED", "REJECTED"}, ch : Chapters, base : Versions]

\* Every variable has its type; a worker's job and the proposal a request decides exist.
TypeOK ==
  /\ active \in [Chapters -> VersionOrNone] /\ written \in [Chapters -> SUBSET Versions]
  /\ summarized \in Texts
  /\ recap \in [Levels -> [text : Texts, stale : BOOLEAN]]
  /\ doc \in [Sources -> [text : Texts, live : BOOLEAN]]
  /\ jobs \in Seq(JobRow)
  /\ proposal \in [Proposals -> ProposalRow]
  /\ landed \in Nat
  /\ writer \in [Writers -> WriterRow]
  /\ worker \in [Workers -> WorkerRow]
  /\ \A w \in Workers : worker[w].pc # "idle" => worker[w].job \in DOMAIN jobs
  /\ \A w \in Writers : writer[w].kind \in {"approve", "reject"} =>
       writer[w].prop \in Proposals /\ proposal[writer[w].prop].status # None
  /\ embedding \in BOOLEAN /\ model \in BOOLEAN /\ left \in Bounds

\* A chapter none of whose indexing jobs is open or failed is indexed at its active
\* version, unless an indexing job wrote what it had read before another one, which
\* read the chapter later, came to its end.
IndexCatchesUp ==
  "index" \notin blind =>
    \A c \in Chapters :
      active[c] # None /\ ~Has(jobs, "index", c, {"pending", "running", "failed"})
        => doc[c] = [text |-> {<<c, active[c]>>}, live |-> TRUE]

\* A recap that is not stale was made from the active version of every chapter, unless
\* its rollup read them before a change or before they were all summarized.
FreshRecapIsCurrent ==
  "rollup" \notin blind =>
    \A l \in Levels : recap[l].text # NoText /\ ~recap[l].stale => Current \subseteq recap[l].text

\* The chunks of a stale recap are not served as evidence, unless its indexing was
\* under way when it became stale.
StaleRecapIsNotServed ==
  "index" \notin blind => \A l \in Levels : recap[l].stale => ~doc[l].live

\* A recap that is not stale and none of whose indexing jobs is open or failed is served
\* with the text it has, however its rollups, their jobs and the changes of its chapters
\* fall together.  Excused are an indexing job that wrote after another one of its source
\* or after the recap became stale, a rebuild, which drops the recaps and indexes chapters
\* only, and a recap made again with the text whose chunks were superseded: the indexing
\* job finds that text and ends.
FreshRecapIsServed ==
  blind \cap {"index", "rebuild", "superseded"} = {} =>
    \A l \in Levels :
      /\ recap[l].text # NoText /\ ~recap[l].stale
      /\ ~Has(jobs, "index_recap", l, {"pending", "running", "failed"})
      => doc[l] = [text |-> recap[l].text, live |-> TRUE]

\* A proposal is decided once: an approval and a rejection never both succeed.
DecidedOnce ==
  [][\A p \in Proposals : proposal[p].status \in {"VERSION_CREATED", "REJECTED"}
       => proposal'[p] = proposal[p]]_vars

\* The chapter of a run is written back once: writeback_for_run re-checks the
\* chapter.written_back event in its own transaction.
WrittenBackOnce == landed <= 1

\* Every job ends: done, failed, or deleted by a rebuild.
JobsSettle ==
  []<>(\A j \in DOMAIN jobs : jobs[j].status \in {"done", "failed", "deleted"})
=============================================================================
