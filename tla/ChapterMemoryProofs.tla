------------------------ MODULE ChapterMemoryProofs ------------------------
(***************************************************************************)
(* Proofs about ChapterMemory, for any chapters, versions, proposals,      *)
(* writers and workers, any bounds and any of its scenarios.               *)
(***************************************************************************)
EXTENDS ChapterMemory, FiniteSetTheorems, SequenceTheorems, TLAPS

(***************************************************************************)
(* Job rows.                                                               *)
(***************************************************************************)

JobStatus == {"pending", "running", "done", "failed", "deleted"}

\* Rows are never removed and keep what they are about; claims are only added.
Grown(js, ks) ==
  /\ DOMAIN js \subseteq DOMAIN ks
  /\ \A j \in DOMAIN js :
       /\ ks[j].kind = js[j].kind /\ ks[j].of = js[j].of /\ ks[j].ver = js[j].ver
       /\ js[j].attempt <= ks[j].attempt

LEMMA RowType ==
  ASSUME NEW r \in JobRow
  PROVE  /\ r.kind \in {"index", "summarize", "rollup", "index_recap"}
         /\ r.attempt \in Nat /\ r.status \in JobStatus
         /\ r.kind \in {"index", "summarize", "rollup"} => r.of \in Chapters
         /\ r.kind = "index_recap" => r.of \in Levels
         /\ r.kind = "summarize" => r.ver \in Versions
         /\ r.of \in Sources
BY DEF JobRow, JobsOf, JobStatus, Sources

LEMMA StatusChange ==
  ASSUME NEW r \in JobRow, NEW s \in JobStatus
  PROVE  /\ [r EXCEPT !.status = s] \in JobRow
         /\ [r EXCEPT !.status = s].status = s
         /\ [r EXCEPT !.status = s].kind = r.kind
         /\ [r EXCEPT !.status = s].of = r.of
         /\ [r EXCEPT !.status = s].ver = r.ver
         /\ [r EXCEPT !.status = s].attempt = r.attempt
BY DEF JobRow, JobsOf, JobStatus

LEMMA AttemptChange ==
  ASSUME NEW r \in JobRow, NEW n \in Nat
  PROVE  /\ [r EXCEPT !.attempt = n] \in JobRow
         /\ [r EXCEPT !.attempt = n].status = r.status
         /\ [r EXCEPT !.attempt = n].kind = r.kind
         /\ [r EXCEPT !.attempt = n].of = r.of
         /\ [r EXCEPT !.attempt = n].ver = r.ver
         /\ [r EXCEPT !.attempt = n].attempt = n
BY DEF JobRow, JobsOf

\* A table given row by row.
LEMMA TableOf ==
  ASSUME NEW S, NEW t \in Seq(S), NEW f, f = [i \in DOMAIN t |-> f[i]],
         \A i \in DOMAIN t : f[i] \in S
  PROVE  f \in Seq(S) /\ DOMAIN f = DOMAIN t
BY SeqDef

LEMMA NewRows ==
  ASSUME SourceAssumption
  PROVE  /\ \A c \in Chapters : Job("index", c, None) \in JobRow
         /\ \A c \in Chapters : Job("rollup", c, None) \in JobRow
         /\ \A c \in Chapters, v \in Versions : Job("summarize", c, v) \in JobRow
         /\ \A l \in Levels : Job("index_recap", l, None) \in JobRow
BY DEF Job, JobRow, JobsOf

\* A row added to the table.
LEMMA AppendGrows ==
  ASSUME NEW js \in Seq(JobRow), NEW r \in JobRow
  PROVE  /\ Append(js, r) \in Seq(JobRow) /\ Grown(js, Append(js, r))
         /\ \A j \in DOMAIN js : Append(js, r)[j] = js[j]
         /\ DOMAIN Append(js, r) = DOMAIN js \cup {Len(js) + 1}
         /\ Append(js, r)[Len(js) + 1] = r /\ Len(js) + 1 \notin DOMAIN js
<1>1. /\ Append(js, r) \in Seq(JobRow) /\ Len(js) \in Nat
      /\ DOMAIN js = 1..Len(js) /\ DOMAIN Append(js, r) = 1..(Len(js) + 1)
      /\ \A j \in DOMAIN js : Append(js, r)[j] = js[j]
      /\ Append(js, r)[Len(js) + 1] = r
  BY AppendProperties, LenProperties
<1>2. \A j \in DOMAIN js : js[j].attempt \in Nat
  BY RowType
<1> QED BY <1>1, <1>2 DEF Grown

\* enqueue_job leaves the rows there are alone and a pending row of the source.
LEMMA EnqueueGrows ==
  ASSUME NEW js \in Seq(JobRow), NEW kind, NEW of, Job(kind, of, None) \in JobRow
  PROVE  /\ Enqueue(js, kind, of) \in Seq(JobRow) /\ Grown(js, Enqueue(js, kind, of))
         /\ \A j \in DOMAIN js : Enqueue(js, kind, of)[j] = js[j]
         /\ Has(Enqueue(js, kind, of), kind, of, {"pending"})
         /\ \A j \in DOMAIN Enqueue(js, kind, of) \ DOMAIN js :
              Enqueue(js, kind, of)[j] = Job(kind, of, None)
<1>1. CASE Has(js, kind, of, {"pending"})
  <2>1. \A j \in DOMAIN js : js[j].attempt \in Nat
    BY RowType
  <2> QED BY <1>1, <2>1 DEF Enqueue, Grown
<1>2. CASE ~Has(js, kind, of, {"pending"})
  <2>1. Enqueue(js, kind, of) = Append(js, Job(kind, of, None))
    BY <1>2 DEF Enqueue
  <2> QED BY <2>1, AppendGrows DEF Has, Job
<1> QED BY <1>1, <1>2

\* A row that ends, is re-armed or is deleted.
LEMMA StatusGrows ==
  ASSUME NEW js \in Seq(JobRow), NEW j \in DOMAIN js, NEW s \in JobStatus
  PROVE  /\ [js EXCEPT ![j].status = s] \in Seq(JobRow)
         /\ Grown(js, [js EXCEPT ![j].status = s])
         /\ DOMAIN [js EXCEPT ![j].status = s] = DOMAIN js
         /\ \A i \in DOMAIN js \ {j} : [js EXCEPT ![j].status = s][i] = js[i]
         /\ [js EXCEPT ![j].status = s][j].status = s
         /\ [js EXCEPT ![j].status = s][j].attempt = js[j].attempt
<1> DEFINE ks == [js EXCEPT ![j].status = s]
<1>1. js[j] \in JobRow /\ ks[j] = [js[j] EXCEPT !.status = s] /\ DOMAIN ks = DOMAIN js
      /\ ks = [i \in DOMAIN js |-> ks[i]] /\ \A i \in DOMAIN js \ {j} : ks[i] = js[i]
  OBVIOUS
<1>2. /\ ks[j] \in JobRow /\ ks[j].status = s /\ ks[j].kind = js[j].kind
      /\ ks[j].of = js[j].of /\ ks[j].ver = js[j].ver /\ ks[j].attempt = js[j].attempt
  BY <1>1, StatusChange
<1>3. \A i \in DOMAIN js : js[i] \in JobRow /\ js[i].attempt \in Nat
  BY RowType
<1> HIDE DEF ks
<1>4. ks \in Seq(JobRow)
  BY <1>1, <1>2, <1>3, TableOf
<1>5. Grown(js, ks)
  <2>1. ASSUME NEW i \in DOMAIN js
        PROVE  /\ ks[i].kind = js[i].kind /\ ks[i].of = js[i].of /\ ks[i].ver = js[i].ver
               /\ js[i].attempt <= ks[i].attempt
    <3>1. CASE i = j
      BY <1>2, <1>3, <3>1
    <3>2. CASE i # j
      BY <1>1, <1>3, <3>2
    <3> QED BY <3>1, <3>2
  <2> QED BY <1>1, <2>1 DEF Grown
<1> QED BY <1>1, <1>2, <1>4, <1>5 DEF ks

LEMMA FinishedGrows ==
  ASSUME NEW js \in Seq(JobRow), NEW j \in DOMAIN js, NEW s \in JobStatus
  PROVE  /\ Finished(js, j, s) \in Seq(JobRow) /\ Grown(js, Finished(js, j, s))
         /\ DOMAIN Finished(js, j, s) = DOMAIN js
         /\ \A i \in DOMAIN js \ {j} : Finished(js, j, s)[i] = js[i]
         /\ Finished(js, j, s)[j].status = IF js[j].status = "deleted" THEN "deleted" ELSE s
<1>1. CASE js[j].status = "deleted"
  <2>1. \A i \in DOMAIN js : js[i].attempt \in Nat
    BY RowType
  <2> QED BY <1>1, <2>1 DEF Finished, Grown
<1>2. CASE js[j].status # "deleted"
  BY <1>2, StatusGrows DEF Finished
<1> QED BY <1>1, <1>2

\* A claim is counted on its row.
LEMMA ClaimedGrows ==
  ASSUME jobs \in Seq(JobRow), NEW j \in DOMAIN jobs
  PROVE  /\ Claimed(j) \in Seq(JobRow) /\ Grown(jobs, Claimed(j))
         /\ DOMAIN Claimed(j) = DOMAIN jobs
         /\ \A i \in DOMAIN jobs \ {j} : Claimed(j)[i] = jobs[i]
         /\ Claimed(j)[j].status = "running"
         /\ Claimed(j)[j].attempt = jobs[j].attempt + 1
<1> DEFINE r == [jobs[j] EXCEPT !.status = "running"]
           ks == Claimed(j)
<1>1. /\ jobs[j] \in JobRow /\ ks[j] = [r EXCEPT !.attempt = r.attempt + 1]
      /\ DOMAIN ks = DOMAIN jobs /\ ks = [i \in DOMAIN jobs |-> ks[i]]
      /\ \A i \in DOMAIN jobs \ {j} : ks[i] = jobs[i]
  <2> DEFINE ls == [jobs EXCEPT ![j].status = "running"]
  <2>1. ls[j] = r /\ DOMAIN ls = DOMAIN jobs /\ \A i \in DOMAIN jobs \ {j} : ls[i] = jobs[i]
    OBVIOUS
  <2>2. ks = [ls EXCEPT ![j] = [ls[j] EXCEPT !.attempt = ls[j].attempt + 1]]
    BY DEF Claimed
  <2> HIDE DEF ls, ks, r
  <2>3. [ls[j] EXCEPT !.attempt = ls[j].attempt + 1] = [r EXCEPT !.attempt = r.attempt + 1]
    BY <2>1, Zenon
  <2> DEFINE q == [r EXCEPT !.attempt = r.attempt + 1]
  <2>4. ks = [ls EXCEPT ![j] = q]
    BY <2>2, <2>3
  <2>5. q = [r EXCEPT !.attempt = r.attempt + 1]
    OBVIOUS
  <2>6. jobs[j] \in JobRow
    OBVIOUS
  <2> HIDE DEF q
  <2>7. /\ ks[j] = q /\ DOMAIN ks = DOMAIN jobs /\ ks = [i \in DOMAIN jobs |-> ks[i]]
        /\ \A i \in DOMAIN jobs \ {j} : ks[i] = jobs[i]
    BY <2>1, <2>4
  <2> QED BY <2>5, <2>6, <2>7
<1>2. /\ r \in JobRow /\ r.status = "running" /\ r.kind = jobs[j].kind
      /\ r.of = jobs[j].of /\ r.ver = jobs[j].ver /\ r.attempt = jobs[j].attempt
  <2>1. "running" \in JobStatus
    BY DEF JobStatus
  <2> QED BY <1>1, <2>1, StatusChange
<1>3. r.attempt + 1 \in Nat
  BY <1>2, RowType
<1> HIDE DEF r
<1>4. /\ ks[j] \in JobRow /\ ks[j].status = "running" /\ ks[j].kind = jobs[j].kind
      /\ ks[j].of = jobs[j].of /\ ks[j].ver = jobs[j].ver
      /\ ks[j].attempt = jobs[j].attempt + 1
  BY <1>1, <1>2, <1>3, AttemptChange
<1>5. \A i \in DOMAIN jobs : jobs[i] \in JobRow /\ jobs[i].attempt \in Nat
  BY RowType
<1> HIDE DEF ks
<1>6. ks \in Seq(JobRow)
  BY <1>1, <1>4, <1>5, TableOf
<1>7. Grown(jobs, ks)
  <2>1. ASSUME NEW i \in DOMAIN jobs
        PROVE  /\ ks[i].kind = jobs[i].kind /\ ks[i].of = jobs[i].of
               /\ ks[i].ver = jobs[i].ver /\ jobs[i].attempt <= ks[i].attempt
    <3>1. CASE i = j
      BY <1>4, <1>5, <3>1
    <3>2. CASE i # j
      BY <1>1, <1>5, <3>2
    <3> QED BY <3>1, <3>2
  <2> QED BY <1>1, <2>1 DEF Grown
<1> QED BY <1>1, <1>4, <1>6, <1>7 DEF ks

LEMMA GrownTwice ==
  ASSUME NEW js \in Seq(JobRow), NEW ks \in Seq(JobRow), NEW ls \in Seq(JobRow),
         Grown(js, ks), Grown(ks, ls)
  PROVE  Grown(js, ls)
<1>1. /\ \A j \in DOMAIN js : js[j].attempt \in Nat
      /\ \A j \in DOMAIN ks : ks[j].attempt \in Nat
      /\ \A j \in DOMAIN ls : ls[j].attempt \in Nat
  BY RowType
<1>2. ASSUME NEW j \in DOMAIN js
      PROVE  /\ j \in DOMAIN ls /\ ls[j].kind = js[j].kind /\ ls[j].of = js[j].of
             /\ ls[j].ver = js[j].ver /\ js[j].attempt <= ls[j].attempt
  <2>1. /\ j \in DOMAIN ks /\ ks[j].kind = js[j].kind /\ ks[j].of = js[j].of
        /\ ks[j].ver = js[j].ver /\ js[j].attempt <= ks[j].attempt
    BY DEF Grown
  <2>2. /\ j \in DOMAIN ls /\ ls[j].kind = ks[j].kind /\ ls[j].of = ks[j].of
        /\ ls[j].ver = ks[j].ver /\ ks[j].attempt <= ls[j].attempt
    BY <2>1 DEF Grown
  <2>3. js[j].attempt \in Nat /\ ks[j].attempt \in Nat /\ ls[j].attempt \in Nat
    BY <1>1, <2>1, <2>2
  <2> QED BY <2>1, <2>2, <2>3
<1> QED BY <1>2 DEF Grown

LEMMA GrownNot == ASSUME NEW js \in Seq(JobRow) PROVE Grown(js, js)
<1>1. \A j \in DOMAIN js : js[j].attempt \in Nat
  BY RowType
<1> QED BY <1>1 DEF Grown

(***************************************************************************)
(* The rows a rebuild adds: one for each chapter that has an active        *)
(* version.                                                                *)
(***************************************************************************)

Indexable == {c \in Chapters : active[c] # None}
IndexingRows == {Job("index", c, None) : c \in Indexable}

LEMMA FinitelyMany == ASSUME SourceAssumption PROVE IsFiniteSet(IndexingRows)
<1> DEFINE f == [c \in Indexable |-> Job("index", c, None)]
<1>1. IsFiniteSet(Indexable)
  BY FS_Subset DEF SourceAssumption, Indexable
<1>2. f \in [Indexable -> IndexingRows]
  BY DEF IndexingRows
<1>3. \A b, c \in Indexable : f[b] = f[c] => b = c
  <2>1. \A c : Job("index", c, None).of = c
    BY DEF Job
  <2> QED BY <2>1
<1>4. \A r \in IndexingRows : \E c \in Indexable : f[c] = r
  BY DEF IndexingRows
<1>5. f \in Bijection(Indexable, IndexingRows)
  BY <1>2, <1>3, <1>4 DEF Bijection, Injection, Surjection, IsInjective
<1> QED BY <1>1, <1>5, FS_Bijection DEF ExistsBijection

\* A finite set is laid out as a sequence of its elements.
LEMMA SetToSeqOnto ==
  ASSUME NEW S, IsFiniteSet(S)
  PROVE  /\ SetToSeq(S) \in Seq(S)
         /\ \A x \in S : \E i \in DOMAIN SetToSeq(S) : SetToSeq(S)[i] = x
<1> DEFINE n == Cardinality(S)
           q == SetToSeq(S)
<1>1. n \in Nat /\ ExistsBijection(1..n, S)
  BY FS_CardinalityType
<1>2. PICK g \in Bijection(1..n, S) : TRUE
  BY <1>1 DEF ExistsBijection
<1>3. \E f \in [1..n -> S] : IsInjective(f)
  BY <1>2 DEF Bijection, Injection
<1>4. q \in [1..n -> S] /\ IsInjective(q)
  BY <1>3 DEF SetToSeq
<1>5. q \in Injection(1..n, S)
  BY <1>4 DEF Injection
<1>6. IsFiniteSet(1..n) /\ Cardinality(1..n) = n
  BY <1>1, FS_Interval
<1>7. q \in Surjection(1..n, S)
  BY <1>5, <1>6, FS_Injection
<1>8. q \in Seq(S)
  BY <1>1, <1>4, SeqDef
<1> QED BY <1>4, <1>7, <1>8 DEF Surjection

LEMMA RowsAdded ==
  ASSUME SourceAssumption, NEW js \in Seq(JobRow)
  PROVE  LET ks == js \o SetToSeq(IndexingRows) IN
         /\ ks \in Seq(JobRow) /\ Grown(js, ks)
         /\ \A j \in DOMAIN js : ks[j] = js[j]
         /\ \A c \in Indexable : Has(ks, "index", c, {"pending"})
         /\ \A j \in DOMAIN ks \ DOMAIN js : ks[j] \in IndexingRows
<1> DEFINE q == SetToSeq(IndexingRows)
           ks == js \o q
<1>1. IndexingRows \subseteq JobRow
  BY NewRows DEF IndexingRows, Indexable
<1>2. /\ q \in Seq(IndexingRows)
      /\ \A r \in IndexingRows : \E i \in DOMAIN q : q[i] = r
  BY FinitelyMany, SetToSeqOnto
<1>3. q \in Seq(JobRow) /\ \A i \in DOMAIN q : q[i] \in IndexingRows
  BY <1>1, <1>2
<1> HIDE DEF q
<1>4. /\ ks \in Seq(JobRow) /\ Len(js) \in Nat /\ Len(q) \in Nat
      /\ DOMAIN js = 1..Len(js) /\ DOMAIN q = 1..Len(q)
      /\ DOMAIN ks = 1..(Len(js) + Len(q))
      /\ \A i \in 1..(Len(js) + Len(q)) :
           ks[i] = IF i <= Len(js) THEN js[i] ELSE q[i - Len(js)]
  BY <1>3, ConcatProperties, LenProperties
<1>5. \A j \in DOMAIN js : j \in DOMAIN ks /\ ks[j] = js[j]
  BY <1>4
<1>6. Grown(js, ks)
  <2>1. \A j \in DOMAIN js : js[j].attempt \in Nat
    BY RowType
  <2> QED BY <1>5, <2>1 DEF Grown
<1>7. ASSUME NEW c \in Indexable PROVE Has(ks, "index", c, {"pending"})
  <2>1. PICK i \in DOMAIN q : q[i] = Job("index", c, None)
    BY <1>2 DEF q, IndexingRows
  <2>2. Len(js) + i \in DOMAIN ks /\ ks[Len(js) + i] = Job("index", c, None)
    BY <1>4, <2>1
  <2> QED BY <2>2 DEF Has, Job
<1>8. \A j \in DOMAIN ks \ DOMAIN js : ks[j] \in IndexingRows
  BY <1>3, <1>4
<1> QED BY <1>4, <1>5, <1>6, <1>7, <1>8 DEF q

(***************************************************************************)
(* Types.                                                                  *)
(***************************************************************************)

LEMMA SpendType ==
  ASSUME left \in Bounds, NEW what \in {"edits", "faults", "saves", "recomputes"},
         Spend(what)
  PROVE  left' \in Bounds
<1>1. left[what] \in Nat /\ left[what] - 1 \in Nat
  BY DEF Spend, Bounds
<1> DEFINE n == left[what] - 1
<1>2. left' = [left EXCEPT ![what] = n]
  BY DEF Spend
<1> HIDE DEF n
<1> QED BY <1>1, <1>2 DEF Bounds, n

\* What the jobs read and write, and what the writers do.
MemoryOK ==
  /\ active \in [Chapters -> VersionOrNone] /\ written \in [Chapters -> SUBSET Versions]
  /\ summarized \in Texts
  /\ recap \in [Levels -> [text : Texts, stale : BOOLEAN]]
  /\ doc \in [Sources -> [text : Texts, live : BOOLEAN]]
  /\ embedding \in BOOLEAN /\ model \in BOOLEAN /\ left \in Bounds
JobsOK ==
  /\ jobs \in Seq(JobRow)
  /\ worker \in [Workers -> WorkerRow]
  /\ \A w \in Workers : worker[w].pc # "idle" => worker[w].job \in DOMAIN jobs
WritersOK ==
  /\ proposal \in [Proposals -> ProposalRow] /\ landed \in Nat
  /\ writer \in [Writers -> WriterRow]
  /\ \A w \in Writers : writer[w].kind \in {"approve", "reject"} =>
       writer[w].prop \in Proposals /\ proposal[writer[w].prop].status # None

LEMMA TypeParts == TypeOK <=> MemoryOK /\ JobsOK /\ WritersOK
BY DEF TypeOK, MemoryOK, JobsOK, WritersOK

LEMMA TypePartsNext == MemoryOK' /\ JobsOK' /\ WritersOK' => TypeOK'
BY DEF TypeOK, MemoryOK, JobsOK, WritersOK

LEMMA TextTypes ==
  ASSUME MemoryOK
  PROVE  Current \in Texts /\ \A of \in Sources : Source(of) \in Texts
<1>1. Current \in Texts
  BY DEF MemoryOK, Current, Texts, VersionOrNone
<1>2. ASSUME NEW of \in Sources PROVE Source(of) \in Texts
  <2>1. CASE of \in Chapters
    BY <1>1, <2>1 DEF Source, Texts
  <2>2. CASE of \notin Chapters
    BY <2>2 DEF Source, MemoryOK, Sources
  <2> QED BY <2>1, <2>2
<1> QED BY <1>1, <1>2

LEMMA WorkerType ==
  ASSUME JobsOK, NEW w \in Workers, worker[w].pc # "idle"
  PROVE  /\ worker[w] \in [pc : {"loaded", "summarized"}, job : Nat, attempt : Nat,
                           text : Texts, old : Texts, late : BOOLEAN]
         /\ worker[w].job \in DOMAIN jobs /\ jobs[worker[w].job] \in JobRow
BY DEF JobsOK, WorkerRow, NoJob

LEMMA WriterType ==
  ASSUME WritersOK, NEW w \in Writers, writer[w].pc = "loaded"
  PROVE  writer[w] \in [pc : {"loaded"}, kind : {"edit", "approve", "reject", "writeback"},
            ch : Chapters, base : VersionOrNone, ver : Versions, prop : Proposals \cup {None}]
BY DEF WritersOK, WriterRow, NoWriter

\* The workers when one of them changes and the table of jobs grows.
LEMMA WorkersKept ==
  ASSUME JobsOK, jobs' \in Seq(JobRow), Grown(jobs, jobs'), UNCHANGED worker
  PROVE  JobsOK'
BY DEF JobsOK, Grown

LEMMA WorkerChanged ==
  ASSUME JobsOK, jobs' \in Seq(JobRow), Grown(jobs, jobs'), NEW w \in Workers,
         NEW r \in WorkerRow, r.pc # "idle" => r.job \in DOMAIN jobs,
         worker' = [worker EXCEPT ![w] = r]
  PROVE  JobsOK'
BY DEF JobsOK, Grown

LEMMA WorkerReleased ==
  ASSUME JobsOK, jobs' \in Seq(JobRow), Grown(jobs, jobs'), NEW w \in Workers, Release(w)
  PROVE  JobsOK'
BY WorkerChanged DEF Release, WorkerRow, NoJob

LEMMA PassedType ==
  ASSUME JobsOK, NEW of
  PROVE  /\ Passed(of) \in [Workers -> WorkerRow]
         /\ \A u \in Workers : Passed(of)[u].pc = worker[u].pc /\ Passed(of)[u].job = worker[u].job
                             /\ Passed(of)[u].attempt = worker[u].attempt
                             /\ Passed(of)[u].text = worker[u].text
                             /\ Passed(of)[u].old = worker[u].old
<1>1. ASSUME NEW u \in Workers
      PROVE  /\ Passed(of)[u] \in WorkerRow
             /\ Passed(of)[u].pc = worker[u].pc /\ Passed(of)[u].job = worker[u].job
             /\ Passed(of)[u].attempt = worker[u].attempt
             /\ Passed(of)[u].text = worker[u].text /\ Passed(of)[u].old = worker[u].old
  <2>1. CASE worker[u].pc = "idle"
    BY <2>1 DEF Passed, JobsOK
  <2>2. CASE worker[u].pc # "idle"
    <3>1. worker[u] \in [pc : {"loaded", "summarized"}, job : Nat, attempt : Nat,
                         text : Texts, old : Texts, late : BOOLEAN]
      BY <2>2, WorkerType
    <3>2. Passed(of)[u] \in {worker[u], [worker[u] EXCEPT !.late = TRUE]}
      BY DEF Passed
    <3> QED BY <3>1, <3>2 DEF WorkerRow
  <2> QED BY <2>1, <2>2
<1>2. Passed(of) = [u \in Workers |-> Passed(of)[u]]
  BY DEF Passed
<1> QED BY <1>1, <1>2

LEMMA InitTyped == Init => TypeOK
<1> SUFFICES ASSUME Init PROVE TypeOK
  OBVIOUS
<1>1. MemoryOK
  <2>1. PICK s \in Scenarios : embedding = s.embedding /\ model = s.model /\ left = s.bounds
    BY DEF Init
  <2>2. s \in [embedding : BOOLEAN, model : BOOLEAN, bounds : Bounds,
               clients : SUBSET {"put", "edit", "approve", "writeback"}]
    BY ScenarioAssumption
  <2>3. embedding \in BOOLEAN /\ model \in BOOLEAN /\ left \in Bounds
    BY <2>1, <2>2
  <2> QED BY <2>3 DEF Init, MemoryOK, VersionOrNone, Texts, NoText
<1>2. JobsOK
  BY DEF Init, JobsOK, WorkerRow, NoJob
<1>3. WritersOK
  BY DEF Init, WritersOK, WriterRow, ProposalRow, NoWriter, None
<1> QED BY <1>1, <1>2, <1>3, TypeParts

LEMMA SetActiveTypes ==
  ASSUME TypeOK, NEW c \in Chapters, NEW v \in Versions, SetActive(c, v)
  PROVE  /\ MemoryOK' /\ JobsOK' /\ Grown(jobs, jobs')
         /\ Has(jobs', "index", c, {"pending"})
         /\ \A j \in DOMAIN jobs : jobs'[j] = jobs[j]
<1> DEFINE ks == Enqueue(jobs, "index", c)
<1>1. MemoryOK /\ JobsOK
  BY TypeParts
<1>2. /\ Job("index", c, None) \in JobRow /\ Job("summarize", c, v) \in JobRow
      /\ jobs \in Seq(JobRow)
  BY <1>1, NewRows, SourceAssumption DEF JobsOK
<1>3. /\ ks \in Seq(JobRow) /\ Grown(jobs, ks)
      /\ \A j \in DOMAIN jobs : ks[j] = jobs[j]
      /\ Has(ks, "index", c, {"pending"})
  BY <1>2, EnqueueGrows
<1>4. jobs' = Append(ks, Job("summarize", c, v))
  BY DEF SetActive
<1> HIDE DEF ks
<1>5. /\ jobs' \in Seq(JobRow) /\ Grown(ks, jobs')
      /\ \A j \in DOMAIN ks : j \in DOMAIN jobs' /\ jobs'[j] = ks[j]
  BY <1>2, <1>3, <1>4, AppendGrows
<1>6. Grown(jobs, jobs') /\ \A j \in DOMAIN jobs : jobs'[j] = jobs[j]
  BY <1>2, <1>3, <1>5, GrownTwice DEF Grown
<1>7. Has(jobs', "index", c, {"pending"})
  BY <1>3, <1>5 DEF Has
<1>8. MemoryOK'
  <2>1. left' \in Bounds
    BY <1>1, SpendType DEF SetActive, MemoryOK
  <2>2. recap' \in [Levels -> [text : Texts, stale : BOOLEAN]]
    <3>1. \A l \in Levels : [recap[l] EXCEPT !.stale = @ \/ l \in Fresh]
                              \in [text : Texts, stale : BOOLEAN]
      BY <1>1 DEF MemoryOK
    <3> QED BY <3>1 DEF SetActive
  <2>3. doc' \in [Sources -> [text : Texts, live : BOOLEAN]]
    <3>1. \A s \in Sources : [doc[s] EXCEPT !.live = @ /\ s \notin Fresh]
                               \in [text : Texts, live : BOOLEAN]
      BY <1>1 DEF MemoryOK
    <3> QED BY <3>1 DEF SetActive
  <2>4. active' \in [Chapters -> VersionOrNone] /\ written' \in [Chapters -> SUBSET Versions]
    BY <1>1 DEF SetActive, MemoryOK, VersionOrNone
  <2> QED BY <1>1, <2>1, <2>2, <2>3, <2>4 DEF SetActive, MemoryOK, config
<1>9. JobsOK'
  BY <1>1, <1>5, <1>6, WorkersKept DEF SetActive
<1> QED BY <1>6, <1>7, <1>8, <1>9

LEMMA IdleWriter ==
  ASSUME WritersOK, NEW w \in Writers, writer' = [writer EXCEPT ![w] = NoWriter],
         proposal' \in [Proposals -> ProposalRow], landed' \in Nat,
         \A p \in Proposals : proposal[p].status # None => proposal'[p].status # None
  PROVE  WritersOK'
<1>1. writer' \in [Writers -> WriterRow]
  BY DEF WritersOK, WriterRow
<1>2. ASSUME NEW u \in Writers, writer'[u].kind \in {"approve", "reject"}
      PROVE  writer'[u].prop \in Proposals /\ proposal'[writer'[u].prop].status # None
  <2>1. u # w /\ writer'[u] = writer[u]
    BY <1>2 DEF WritersOK, NoWriter, None
  <2> QED BY <1>2, <2>1 DEF WritersOK
<1> QED BY <1>1, <1>2 DEF WritersOK

LEMMA BeginTypes ==
  ASSUME TypeOK, NEW w \in Writers, NEW kind \in {"edit", "approve", "reject", "writeback"},
         NEW c \in Chapters, NEW base \in VersionOrNone, NEW v \in Versions,
         NEW p \in Proposals \cup {None}, Begin(w, kind, c, base, v, p),
         kind \in {"approve", "reject"} => p \in Proposals /\ proposal[p].status # None
  PROVE  TypeOK' /\ jobs' = jobs
<1> DEFINE r == [pc |-> "loaded", kind |-> kind, ch |-> c, base |-> base, ver |-> v, prop |-> p]
<1>1. MemoryOK /\ JobsOK /\ WritersOK
  BY TypeParts
<1>2. r \in WriterRow /\ writer' = [writer EXCEPT ![w] = r]
  BY DEF Begin, WriterRow
<1> HIDE DEF r
<1>3. WritersOK'
  <2>1. proposal' = proposal /\ landed' = landed /\ writer' \in [Writers -> WriterRow]
    BY <1>1, <1>2 DEF WritersOK, Begin, book
  <2>2. ASSUME NEW u \in Writers, writer'[u].kind \in {"approve", "reject"}
        PROVE  writer'[u].prop \in Proposals /\ proposal[writer'[u].prop].status # None
    <3>1. CASE u = w
      <4>1. writer'[w] = r
        BY <1>1, <1>2 DEF WritersOK
      <4> QED BY <2>2, <3>1, <4>1 DEF r
    <3>2. CASE u # w
      BY <1>1, <1>2, <2>2, <3>2 DEF WritersOK
    <3> QED BY <3>1, <3>2
  <2> QED BY <1>1, <2>1, <2>2 DEF WritersOK
<1>4. MemoryOK' /\ JobsOK'
  BY <1>1 DEF MemoryOK, JobsOK, Begin, book, memory, config
<1> QED BY <1>3, <1>4, TypePartsNext DEF Begin

\* What writers do, up to their commit.
LEMMA WriteTypes ==
  ASSUME TypeOK, Write
  PROVE  TypeOK' /\ Grown(jobs, jobs')
<1>1. MemoryOK /\ JobsOK /\ WritersOK /\ jobs \in Seq(JobRow)
  BY TypeParts DEF JobsOK
<1>2. Grown(jobs, jobs)
  BY <1>1, GrownNot
<1>3. ASSUME NEW w \in Writers, NEW c \in Chapters, NEW v \in Versions, EditBegin(w, c, v)
      PROVE  TypeOK' /\ jobs' = jobs
  <2>1. active[c] \in VersionOrNone
    BY <1>1 DEF MemoryOK
  <2> QED BY <1>3, <2>1, BeginTypes DEF EditBegin
<1>4. ASSUME NEW c \in Chapters, NEW v \in Versions, Put(c, v)
      PROVE  TypeOK' /\ Grown(jobs, jobs')
  <2>1. SetActive(c, v) /\ UNCHANGED <<proposal, landed, writer>>
    BY <1>4 DEF Put
  <2>2. WritersOK'
    BY <1>1, <2>1 DEF WritersOK
  <2> QED BY <2>1, <2>2, SetActiveTypes, TypePartsNext
<1>5. ASSUME NEW p \in Proposals, NEW c \in Chapters, NEW v \in Versions, Propose(p, c, v)
      PROVE  TypeOK' /\ jobs' = jobs
  <2> DEFINE r == [status |-> "PROPOSED", ch |-> c, base |-> v]
  <2>1. r \in ProposalRow /\ proposal' = [proposal EXCEPT ![p] = r]
    BY <1>5 DEF Propose, ProposalRow
  <2> HIDE DEF r
  <2>2. WritersOK'
    <3>1. \A q \in Proposals : proposal[q].status # None => proposal'[q].status # None
      BY <1>1, <1>5, <2>1 DEF WritersOK, Propose
    <3> QED BY <1>1, <1>5, <2>1, <3>1 DEF WritersOK, Propose
  <2>3. MemoryOK' /\ JobsOK'
    BY <1>1, <1>5 DEF MemoryOK, JobsOK, Propose, memory, config
  <2> QED BY <1>5, <2>2, <2>3, TypePartsNext DEF Propose
<1>6. ASSUME NEW w \in Writers, NEW p \in Proposals, NEW v \in Versions, ApproveBegin(w, p, v)
      PROVE  TypeOK' /\ jobs' = jobs
  <2>1. proposal[p] \in ProposalRow /\ proposal[p].status = "PROPOSED"
    BY <1>1, <1>6 DEF WritersOK, ApproveBegin
  <2>2. proposal[p].ch \in Chapters /\ proposal[p].base \in VersionOrNone
    BY <2>1 DEF ProposalRow, NoProposal, None, VersionOrNone
  <2> QED BY <1>6, <2>1, <2>2, BeginTypes DEF ApproveBegin, None
<1>7. ASSUME NEW w \in Writers, NEW p \in Proposals, RejectBegin(w, p)
      PROVE  TypeOK' /\ jobs' = jobs
  <2>1. proposal[p] \in ProposalRow /\ proposal[p].status = "PROPOSED"
    BY <1>1, <1>7 DEF WritersOK, RejectBegin
  <2>2. proposal[p].ch \in Chapters /\ proposal[p].base \in Versions
    BY <2>1 DEF ProposalRow, NoProposal, None
  <2>3. proposal[p].base \in VersionOrNone
    BY <2>2 DEF VersionOrNone
  <2> QED BY <1>7, <2>1, <2>2, <2>3, BeginTypes DEF RejectBegin, None
<1>8. ASSUME NEW w \in Writers, WritebackBegin(w)
      PROVE  TypeOK' /\ jobs' = jobs
  <2>1. RunChapter \in Chapters /\ RunVersion \in Versions /\ None \in VersionOrNone
    BY SourceAssumption DEF VersionOrNone
  <2> QED BY <1>8, <2>1, "writeback" \notin {"approve", "reject"}, BeginTypes DEF WritebackBegin
<1>9. ASSUME NEW w \in Writers, Abort(w)
      PROVE  TypeOK' /\ jobs' = jobs
  <2>1. WritersOK'
    BY <1>1, <1>9, IdleWriter DEF Abort, WritersOK, book
  <2>2. left' \in Bounds
    BY <1>1, <1>9, SpendType DEF Abort, MemoryOK
  <2>3. MemoryOK' /\ JobsOK'
    BY <1>1, <1>9, <2>2 DEF Abort, MemoryOK, JobsOK, book, memory, config
  <2> QED BY <1>9, <2>1, <2>3, TypePartsNext DEF Abort
<1>10. ASSUME NEW w \in Writers, WriterStep(w)
       PROVE  TypeOK' /\ Grown(jobs, jobs')
  <2>1. /\ writer[w].pc = "loaded" /\ SetActive(writer[w].ch, writer[w].ver)
        /\ writer' = [writer EXCEPT ![w] = NoWriter]
    BY <1>10 DEF WriterStep, EditCommit, ApproveCommit, WritebackCommit
  <2>2. /\ writer[w].ch \in Chapters /\ writer[w].ver \in Versions
        /\ writer[w].prop \in Proposals \cup {None}
    BY <1>1, <2>1, WriterType
  <2>3. MemoryOK' /\ JobsOK' /\ Grown(jobs, jobs')
    BY <2>1, <2>2, SetActiveTypes
  <2>4. /\ proposal' \in [Proposals -> ProposalRow] /\ landed' \in Nat
        /\ \A q \in Proposals : proposal[q].status # None => proposal'[q].status # None
    <3>1. CASE EditCommit(w) \/ WritebackCommit(w)
      BY <1>1, <3>1 DEF EditCommit, WritebackCommit, WritersOK
    <3>2. CASE ApproveCommit(w)
      <4>1. proposal' = [proposal EXCEPT ![writer[w].prop].status = "VERSION_CREATED"]
        BY <3>2 DEF ApproveCommit
      <4>2. /\ writer[w].prop \in Proposals
            /\ proposal[writer[w].prop] \in ProposalRow \ {NoProposal}
        BY <1>1, <3>2 DEF ApproveCommit, WritersOK, NoProposal
      <4>3. [proposal[writer[w].prop] EXCEPT !.status = "VERSION_CREATED"]
              \in ProposalRow \ {NoProposal}
        BY <4>2 DEF ProposalRow, NoProposal, None
      <4>4. proposal' \in [Proposals -> ProposalRow] /\ landed' \in Nat
        BY <1>1, <3>2, <4>1, <4>3 DEF ApproveCommit, WritersOK
      <4>5. \A q \in Proposals : proposal[q].status # None => proposal'[q].status # None
        BY <1>1, <4>1 DEF WritersOK, None
      <4> QED BY <4>4, <4>5
    <3> QED BY <1>10, <3>1, <3>2 DEF WriterStep
  <2> QED BY <1>1, <2>1, <2>3, <2>4, IdleWriter, TypePartsNext
<1>11. ASSUME NEW w \in Writers, RejectCommit(w)
       PROVE  TypeOK' /\ jobs' = jobs
  <2> DEFINE p == writer[w].prop
  <2>1. /\ writer[w].kind = "reject" /\ writer' = [writer EXCEPT ![w] = NoWriter]
        /\ proposal' = [proposal EXCEPT ![p].status = "REJECTED"]
    BY <1>11 DEF RejectCommit
  <2>2. p \in Proposals /\ proposal[p] \in ProposalRow \ {NoProposal}
    BY <1>1, <2>1 DEF WritersOK, NoProposal
  <2>3. [proposal[p] EXCEPT !.status = "REJECTED"] \in ProposalRow
    BY <2>2 DEF ProposalRow, NoProposal, None
  <2>4. /\ proposal' \in [Proposals -> ProposalRow] /\ landed' \in Nat
        /\ \A q \in Proposals : proposal[q].status # None => proposal'[q].status # None
    BY <1>1, <1>11, <2>1, <2>3 DEF RejectCommit, WritersOK, None
  <2>5. WritersOK'
    BY <1>1, <2>1, <2>4, IdleWriter
  <2>6. MemoryOK' /\ JobsOK'
    BY <1>1, <1>11 DEF MemoryOK, JobsOK, RejectCommit, memory, config
  <2> QED BY <1>11, <2>5, <2>6, TypePartsNext DEF RejectCommit
<1> QED BY <1>2, <1>3, <1>4, <1>5, <1>6, <1>7, <1>8, <1>9, <1>10, <1>11 DEF Write

\* A job that ends as soon as it is claimed.
LEMMA EndsGrows ==
  ASSUME jobs \in Seq(JobRow), NEW j \in DOMAIN jobs, NEW s \in JobStatus
  PROVE  LET ks == Finished(Claimed(j), j, s) IN
         /\ ks \in Seq(JobRow) /\ Grown(jobs, ks) /\ DOMAIN ks = DOMAIN jobs
         /\ \A i \in DOMAIN jobs \ {j} : ks[i] = jobs[i]
         /\ ks[j].status = s
<1> DEFINE cs == Claimed(j)
           ks == Finished(cs, j, s)
<1>1. /\ cs \in Seq(JobRow) /\ Grown(jobs, cs) /\ DOMAIN cs = DOMAIN jobs
      /\ \A i \in DOMAIN jobs \ {j} : cs[i] = jobs[i]
      /\ cs[j].status = "running"
  BY ClaimedGrows
<1> HIDE DEF cs
<1>2. "running" # "deleted" /\ j \in DOMAIN cs
  BY <1>1
<1>3. /\ ks \in Seq(JobRow) /\ Grown(cs, ks) /\ DOMAIN ks = DOMAIN cs
      /\ \A i \in DOMAIN cs \ {j} : ks[i] = cs[i]
      /\ ks[j].status = s
  BY <1>1, <1>2, FinishedGrows
<1> HIDE DEF ks
<1>4. Grown(jobs, ks)
  BY <1>1, <1>3, GrownTwice
<1> QED BY <1>1, <1>3, <1>4 DEF ks, cs

LEMMA RetriedType == ASSUME NEW n PROVE Retried(n) \in JobStatus \ {"done", "running", "deleted"}
BY DEF Retried, JobStatus

LEMMA UntouchedParts ==
  ASSUME TypeOK, UNCHANGED <<book, memory, writer, config>>, left' \in Bounds, JobsOK'
  PROVE  TypeOK'
<1>1. MemoryOK' /\ WritersOK'
  BY DEF TypeOK, MemoryOK, WritersOK, book, memory, config
<1> QED BY <1>1, TypePartsNext

LEMMA DeliveredTypes ==
  ASSUME TypeOK, NEW w \in Workers, NEW j \in DOMAIN jobs, NEW kinds, Delivered(w, j, kinds)
  PROVE  /\ left' \in Bounds /\ UNCHANGED <<book, memory, writer, config>>
         /\ worker[w].pc = "idle"
         /\ jobs[j].kind \in kinds
         /\ jobs[j].status = "pending" \/ (jobs[j].status = "running" /\ jobs[j].kind = "summarize")
<1>1. left \in Bounds
  BY DEF TypeOK
<1> QED BY <1>1, SpendType DEF Delivered, Free

LEMMA ProceedTypes ==
  ASSUME JobsOK, NEW w \in Workers, NEW j \in DOMAIN jobs, NEW text \in Texts,
         NEW old \in Texts, Proceed(w, j, text, old)
  PROVE  /\ JobsOK' /\ Grown(jobs, jobs')
         /\ worker'[w] = [pc |-> "loaded", job |-> j, attempt |-> jobs[j].attempt + 1,
                          text |-> text, old |-> old, late |-> FALSE]
<1> DEFINE r == [pc |-> "loaded", job |-> j, attempt |-> jobs[j].attempt + 1,
                 text |-> text, old |-> old, late |-> FALSE]
<1>1. jobs \in Seq(JobRow) /\ j \in Nat /\ jobs[j].attempt + 1 \in Nat
  BY RowType, LenProperties DEF JobsOK
<1>2. r \in WorkerRow /\ r.job \in DOMAIN jobs /\ worker' = [worker EXCEPT ![w] = r]
  BY <1>1 DEF WorkerRow, Proceed
<1>3. jobs' \in Seq(JobRow) /\ Grown(jobs, jobs')
  BY <1>1, ClaimedGrows DEF Proceed
<1>4. worker'[w] = r
  BY <1>2 DEF JobsOK
<1> HIDE DEF r
<1>5. JobsOK'
  BY <1>2, <1>3, WorkerChanged
<1> QED BY <1>3, <1>4, <1>5 DEF r

\* A delivery: a job ends at once or a worker has it.
LEMMA StartTypes ==
  ASSUME TypeOK, NEW w \in Workers, NEW j \in DOMAIN jobs, Start(w, j)
  PROVE  TypeOK' /\ Grown(jobs, jobs')
<1>1. MemoryOK /\ JobsOK /\ jobs \in Seq(JobRow) /\ jobs[j] \in JobRow
  BY TypeParts DEF JobsOK
<1>2. /\ left' \in Bounds /\ UNCHANGED <<book, memory, writer, config>>
  BY DeliveredTypes DEF Start, IndexStart, SummarizeStart, RollupStart
<1>3. ASSUME NEW s \in JobStatus, EndAtOnce(j, s)
      PROVE  JobsOK' /\ Grown(jobs, jobs')
  <2>1. jobs' \in Seq(JobRow) /\ Grown(jobs, jobs')
    BY <1>1, <1>3, EndsGrows DEF EndAtOnce
  <2> QED BY <1>1, <1>3, <2>1, WorkersKept DEF EndAtOnce
<1>4. ASSUME NEW text \in Texts, NEW old \in Texts, Proceed(w, j, text, old)
      PROVE  JobsOK' /\ Grown(jobs, jobs')
  BY <1>1, <1>4, ProceedTypes
<1>5. /\ NoText \in Texts /\ Current \in Texts /\ Current \cap summarized \in Texts
      /\ Source(jobs[j].of) \in Texts /\ recap["book"].text \in Texts
  BY <1>1, RowType, TextTypes DEF NoText, Texts, MemoryOK, Levels
<1>6. "done" \in JobStatus /\ "failed" \in JobStatus
  BY DEF JobStatus
<1>7. CASE IndexStart(w, j)
  <2>1. ASSUME jobs' = Finished(Claimed(j), j, "done"), worker' = Passed(jobs[j].of)
        PROVE  JobsOK' /\ Grown(jobs, jobs')
    <3>1. jobs' \in Seq(JobRow) /\ Grown(jobs, jobs')
      BY <1>1, <1>6, <2>1, EndsGrows
    <3>2. JobsOK'
      BY <1>1, <2>1, <3>1, PassedType DEF JobsOK, Grown
    <3> QED BY <3>1, <3>2
  <2>2. JobsOK' /\ Grown(jobs, jobs')
    BY <1>3, <1>4, <1>5, <1>6, <1>7, <2>1 DEF IndexStart
  <2> QED BY <1>2, <2>2, UntouchedParts
<1>8. CASE SummarizeStart(w, j)
  <2>1. JobsOK' /\ Grown(jobs, jobs')
    BY <1>3, <1>4, <1>5, <1>6, <1>8 DEF SummarizeStart
  <2> QED BY <1>2, <2>1, UntouchedParts
<1>9. CASE RollupStart(w, j)
  <2>1. Retried(jobs[j].attempt + 1) \in JobStatus
    BY RetriedType
  <2>2. JobsOK' /\ Grown(jobs, jobs')
    BY <1>3, <1>4, <1>5, <1>6, <1>9, <2>1 DEF RollupStart
  <2> QED BY <1>2, <2>2, UntouchedParts
<1> QED BY <1>7, <1>8, <1>9 DEF Start

\* A worker that ends its job, in either way.
LEMMA SettleTypes ==
  ASSUME TypeOK, NEW w \in Workers, worker[w].pc # "idle", NEW s \in JobStatus,
         jobs' = Finished(jobs, worker[w].job, s)
  PROVE  jobs' \in Seq(JobRow) /\ Grown(jobs, jobs')
<1>1. jobs \in Seq(JobRow) /\ worker[w].job \in DOMAIN jobs
  BY DEF TypeOK
<1> QED BY <1>1, FinishedGrows

LEMMA IndexWriteTypes ==
  ASSUME TypeOK, NEW w \in Workers, IndexWrite(w)
  PROVE  TypeOK' /\ Grown(jobs, jobs')
<1> DEFINE of == jobs[worker[w].job].of
<1>1. MemoryOK /\ JobsOK /\ WritersOK /\ worker[w].pc = "loaded"
  BY TypeParts DEF IndexWrite, Holds
<1>2. /\ worker[w].text \in Texts /\ of \in Sources
  BY <1>1, WorkerType, RowType
<1>3. jobs' \in Seq(JobRow) /\ Grown(jobs, jobs')
  BY <1>1, SettleTypes, "done" \in JobStatus DEF IndexWrite, JobStatus
<1>4. JobsOK'
  <2>1. worker' = [Passed(of) EXCEPT ![w] = NoJob]
    BY DEF IndexWrite
  <2>2. worker' \in [Workers -> WorkerRow]
    BY <1>1, <2>1, PassedType DEF WorkerRow
  <2>3. ASSUME NEW u \in Workers, worker'[u].pc # "idle" PROVE worker'[u].job \in DOMAIN jobs'
    <3>1. u # w /\ worker'[u] = Passed(of)[u]
      BY <1>1, <2>1, <2>3, PassedType DEF NoJob
    <3>2. worker[u].pc # "idle" /\ worker'[u].job = worker[u].job
      BY <1>1, <2>3, <3>1, PassedType
    <3> QED BY <1>1, <1>3, <3>2 DEF JobsOK, Grown
  <2> QED BY <1>3, <2>2, <2>3 DEF JobsOK
<1>5. MemoryOK'
  <2>1. doc' \in [Sources -> [text : Texts, live : BOOLEAN]]
    BY <1>1, <1>2 DEF IndexWrite, MemoryOK
  <2> QED BY <1>1, <2>1 DEF IndexWrite, MemoryOK, book, config
<1>6. WritersOK'
  BY <1>1 DEF IndexWrite, WritersOK, book
<1> QED BY <1>3, <1>4, <1>5, <1>6, TypePartsNext

LEMMA RollupWriteTypes ==
  ASSUME TypeOK, NEW w \in Workers, RollupWrite(w)
  PROVE  TypeOK' /\ Grown(jobs, jobs')
<1> DEFINE ks == Enqueue(jobs, "index_recap", "volume")
           ls == Enqueue(ks, "index_recap", "book")
           j == worker[w].job
<1>1. MemoryOK /\ JobsOK /\ WritersOK /\ worker[w].pc = "loaded" /\ jobs \in Seq(JobRow)
  BY TypeParts DEF RollupWrite, Holds, JobsOK
<1>2. worker[w].text \in Texts /\ worker[w].old \in Texts /\ j \in DOMAIN jobs
  BY <1>1, WorkerType
<1>3. /\ Job("index_recap", "volume", None) \in JobRow
      /\ Job("index_recap", "book", None) \in JobRow
  BY NewRows, SourceAssumption DEF Levels
<1>4. ks \in Seq(JobRow) /\ Grown(jobs, ks)
  BY <1>1, <1>3, EnqueueGrows
<1> HIDE DEF ks
<1>5. ls \in Seq(JobRow) /\ Grown(ks, ls)
  BY <1>3, <1>4, EnqueueGrows
<1>6. Grown(jobs, ls) /\ j \in DOMAIN ls
  BY <1>1, <1>2, <1>4, <1>5, GrownTwice DEF Grown
<1>7. jobs' = Finished(ls, j, "done")
  BY DEF RollupWrite, ls, ks
<1> HIDE DEF ls, j
<1>8. jobs' \in Seq(JobRow) /\ Grown(jobs, jobs')
  <2>1. "done" \in JobStatus
    BY DEF JobStatus
  <2>2. jobs' \in Seq(JobRow) /\ Grown(ls, jobs')
    BY <1>5, <1>6, <1>7, <2>1, FinishedGrows
  <2> QED BY <1>1, <1>5, <1>6, <2>2, GrownTwice
<1>9. JobsOK'
  BY <1>1, <1>8, WorkerReleased DEF RollupWrite
<1>10. MemoryOK'
  <2>1. recap' \in [Levels -> [text : Texts, stale : BOOLEAN]]
    BY <1>2 DEF RollupWrite, Texts
  <2> QED BY <1>1, <2>1 DEF RollupWrite, MemoryOK, book, config
<1>11. WritersOK'
  BY <1>1 DEF RollupWrite, WritersOK, book
<1> QED BY <1>8, <1>9, <1>10, <1>11, TypePartsNext

LEMMA JobStepTypes ==
  ASSUME TypeOK, NEW w \in Workers, JobStep(w)
  PROVE  TypeOK' /\ Grown(jobs, jobs')
<1>1. MemoryOK /\ JobsOK /\ WritersOK /\ jobs \in Seq(JobRow)
  BY TypeParts DEF JobsOK
<1>2. ASSUME SummarizeWrite(w) PROVE TypeOK' /\ Grown(jobs, jobs')
  <2> DEFINE j == worker[w].job
             r == [worker[w] EXCEPT !.pc = "summarized"]
  <2>1. worker[w].pc = "loaded" /\ jobs[j].kind = "summarize"
    BY <1>2 DEF SummarizeWrite, Holds
  <2>2. /\ r \in WorkerRow /\ r.job \in DOMAIN jobs
        /\ jobs[j].of \in Chapters /\ jobs[j].ver \in Versions
    BY <1>1, <2>1, WorkerType, RowType DEF WorkerRow
  <2>3. jobs' \in Seq(JobRow) /\ Grown(jobs, jobs')
    BY <1>2, <2>1, SettleTypes, "done" \in JobStatus DEF SummarizeWrite, JobStatus
  <2>4. worker' = [worker EXCEPT ![w] = r]
    BY <1>2 DEF SummarizeWrite
  <2>5. JobsOK'
    <3> HIDE DEF r
    <3> QED BY <1>1, <2>2, <2>3, <2>4, WorkerChanged
  <2>6. summarized' \in Texts
    BY <1>1, <1>2, <2>2 DEF SummarizeWrite, Summaries, Texts, MemoryOK
  <2>7. MemoryOK' /\ WritersOK'
    BY <1>1, <1>2, <2>6 DEF SummarizeWrite, MemoryOK, WritersOK, book, config
  <2> QED BY <2>3, <2>5, <2>7, TypePartsNext
<1>3. ASSUME SummarizeRollup(w) PROVE TypeOK' /\ Grown(jobs, jobs')
  <2> DEFINE of == jobs[worker[w].job].of
  <2>1. jobs' \in Seq(JobRow) /\ Grown(jobs, jobs')
    <3>1. CASE of = Closing
      <4>1. Job("rollup", of, None) \in JobRow
        BY <3>1, NewRows, SourceAssumption
      <4> QED BY <1>1, <1>3, <3>1, <4>1, EnqueueGrows DEF SummarizeRollup
    <3>2. CASE of # Closing
      BY <1>1, <1>3, <3>2, GrownNot DEF SummarizeRollup
    <3> QED BY <3>1, <3>2
  <2>2. JobsOK'
    BY <1>1, <1>3, <2>1, WorkerReleased DEF SummarizeRollup
  <2>3. left' \in Bounds
    BY <1>1, <1>3 DEF SummarizeRollup, MemoryOK
  <2> QED BY <1>3, <2>1, <2>2, <2>3, UntouchedParts DEF SummarizeRollup
<1>4. ASSUME Skip(w) PROVE TypeOK' /\ Grown(jobs, jobs')
  <2>1. jobs' \in Seq(JobRow) /\ Grown(jobs, jobs') /\ left' \in Bounds
    BY <1>1, <1>4, GrownNot DEF Skip, MemoryOK
  <2>2. JobsOK'
    BY <1>1, <1>4, <2>1, WorkerReleased DEF Skip
  <2> QED BY <1>4, <2>1, <2>2, UntouchedParts DEF Skip
<1> QED BY <1>2, <1>3, <1>4, IndexWriteTypes, RollupWriteTypes DEF JobStep

LEMMA FaultTypes ==
  ASSUME TypeOK, NEW w \in Workers, Raise(w) \/ Kill(w)
  PROVE  TypeOK' /\ Grown(jobs, jobs')
<1>1. JobsOK /\ left \in Bounds /\ jobs \in Seq(JobRow)
  BY TypeParts DEF JobsOK, MemoryOK
<1>2. ASSUME Raise(w) PROVE TypeOK' /\ Grown(jobs, jobs')
  <2>1. /\ worker[w].pc = "loaded" /\ Spend("faults") /\ Release(w)
        /\ jobs' = Finished(jobs, worker[w].job, Retried(jobs[worker[w].job].attempt))
    BY <1>2 DEF Raise, Settle
  <2>2. Retried(jobs[worker[w].job].attempt) \in JobStatus
    BY RetriedType
  <2>3. jobs' \in Seq(JobRow) /\ Grown(jobs, jobs')
    BY <2>1, <2>2, SettleTypes
  <2>4. JobsOK' /\ left' \in Bounds
    BY <1>1, <2>1, <2>3, WorkerReleased, SpendType
  <2> QED BY <1>2, <2>3, <2>4, UntouchedParts DEF Raise
<1>3. ASSUME Kill(w) PROVE TypeOK' /\ Grown(jobs, jobs')
  <2>1. jobs' \in Seq(JobRow) /\ Grown(jobs, jobs')
    BY <1>1, <1>3, GrownNot DEF Kill
  <2>2. JobsOK' /\ left' \in Bounds
    BY <1>1, <1>3, <2>1, WorkerReleased, SpendType DEF Kill
  <2> QED BY <1>3, <2>1, <2>2, UntouchedParts DEF Kill
<1> QED BY <1>2, <1>3

LEMMA RearmTypes ==
  ASSUME TypeOK, NEW j \in DOMAIN jobs, Rearm(j)
  PROVE  TypeOK' /\ Grown(jobs, jobs')
<1>1. JobsOK /\ left \in Bounds /\ jobs \in Seq(JobRow)
  BY TypeParts DEF JobsOK, MemoryOK
<1>2. jobs' \in Seq(JobRow) /\ Grown(jobs, jobs')
  BY <1>1, StatusGrows, "pending" \in JobStatus DEF Rearm, JobStatus
<1>3. JobsOK' /\ left' \in Bounds
  BY <1>1, <1>2, WorkersKept, SpendType DEF Rearm
<1> QED BY <1>2, <1>3, UntouchedParts DEF Rearm

LEMMA RecomputeTypes ==
  ASSUME TypeOK, Recompute
  PROVE  TypeOK' /\ Grown(jobs, jobs')
<1>1. JobsOK /\ left \in Bounds /\ jobs \in Seq(JobRow)
  BY TypeParts DEF JobsOK, MemoryOK
<1>2. Job("rollup", Closing, None) \in JobRow
  BY NewRows, SourceAssumption
<1>3. jobs' \in Seq(JobRow) /\ Grown(jobs, jobs')
  BY <1>1, <1>2, AppendGrows DEF Recompute
<1>4. JobsOK' /\ left' \in Bounds
  BY <1>1, <1>3, WorkersKept, SpendType DEF Recompute
<1> QED BY <1>3, <1>4, UntouchedParts DEF Recompute

LEMMA SaveSettingsTypes ==
  ASSUME TypeOK, SaveSettings
  PROVE  /\ TypeOK' /\ Grown(jobs, jobs') /\ DOMAIN jobs' = DOMAIN jobs
         /\ \A j \in DOMAIN jobs :
              jobs'[j].status = IF jobs[j].status = "failed" /\ jobs[j].kind = "index"
                                THEN "pending" ELSE jobs[j].status
         /\ \A j \in DOMAIN jobs : jobs'[j].attempt = jobs[j].attempt
<1>1. MemoryOK /\ JobsOK /\ WritersOK /\ jobs \in Seq(JobRow)
  BY TypeParts DEF JobsOK
<1>2. \A j \in DOMAIN jobs :
        jobs'[j] = IF jobs[j].status = "failed" /\ jobs[j].kind = "index"
                   THEN [jobs[j] EXCEPT !.status = "pending"] ELSE jobs[j]
  BY DEF SaveSettings
<1>3. DOMAIN jobs' = DOMAIN jobs /\ jobs' = [j \in DOMAIN jobs |-> jobs'[j]]
  BY DEF SaveSettings
<1>4. ASSUME NEW j \in DOMAIN jobs
      PROVE  /\ jobs'[j] \in JobRow /\ jobs'[j].kind = jobs[j].kind
             /\ jobs'[j].of = jobs[j].of /\ jobs'[j].ver = jobs[j].ver
             /\ jobs'[j].attempt = jobs[j].attempt /\ jobs[j].attempt \in Nat
             /\ jobs'[j].status = IF jobs[j].status = "failed" /\ jobs[j].kind = "index"
                                  THEN "pending" ELSE jobs[j].status
  <2>1. jobs[j] \in JobRow /\ "pending" \in JobStatus
    BY <1>1 DEF JobStatus
  <2>2. CASE jobs[j].status = "failed" /\ jobs[j].kind = "index"
    <3>1. jobs'[j] = [jobs[j] EXCEPT !.status = "pending"]
      BY <1>2, <2>2
    <3> QED BY <2>1, <2>2, <3>1, StatusChange, RowType
  <2>3. CASE ~(jobs[j].status = "failed" /\ jobs[j].kind = "index")
    <3>1. jobs'[j] = jobs[j]
      BY <1>2, <2>3
    <3> QED BY <2>1, <2>3, <3>1, RowType
  <2> QED BY <2>2, <2>3
<1>5. jobs' \in Seq(JobRow)
  BY <1>1, <1>3, <1>4, TableOf
<1>6. Grown(jobs, jobs')
  BY <1>3, <1>4 DEF Grown
<1>7. JobsOK' /\ left' \in Bounds
  BY <1>1, <1>5, <1>6, WorkersKept, SpendType DEF SaveSettings, MemoryOK
<1>8. MemoryOK' /\ WritersOK'
  BY <1>1, <1>7 DEF SaveSettings, MemoryOK, WritersOK, book, memory
<1> QED BY <1>3, <1>4, <1>6, <1>7, <1>8, TypePartsNext

LEMMA RebuildTypes ==
  ASSUME TypeOK, Rebuild
  PROVE  /\ TypeOK' /\ Grown(jobs, jobs')
         /\ \A j \in DOMAIN jobs :
              jobs'[j].status = IF jobs[j].status \in {"pending", "running"}
                                THEN "deleted" ELSE jobs[j].status
         /\ \A c \in Indexable : Has(jobs', "index", c, {"pending"})
         /\ \A j \in DOMAIN jobs' \ DOMAIN jobs : jobs'[j] \in IndexingRows
<1> DEFINE kept == [j \in DOMAIN jobs |->
             IF jobs[j].status \in {"pending", "running"}
             THEN [jobs[j] EXCEPT !.status = "deleted"] ELSE jobs[j]]
<1>1. MemoryOK /\ JobsOK /\ WritersOK /\ jobs \in Seq(JobRow)
  BY TypeParts DEF JobsOK
<1>2. ASSUME NEW j \in DOMAIN jobs
      PROVE  /\ kept[j] \in JobRow /\ kept[j].kind = jobs[j].kind
             /\ kept[j].of = jobs[j].of /\ kept[j].ver = jobs[j].ver
             /\ kept[j].attempt = jobs[j].attempt /\ jobs[j].attempt \in Nat
             /\ kept[j].status = IF jobs[j].status \in {"pending", "running"}
                                 THEN "deleted" ELSE jobs[j].status
  <2>1. jobs[j] \in JobRow /\ "deleted" \in JobStatus
    BY <1>1 DEF JobStatus
  <2>2. kept[j] = IF jobs[j].status \in {"pending", "running"}
                  THEN [jobs[j] EXCEPT !.status = "deleted"] ELSE jobs[j]
    OBVIOUS
  <2> HIDE DEF kept
  <2> QED BY <2>1, <2>2, StatusChange, RowType
<1>3. DOMAIN kept = DOMAIN jobs /\ kept = [j \in DOMAIN jobs |-> kept[j]]
  OBVIOUS
<1>4. jobs' = kept \o SetToSeq(IndexingRows)
  BY DEF Rebuild, IndexingRows, Indexable
<1> HIDE DEF kept
<1>5. kept \in Seq(JobRow)
  BY <1>1, <1>2, <1>3, TableOf
<1>6. Grown(jobs, kept)
  BY <1>2, <1>3 DEF Grown
<1>7. /\ jobs' \in Seq(JobRow) /\ Grown(kept, jobs')
      /\ \A j \in DOMAIN kept : jobs'[j] = kept[j]
      /\ \A c \in Indexable : Has(jobs', "index", c, {"pending"})
      /\ \A j \in DOMAIN jobs' \ DOMAIN kept : jobs'[j] \in IndexingRows
  BY <1>4, <1>5, RowsAdded, SourceAssumption
<1>8. Grown(jobs, jobs')
  BY <1>1, <1>5, <1>6, <1>7, GrownTwice
<1>9. JobsOK' /\ left' \in Bounds
  BY <1>1, <1>7, <1>8, WorkersKept, SpendType DEF Rebuild, MemoryOK
<1>10. MemoryOK'
  <2>1. doc' \in [Sources -> [text : Texts, live : BOOLEAN]]
    BY DEF Rebuild, NoText, Texts
  <2> QED BY <1>1, <1>9, <2>1 DEF Rebuild, MemoryOK, book
<1>11. WritersOK'
  BY <1>1 DEF Rebuild, WritersOK, book
<1> QED BY <1>2, <1>3, <1>7, <1>8, <1>9, <1>10, <1>11, TypePartsNext

LEMMA NextTypes ==
  ASSUME TypeOK, Next
  PROVE  TypeOK' /\ Grown(jobs, jobs')
BY WriteTypes, StartTypes, JobStepTypes, FaultTypes, RearmTypes, RecomputeTypes,
   SaveSettingsTypes, RebuildTypes DEF Next, Sweep

\* Every variable keeps its type, and a worker's job and the proposal a request decides exist.
THEOREM TypeCorrect == Spec => []TypeOK
<1>1. TypeOK /\ [Next]_vars => TypeOK'
  <2> SUFFICES ASSUME TypeOK, [Next]_vars PROVE TypeOK'
    OBVIOUS
  <2>1. CASE Next
    BY <2>1, NextTypes
  <2>2. CASE UNCHANGED vars
    BY <2>2 DEF vars, book, memory, config, TypeOK
  <2> QED BY <2>1, <2>2
<1> QED BY InitTyped, <1>1, PTL DEF Spec

(***************************************************************************)
(* Recaps.  A change of a chapter makes every fresh recap stale and        *)
(* supersedes its chunks; a rollup makes both fresh.                       *)
(***************************************************************************)

\* What relied on a stale read is not forgotten.
LEMMA BlindGrows ==
  ASSUME [Next]_vars
  PROVE  blind \subseteq blind'
<1>1. CASE Write
  BY <1>1 DEF Write, EditBegin, Put, Propose, ApproveBegin, RejectBegin, RejectCommit, WritebackBegin, Abort,
     WriterStep, EditCommit, ApproveCommit, WritebackCommit, Begin
<1>2. ASSUME NEW w \in Workers, JobStep(w) \/ Raise(w) \/ Kill(w) PROVE blind \subseteq blind'
  BY <1>2 DEF JobStep, Raise, Kill, IndexWrite, SummarizeWrite, SummarizeRollup, RollupWrite,
     Skip
<1>3. ASSUME NEW w \in Workers, NEW j \in DOMAIN jobs, Start(w, j) PROVE blind \subseteq blind'
  BY <1>3 DEF Start, IndexStart, SummarizeStart, RollupStart, Delivered
<1>4. CASE Sweep \/ Recompute \/ SaveSettings \/ Rebuild
  BY <1>4 DEF Sweep, Rearm, Recompute, SaveSettings, Rebuild
<1>5. CASE UNCHANGED vars
  BY <1>5 DEF vars
<1> QED BY <1>1, <1>2, <1>3, <1>4, <1>5 DEF Next

\* The steps other than a change of a chapter, an index or a recap write and a rebuild
\* leave what the recaps are about alone.
MemoryStep ==
  \/ \E c \in Chapters, v \in Versions : SetActive(c, v)
  \/ \E w \in Workers : IndexWrite(w) \/ RollupWrite(w)
  \/ Rebuild

LEMMA OtherSteps ==
  ASSUME TypeOK, [Next]_vars, ~MemoryStep
  PROVE  UNCHANGED <<active, recap, doc>>
<1>1. CASE Write
  <2>1. ASSUME NEW w \in Writers, WriterStep(w) PROVE MemoryStep
    <3>1. writer[w].pc = "loaded" /\ SetActive(writer[w].ch, writer[w].ver)
      BY <2>1 DEF WriterStep, EditCommit, ApproveCommit, WritebackCommit
    <3>2. writer[w].ch \in Chapters /\ writer[w].ver \in Versions
      BY <3>1, TypeParts, WriterType
    <3> QED BY <3>1, <3>2 DEF MemoryStep
  <2>2. ASSUME NEW c \in Chapters, NEW v \in Versions, Put(c, v) PROVE MemoryStep
    BY <2>2 DEF Put, MemoryStep
  <2> QED BY <1>1, <2>1, <2>2 DEF Write, EditBegin, Propose, ApproveBegin, RejectBegin, RejectCommit,
       WritebackBegin, Abort, Begin, book, memory
<1>2. ASSUME NEW w \in Workers, JobStep(w) \/ Raise(w) \/ Kill(w)
      PROVE  UNCHANGED <<active, recap, doc>>
  BY <1>2 DEF MemoryStep, JobStep, Raise, Kill, SummarizeWrite, SummarizeRollup, Skip, book,
     memory
<1>3. ASSUME NEW w \in Workers, NEW j \in DOMAIN jobs, Start(w, j)
      PROVE  UNCHANGED <<active, recap, doc>>
  BY <1>3 DEF Start, IndexStart, SummarizeStart, RollupStart, Delivered, book, memory
<1>4. CASE Sweep \/ Recompute \/ SaveSettings
  BY <1>4 DEF Sweep, Rearm, Recompute, SaveSettings, book, memory
<1>5. CASE UNCHANGED vars
  BY <1>5 DEF vars, book, memory
<1> QED BY <1>1, <1>2, <1>3, <1>4, <1>5 DEF Next, MemoryStep

\* A recap that is not stale was made from the active version of every chapter, unless
\* its rollup read them before a change or before they were all summarized.
THEOREM RecapsAreCurrent == Spec => []FreshRecapIsCurrent
<1>1. Init => FreshRecapIsCurrent
  BY DEF Init, FreshRecapIsCurrent, NoText
<1>2. TypeOK /\ FreshRecapIsCurrent /\ [Next]_vars => FreshRecapIsCurrent'
  <2> SUFFICES ASSUME TypeOK, FreshRecapIsCurrent, [Next]_vars, "rollup" \notin blind',
                      NEW l \in Levels, recap'[l].text # NoText, ~recap'[l].stale
               PROVE  Current' \subseteq recap'[l].text
    BY DEF FreshRecapIsCurrent
  <2>1. "rollup" \notin blind
    BY BlindGrows
  <2>2. recap \in [Levels -> [text : Texts, stale : BOOLEAN]]
    BY DEF TypeOK
  <2>3. ASSUME active' = active, recap' = recap PROVE Current' \subseteq recap'[l].text
    BY <2>1, <2>3 DEF FreshRecapIsCurrent, Current
  <2>4. ASSUME NEW c \in Chapters, NEW v \in Versions, SetActive(c, v) PROVE FALSE
    <3>1. recap'[l].text = recap[l].text /\ recap'[l].stale = (recap[l].stale \/ l \in Fresh)
      BY <2>2, <2>4 DEF SetActive
    <3> QED BY <3>1 DEF Fresh
  <2>5. ASSUME NEW w \in Workers, RollupWrite(w) PROVE Current' \subseteq recap'[l].text
    <3>1. worker[w].text = Current /\ active' = active
      BY <2>5 DEF RollupWrite, book
    <3>2. worker[w].text \subseteq recap'[l].text
      BY <2>5 DEF RollupWrite
    <3> QED BY <3>1, <3>2 DEF Current
  <2>6. ASSUME NEW w \in Workers, IndexWrite(w) PROVE active' = active /\ recap' = recap
    BY <2>6 DEF IndexWrite, book
  <2>7. CASE Rebuild
    BY <2>3, <2>7 DEF Rebuild, book
  <2> QED BY <2>3, <2>4, <2>5, <2>6, <2>7, OtherSteps DEF MemoryStep
<1> QED BY <1>1, <1>2, TypeCorrect, PTL DEF Spec

\* The chunks of a stale recap are not served as evidence, unless its indexing was
\* under way when it became stale.
THEOREM StaleRecapsAreSuperseded == Spec => []StaleRecapIsNotServed
<1>1. Init => StaleRecapIsNotServed
  BY DEF Init, StaleRecapIsNotServed
<1>2. TypeOK /\ StaleRecapIsNotServed /\ [Next]_vars => StaleRecapIsNotServed'
  <2> SUFFICES ASSUME TypeOK, StaleRecapIsNotServed, [Next]_vars, "index" \notin blind',
                      NEW l \in Levels, recap'[l].stale
               PROVE  ~doc'[l].live
    BY DEF StaleRecapIsNotServed
  <2>1. "index" \notin blind /\ l \in Sources
    BY BlindGrows DEF Sources
  <2>2. /\ recap \in [Levels -> [text : Texts, stale : BOOLEAN]]
        /\ doc \in [Sources -> [text : Texts, live : BOOLEAN]]
    BY DEF TypeOK
  <2>3. ASSUME recap' = recap, doc' = doc PROVE ~doc'[l].live
    BY <2>1, <2>3 DEF StaleRecapIsNotServed
  <2>4. ASSUME NEW c \in Chapters, NEW v \in Versions, SetActive(c, v) PROVE ~doc'[l].live
    <3>1. /\ recap'[l].stale = (recap[l].stale \/ l \in Fresh)
          /\ doc'[l].live = (doc[l].live /\ l \notin Fresh)
      BY <2>1, <2>2, <2>4 DEF SetActive
    <3> QED BY <2>1, <3>1 DEF StaleRecapIsNotServed
  <2>5. ASSUME NEW w \in Workers, RollupWrite(w) PROVE FALSE
    BY <2>5 DEF RollupWrite
  <2>6. ASSUME NEW w \in Workers, IndexWrite(w) PROVE ~doc'[l].live
    <3> DEFINE of == jobs[worker[w].job].of
    <3>1. recap' = recap
      BY <2>6 DEF IndexWrite
    <3>2. ~recap[of].stale \/ of \notin Levels
      BY <2>6 DEF IndexWrite
    <3>3. doc'[l] = doc[l]
      BY <2>2, <2>6, <3>1, <3>2 DEF IndexWrite
    <3> QED BY <2>1, <3>1, <3>3 DEF StaleRecapIsNotServed
  <2>7. CASE Rebuild
    BY <2>1, <2>7 DEF Rebuild
  <2> QED BY <2>3, <2>4, <2>5, <2>6, <2>7, OtherSteps DEF MemoryStep
<1> QED BY <1>1, <1>2, TypeCorrect, PTL DEF Spec

(***************************************************************************)
(* The index of a chapter.  What an indexing job has read is current, or   *)
(* another job of the chapter is still to come; a job that is overtaken    *)
(* may be neither.                                                         *)
(***************************************************************************)

Unended == {"pending", "running", "failed"}
Another(c, w) ==
  \E i \in DOMAIN jobs : /\ i # worker[w].job /\ jobs[i].kind = "index"
                          /\ jobs[i].of = c /\ jobs[i].status \in Unended
Indexes(w, c) ==
  LET j == worker[w].job IN
  worker[w].pc # "idle" /\ jobs[j].kind = "index" /\ jobs[j].of = c

\* A chapter that is indexed is served.
Served == \A c \in Chapters : doc[c].text # NoText => doc[c].live
\* A worker has one of the claims of its row.
Claims == \A w \in Workers :
  worker[w].pc # "idle" => worker[w].attempt <= jobs[worker[w].job].attempt
\* What a worker read and is not overtaken with is current, or to be read again.
Reads == \A w \in Workers, c \in Chapters :
  Indexes(w, c) /\ ~Overtaken(w) => worker[w].text = Source(c) \/ Another(c, w)
IndexInv == Served /\ Claims /\ Reads /\ IndexCatchesUp

LEMMA SourceOfChapter ==
  ASSUME NEW c \in Chapters
  PROVE  /\ Source(c) = IF active[c] = None THEN {} ELSE {<<c, active[c]>>}
         /\ Source(c)' = IF active'[c] = None THEN {} ELSE {<<c, active'[c]>>}
BY DEF Source, Current

LEMMA IndexRow ==
  ASSUME TypeOK, NEW j \in DOMAIN jobs
  PROVE  /\ jobs[j].kind = "index" => jobs[j].of \in Chapters
         /\ jobs[j].kind = "index_recap" => jobs[j].of \in Levels /\ jobs[j].of \notin Chapters
         /\ jobs[j].attempt \in Nat
<1>1. jobs[j] \in JobRow
  BY DEF TypeOK
<1> QED BY <1>1, RowType, SourceAssumption

\* A row is running after a step only if it was, or if it is claimed once more.
ClaimStep == \A j \in DOMAIN jobs :
  jobs'[j].status = "running" => jobs[j].status = "running" \/ jobs[j].attempt < jobs'[j].attempt

LEMMA StaysOvertaken ==
  ASSUME TypeOK, TypeOK', Claims, Grown(jobs, jobs'), ClaimStep, NEW u \in Workers,
         worker[u].pc # "idle", Overtaken(u), worker'[u].job = worker[u].job,
         worker'[u].attempt = worker[u].attempt, worker[u].late => worker'[u].late
  PROVE  Overtaken(u)'
<1> DEFINE j == worker[u].job
<1>1. j \in DOMAIN jobs /\ j \in DOMAIN jobs'
  BY DEF TypeOK, Grown
<1>2. jobs[j].attempt \in Nat /\ jobs'[j].attempt \in Nat
  <2>1. jobs \in Seq(JobRow) /\ jobs' \in Seq(JobRow)
    BY DEF TypeOK
  <2> QED BY <1>1, <2>1, RowType
<1>3. worker[u].attempt \in Nat
  BY TypeParts, WorkerType
<1>4. worker[u].attempt <= jobs[j].attempt /\ jobs[j].attempt <= jobs'[j].attempt
  BY <1>1 DEF Claims, Grown
<1>5. CASE jobs[j].status # "running"
  <2>1. jobs'[j].status # "running" \/ jobs[j].attempt < jobs'[j].attempt
    BY <1>1, <1>5 DEF ClaimStep
  <2>2. jobs'[j].status # "running" \/ jobs'[j].attempt # worker[u].attempt
    BY <1>2, <1>3, <1>4, <2>1
  <2> QED BY <2>2 DEF Overtaken
<1>6. CASE jobs[j].attempt # worker[u].attempt
  <2>1. jobs'[j].attempt # worker[u].attempt
    BY <1>2, <1>3, <1>4, <1>6
  <2> QED BY <2>1 DEF Overtaken
<1>7. CASE worker[u].late
  BY <1>7 DEF Overtaken
<1> QED BY <1>5, <1>6, <1>7 DEF Overtaken

\* Steps that change no chapter and its document, and end no indexing job: a worker
\* stays as it is, is released, or has what it has read in this step.
JustRead(u) ==
  LET j == worker'[u].job IN
  /\ worker'[u].attempt <= jobs'[j].attempt
  /\ jobs'[j].kind = "index" => worker'[u].text = Source(jobs'[j].of)
QuietStep ==
  /\ active' = active /\ \A c \in Chapters : doc'[c] = doc[c]
  /\ Grown(jobs, jobs') /\ ClaimStep
  /\ \A j \in DOMAIN jobs :
       jobs[j].kind = "index" /\ jobs[j].status \in Unended => jobs'[j].status \in Unended
  /\ \A u \in Workers : worker'[u] = worker[u] \/ worker'[u].pc = "idle" \/ JustRead(u)

LEMMA QuietKeeps ==
  ASSUME TypeOK, TypeOK', IndexInv, blind \subseteq blind', QuietStep
  PROVE  IndexInv'
<1>1. Served'
  BY DEF IndexInv, Served, QuietStep
<1>2. Claims'
  <2> SUFFICES ASSUME NEW u \in Workers, worker'[u].pc # "idle"
               PROVE  worker'[u].attempt <= jobs'[worker'[u].job].attempt
    BY DEF Claims
  <2>1. CASE worker'[u] = worker[u]
    <3> DEFINE j == worker[u].job
    <3>1. /\ j \in DOMAIN jobs /\ j \in DOMAIN jobs' /\ worker[u].attempt <= jobs[j].attempt
          /\ jobs[j].attempt <= jobs'[j].attempt
      BY <2>1 DEF TypeOK, QuietStep, Grown, IndexInv, Claims
    <3>2. /\ worker[u].attempt \in Nat /\ jobs[j].attempt \in Nat /\ jobs'[j].attempt \in Nat
      <4>1. jobs \in Seq(JobRow) /\ jobs' \in Seq(JobRow)
        BY DEF TypeOK
      <4>2. worker[u].attempt \in Nat
        BY <2>1, TypeParts, WorkerType
      <4> QED BY <3>1, <4>1, <4>2, RowType
    <3> QED BY <2>1, <3>1, <3>2
  <2>2. CASE JustRead(u)
    BY <2>2 DEF JustRead
  <2> QED BY <2>1, <2>2 DEF QuietStep
<1>3. Reads'
  <2> SUFFICES ASSUME NEW u \in Workers, NEW c \in Chapters, Indexes(u, c)', ~Overtaken(u)'
               PROVE  worker'[u].text = Source(c)' \/ Another(c, u)'
    BY DEF Reads
  <2> DEFINE j == worker'[u].job
  <2>1. worker'[u].pc # "idle" /\ jobs'[j].kind = "index" /\ jobs'[j].of = c
    BY DEF Indexes
  <2>2. Source(c)' = Source(c)
    BY SourceOfChapter DEF QuietStep
  <2>4. CASE worker'[u] = worker[u]
    <3>1. j \in DOMAIN jobs /\ Indexes(u, c)
      BY <2>1, <2>4 DEF TypeOK, QuietStep, Grown, Indexes
    <3>2. ~Overtaken(u)
      BY <2>1, <2>4, StaysOvertaken DEF QuietStep, IndexInv
    <3>3. worker[u].text = Source(c) \/ Another(c, u)
      BY <3>1, <3>2 DEF IndexInv, Reads
    <3>4. ASSUME Another(c, u) PROVE Another(c, u)'
      BY <2>4, <3>4 DEF Another, QuietStep, Grown
    <3> QED BY <2>2, <2>4, <3>3, <3>4
  <2>5. CASE JustRead(u)
    BY <2>1, <2>2, <2>5 DEF JustRead
  <2> QED BY <2>1, <2>4, <2>5 DEF QuietStep
<1>4. IndexCatchesUp'
  <2> SUFFICES ASSUME "index" \notin blind', NEW c \in Chapters, active'[c] # None,
                      ~Has(jobs', "index", c, Unended)
               PROVE  doc'[c] = [text |-> {<<c, active'[c]>>}, live |-> TRUE]
    BY DEF IndexCatchesUp, Unended
  <2>1. ~Has(jobs, "index", c, Unended)
    BY DEF Has, QuietStep, Grown
  <2> QED BY <2>1 DEF QuietStep, IndexInv, IndexCatchesUp, Unended
<1> QED BY <1>1, <1>2, <1>3, <1>4 DEF IndexInv

\* A change of a chapter leaves a pending indexing row of it.
LEMMA SetActiveKeeps ==
  ASSUME TypeOK, TypeOK', IndexInv, blind \subseteq blind',
         NEW c \in Chapters, NEW v \in Versions, SetActive(c, v)
  PROVE  IndexInv'
<1>1. /\ Has(jobs', "index", c, {"pending"}) /\ Grown(jobs, jobs')
      /\ \A j \in DOMAIN jobs : j \in DOMAIN jobs' /\ jobs'[j] = jobs[j]
  BY SetActiveTypes DEF Grown
<1>2. /\ worker' = worker /\ active' = [active EXCEPT ![c] = v]
      /\ active \in [Chapters -> VersionOrNone]
  BY DEF SetActive, TypeOK
<1>3. \A d \in Chapters : doc'[d] = doc[d]
  <2> SUFFICES ASSUME NEW d \in Chapters PROVE doc'[d] = doc[d]
    OBVIOUS
  <2>1. d \in Sources /\ d \notin Fresh
    BY SourceAssumption DEF Sources, Fresh
  <2>2. doc \in [Sources -> [text : Texts, live : BOOLEAN]]
    BY DEF TypeOK
  <2>3. doc'[d] = [doc[d] EXCEPT !.live = @ /\ d \notin Fresh]
    BY <2>1 DEF SetActive
  <2> QED BY <2>1, <2>2, <2>3
<1>4. Served'
  BY <1>3 DEF IndexInv, Served
<1>5. Claims'
  BY <1>1, <1>2 DEF IndexInv, Claims, TypeOK
<1>6. Reads'
  <2> SUFFICES ASSUME NEW u \in Workers, NEW d \in Chapters, Indexes(u, d)', ~Overtaken(u)'
               PROVE  worker'[u].text = Source(d)' \/ Another(d, u)'
    BY DEF Reads
  <2> DEFINE j == worker[u].job
  <2>1. j \in DOMAIN jobs /\ jobs'[j] = jobs[j] /\ Indexes(u, d)
    BY <1>1, <1>2 DEF Indexes, TypeOK
  <2>2. ~Overtaken(u) /\ jobs[j].status = "running"
    BY <1>2, <2>1 DEF Overtaken
  <2>3. CASE d = c
    <3>1. PICK i \in DOMAIN jobs' : /\ jobs'[i].kind = "index" /\ jobs'[i].of = c
                                    /\ jobs'[i].status = "pending"
      BY <1>1 DEF Has
    <3>2. i # j
      BY <2>1, <2>2, <3>1
    <3> QED BY <1>2, <2>3, <3>1, <3>2 DEF Another, Unended
  <2>4. CASE d # c
    <3>1. Source(d)' = Source(d)
      BY <1>2, <2>4, SourceOfChapter
    <3>2. Another(d, u) => Another(d, u)'
      BY <1>1, <1>2 DEF Another
    <3> QED BY <1>2, <2>1, <2>2, <3>1, <3>2 DEF IndexInv, Reads
  <2> QED BY <2>3, <2>4
<1>7. IndexCatchesUp'
  <2> SUFFICES ASSUME "index" \notin blind', NEW d \in Chapters, active'[d] # None,
                      ~Has(jobs', "index", d, Unended)
               PROVE  doc'[d] = [text |-> {<<d, active'[d]>>}, live |-> TRUE]
    BY DEF IndexCatchesUp, Unended
  <2>1. ~Has(jobs, "index", d, Unended) /\ d # c
    BY <1>1 DEF Has, Unended
  <2> QED BY <1>2, <1>3, <2>1 DEF IndexInv, IndexCatchesUp, Unended
<1> QED BY <1>4, <1>5, <1>6, <1>7 DEF IndexInv

\* A rebuild takes every unfinished row away and adds one for each chapter.
LEMMA RebuildKeeps ==
  ASSUME TypeOK, TypeOK', IndexInv, Rebuild
  PROVE  IndexInv'
<1>1. /\ Grown(jobs, jobs')
      /\ \A j \in DOMAIN jobs : jobs'[j].status # "running"
      /\ \A c \in Indexable : Has(jobs', "index", c, {"pending"})
  BY RebuildTypes
<1>2. worker' = worker /\ active' = active
  BY DEF Rebuild, book
<1>3. Served'
  BY DEF Rebuild, Served, Sources
<1>4. Claims'
  <2> SUFFICES ASSUME NEW u \in Workers, worker[u].pc # "idle"
               PROVE  worker[u].attempt <= jobs'[worker[u].job].attempt
    BY <1>2 DEF Claims
  <2> DEFINE j == worker[u].job
  <2>1. /\ j \in DOMAIN jobs /\ j \in DOMAIN jobs'
        /\ worker[u].attempt <= jobs[j].attempt /\ jobs[j].attempt <= jobs'[j].attempt
    BY <1>1 DEF TypeOK, Grown, IndexInv, Claims
  <2>2. /\ worker[u].attempt \in Nat /\ jobs[j].attempt \in Nat /\ jobs'[j].attempt \in Nat
    <3>1. jobs \in Seq(JobRow) /\ jobs' \in Seq(JobRow)
      BY DEF TypeOK
    <3>2. worker[u].attempt \in Nat
      BY TypeParts, WorkerType
    <3> QED BY <2>1, <3>1, <3>2, RowType
  <2> QED BY <2>1, <2>2
<1>5. Reads'
  BY <1>1, <1>2 DEF Reads, Indexes, Overtaken, TypeOK
<1>6. IndexCatchesUp'
  <2> SUFFICES ASSUME NEW c \in Chapters, active'[c] # None
               PROVE  Has(jobs', "index", c, Unended)
    BY DEF IndexCatchesUp, Unended
  <2> QED BY <1>1, <1>2 DEF Indexable, Has, Unended
<1> QED BY <1>3, <1>4, <1>5, <1>6 DEF IndexInv

\* An indexing job of a source ends: the others of that source are overtaken.
EndStep(j) ==
  LET of == jobs[j].of IN
  /\ active' = active /\ \A c \in Chapters : c # of => doc'[c] = doc[c]
  /\ Grown(jobs, jobs') /\ jobs[j].kind \in {"index", "index_recap"}
  /\ \A i \in DOMAIN jobs \ {j} : jobs'[i] = jobs[i]
  /\ \A u \in Workers : worker'[u].pc = "idle" \/ worker'[u] = Passed(of)[u]

LEMMA EndKeeps ==
  ASSUME TypeOK, TypeOK', IndexInv, blind \subseteq blind', NEW j \in DOMAIN jobs, EndStep(j),
         \A c \in Chapters :
           c = jobs[j].of =>
             /\ doc'[c].text # NoText => doc'[c].live
             /\ "index" \notin blind' /\ active'[c] # None /\ ~Has(jobs', "index", c, Unended)
                  => doc'[c] = [text |-> {<<c, active'[c]>>}, live |-> TRUE]
  PROVE  IndexInv'
<1> DEFINE of == jobs[j].of
<1>1. /\ \A i \in DOMAIN jobs : i \in DOMAIN jobs'
      /\ \A i \in DOMAIN jobs : jobs'[i].kind = jobs[i].kind /\ jobs'[i].of = jobs[i].of
      /\ active' = active
  BY DEF EndStep, Grown
<1>2. Served'
  BY DEF IndexInv, Served, EndStep
<1>3. ASSUME NEW u \in Workers, worker'[u].pc # "idle"
      PROVE  /\ worker'[u] = Passed(of)[u] /\ worker[u].pc # "idle"
             /\ worker'[u].job = worker[u].job /\ worker'[u].attempt = worker[u].attempt
             /\ worker'[u].text = worker[u].text /\ worker[u].job \in DOMAIN jobs
  <2>1. worker'[u] = Passed(of)[u] /\ JobsOK
    BY <1>3, TypeParts DEF EndStep
  <2>2. worker[u].pc # "idle"
    BY <1>3, <2>1, PassedType
  <2> QED BY <2>1, <2>2, PassedType, WorkerType
<1>4. Claims'
  <2> SUFFICES ASSUME NEW u \in Workers, worker'[u].pc # "idle"
               PROVE  worker'[u].attempt <= jobs'[worker'[u].job].attempt
    BY DEF Claims
  <2> DEFINE i == worker[u].job
  <2>1. /\ i \in DOMAIN jobs /\ i \in DOMAIN jobs'
        /\ worker[u].attempt <= jobs[i].attempt /\ jobs[i].attempt <= jobs'[i].attempt
    BY <1>3 DEF EndStep, Grown, IndexInv, Claims
  <2>2. /\ worker[u].attempt \in Nat /\ jobs[i].attempt \in Nat /\ jobs'[i].attempt \in Nat
    <3>1. jobs \in Seq(JobRow) /\ jobs' \in Seq(JobRow)
      BY DEF TypeOK
    <3>2. worker[u].attempt \in Nat
      BY <1>3, TypeParts, WorkerType
    <3> QED BY <2>1, <3>1, <3>2, RowType
  <2> QED BY <1>3, <2>1, <2>2
<1>5. Reads'
  <2> SUFFICES ASSUME NEW u \in Workers, NEW c \in Chapters, Indexes(u, c)', ~Overtaken(u)'
               PROVE  worker'[u].text = Source(c)' \/ Another(c, u)'
    BY DEF Reads
  <2> DEFINE i == worker[u].job
  <2>1. /\ worker'[u].pc # "idle" /\ worker'[u] = Passed(of)[u] /\ worker[u].pc # "idle"
        /\ worker'[u].job = i /\ worker'[u].attempt = worker[u].attempt
        /\ worker'[u].text = worker[u].text /\ i \in DOMAIN jobs
    BY <1>3 DEF Indexes
  <2>2. /\ jobs'[i].status = "running" /\ jobs'[i].attempt = worker[u].attempt
        /\ ~worker'[u].late
    BY <2>1 DEF Overtaken
  <2>3. jobs[i].kind = "index" /\ jobs[i].of = c
    BY <1>1, <2>1 DEF Indexes
  <2>4. c # of /\ worker'[u] = worker[u]
    BY <2>1, <2>2, <2>3 DEF Passed
  <2>5. i # j /\ jobs'[i] = jobs[i]
    BY <2>1, <2>3, <2>4 DEF EndStep
  <2>6. Indexes(u, c) /\ ~Overtaken(u)
    BY <2>1, <2>2, <2>3, <2>4, <2>5 DEF Indexes, Overtaken
  <2>7. worker[u].text = Source(c) \/ Another(c, u)
    BY <2>6 DEF IndexInv, Reads
  <2>8. Another(c, u) => Another(c, u)'
    <3> SUFFICES ASSUME Another(c, u) PROVE Another(c, u)'
      OBVIOUS
    <3>1. PICK k \in DOMAIN jobs : /\ k # i /\ jobs[k].kind = "index" /\ jobs[k].of = c
                                   /\ jobs[k].status \in Unended
      BY DEF Another
    <3>2. k \in DOMAIN jobs' /\ jobs'[k] = jobs[k]
      BY <1>1, <2>4, <3>1 DEF EndStep
    <3> QED BY <2>1, <3>1, <3>2 DEF Another
  <2>9. Source(c)' = Source(c)
    BY <1>1, SourceOfChapter
  <2> QED BY <2>1, <2>7, <2>8, <2>9
<1>6. IndexCatchesUp'
  <2> SUFFICES ASSUME "index" \notin blind', NEW c \in Chapters, active'[c] # None,
                      ~Has(jobs', "index", c, Unended)
               PROVE  doc'[c] = [text |-> {<<c, active'[c]>>}, live |-> TRUE]
    BY DEF IndexCatchesUp, Unended
  <2>1. CASE c = of
    BY <2>1
  <2>2. CASE c # of
    <3>1. ASSUME Has(jobs, "index", c, Unended) PROVE FALSE
      <4>1. PICK k \in DOMAIN jobs : /\ jobs[k].kind = "index" /\ jobs[k].of = c
                                     /\ jobs[k].status \in Unended
        BY <3>1 DEF Has
      <4>2. k \in DOMAIN jobs' /\ jobs'[k] = jobs[k]
        BY <1>1, <2>2, <4>1 DEF EndStep
      <4> QED BY <4>1, <4>2 DEF Has
    <3> QED BY <1>1, <2>2, <3>1 DEF EndStep, IndexInv, IndexCatchesUp, Unended
  <2> QED BY <2>1, <2>2
<1> QED BY <1>2, <1>4, <1>5, <1>6 DEF IndexInv

\* What becomes of the rows in a quiet step.
RowsQuiet ==
  /\ Grown(jobs, jobs') /\ ClaimStep
  /\ \A j \in DOMAIN jobs :
       jobs[j].kind = "index" /\ jobs[j].status \in Unended => jobs'[j].status \in Unended

LEMMA OneRowQuiet ==
  ASSUME Grown(jobs, jobs'), NEW j \in DOMAIN jobs,
         \A i \in DOMAIN jobs \ {j} : jobs'[i] = jobs[i],
         jobs'[j].status = "running" =>
           jobs[j].status = "running" \/ jobs[j].attempt < jobs'[j].attempt,
         jobs[j].kind = "index" /\ jobs[j].status \in Unended => jobs'[j].status \in Unended
  PROVE  RowsQuiet
<1>1. ASSUME NEW i \in DOMAIN jobs, i # j PROVE jobs'[i] = jobs[i]
  BY <1>1
<1>2. ClaimStep
  <2> SUFFICES ASSUME NEW i \in DOMAIN jobs, jobs'[i].status = "running"
               PROVE  jobs[i].status = "running" \/ jobs[i].attempt < jobs'[i].attempt
    BY DEF ClaimStep
  <2>1. CASE i = j
    BY <2>1
  <2>2. CASE i # j
    BY <1>1, <2>2
  <2> QED BY <2>1, <2>2
<1> QED BY <1>1, <1>2 DEF RowsQuiet

LEMMA SameRowsQuiet ==
  ASSUME Grown(jobs, jobs'), \A i \in DOMAIN jobs : jobs'[i] = jobs[i]
  PROVE  RowsQuiet
BY DEF RowsQuiet, ClaimStep

LEMMA StartKeeps ==
  ASSUME TypeOK, TypeOK', IndexInv, blind \subseteq blind',
         NEW w \in Workers, NEW j \in DOMAIN jobs, Start(w, j)
  PROVE  IndexInv'
<1> DEFINE of == jobs[j].of
<1>1. JobsOK /\ jobs \in Seq(JobRow) /\ jobs[j] \in JobRow
  BY TypeParts DEF JobsOK
<1>2. /\ UNCHANGED <<book, memory, writer, config>>
      /\ worker[w].pc = "idle"
  BY DeliveredTypes DEF Start, IndexStart, SummarizeStart, RollupStart
<1>3. Grown(jobs, jobs') /\ active' = active /\ doc' = doc
  BY <1>2, StartTypes DEF book, memory
<1>4. ASSUME NEW s \in JobStatus \ {"done", "running", "deleted"}, EndAtOnce(j, s)
      PROVE  QuietStep
  <2>1. /\ \A i \in DOMAIN jobs \ {j} : jobs'[i] = jobs[i]
        /\ jobs'[j].status = s
    BY <1>1, <1>4, EndsGrows DEF EndAtOnce
  <2>2. s \in Unended /\ s # "running"
    BY DEF JobStatus, Unended
  <2>3. RowsQuiet
    BY <1>3, <2>1, <2>2, OneRowQuiet
  <2> QED BY <1>3, <1>4, <2>3 DEF QuietStep, RowsQuiet, EndAtOnce
<1>5. ASSUME NEW text \in Texts, NEW old \in Texts, Proceed(w, j, text, old),
             jobs[j].kind = "index" => text = Source(of)
      PROVE  QuietStep
  <2>1. /\ \A i \in DOMAIN jobs \ {j} : jobs'[i] = jobs[i]
        /\ jobs'[j].status = "running" /\ jobs'[j].attempt = jobs[j].attempt + 1
    BY <1>1, <1>5, ClaimedGrows DEF Proceed
  <2>2. jobs[j].attempt \in Nat
    BY <1>1, RowType
  <2>3. RowsQuiet
    BY <1>3, <2>1, <2>2, OneRowQuiet DEF Unended
  <2>4. worker'[w] = [pc |-> "loaded", job |-> j, attempt |-> jobs[j].attempt + 1,
                      text |-> text, old |-> old, late |-> FALSE]
    BY <1>1, <1>5, ProceedTypes
  <2>5. jobs'[j].kind = jobs[j].kind /\ jobs'[j].of = of
    BY <1>3 DEF Grown
  <2>6. JustRead(w)
    BY <1>5, <2>1, <2>2, <2>4, <2>5 DEF JustRead
  <2>7. \A u \in Workers : u # w => worker'[u] = worker[u]
    BY <1>1, <1>5 DEF Proceed, JobsOK
  <2> QED BY <1>3, <2>3, <2>6, <2>7 DEF QuietStep, RowsQuiet
<1>6. /\ NoText \in Texts /\ Current \in Texts /\ Current \cap summarized \in Texts
      /\ Source(of) \in Texts /\ recap["book"].text \in Texts
  BY <1>1, TypeParts, RowType, TextTypes DEF NoText, Texts, MemoryOK, Levels
<1>7. "failed" \in JobStatus \ {"done", "running", "deleted"}
  BY DEF JobStatus
<1>8. CASE IndexStart(w, j)
  <2>1. ASSUME (of \in Levels /\ recap[of].stale) \/ doc[of].text = Source(of),
               jobs' = Finished(Claimed(j), j, "done"), worker' = Passed(of)
        PROVE  IndexInv'
    <3>1. "done" \in JobStatus /\ jobs[j].kind \in {"index", "index_recap"}
      BY <1>8 DEF JobStatus, IndexStart, Delivered
    <3>2. \A i \in DOMAIN jobs \ {j} : jobs'[i] = jobs[i]
      BY <1>1, <2>1, <3>1, EndsGrows
    <3>3. EndStep(j)
      BY <1>3, <2>1, <3>1, <3>2 DEF EndStep
    <3>4. ASSUME NEW c \in Chapters, c = of
          PROVE  /\ doc'[c].text # NoText => doc'[c].live
                 /\ "index" \notin blind' /\ active'[c] # None
                      /\ ~Has(jobs', "index", c, Unended)
                    => doc'[c] = [text |-> {<<c, active'[c]>>}, live |-> TRUE]
      <4>1. doc[c].text = Source(c)
        BY <2>1, <3>4, SourceAssumption
      <4>2. doc[c].text # NoText => doc[c].live
        BY DEF IndexInv, Served
      <4>3. active[c] # None => doc[c].text = {<<c, active[c]>>} /\ doc[c].live
        <5> SUFFICES ASSUME active[c] # None
                     PROVE  doc[c].text = {<<c, active[c]>>} /\ doc[c].live
          OBVIOUS
        <5>1. doc[c].text = {<<c, active[c]>>}
          BY <4>1, SourceOfChapter
        <5>2. {<<c, active[c]>>} # {}
          OBVIOUS
        <5> QED BY <4>2, <5>1, <5>2 DEF NoText
      <4>4. doc[c] \in [text : Texts, live : BOOLEAN]
        BY DEF TypeOK, Sources
      <4> QED BY <1>3, <4>2, <4>3, <4>4
    <3> QED BY <3>3, <3>4, EndKeeps
  <2>2. CASE EndAtOnce(j, "failed")
    BY <1>4, <1>7, <2>2, QuietKeeps
  <2>3. CASE Proceed(w, j, Source(of), NoText)
    BY <1>5, <1>6, <2>3, QuietKeeps
  <2> QED BY <1>8, <2>1, <2>2, <2>3 DEF IndexStart
<1>9. CASE SummarizeStart(w, j) \/ RollupStart(w, j)
  <2>1. jobs[j].kind # "index"
    BY <1>9 DEF SummarizeStart, RollupStart, Delivered
  <2>2. ASSUME NEW s \in JobStatus \ {"running"}, EndAtOnce(j, s) PROVE QuietStep
    <3>1. /\ \A i \in DOMAIN jobs \ {j} : jobs'[i] = jobs[i]
          /\ jobs'[j].status = s
      BY <1>1, <2>2, EndsGrows DEF EndAtOnce
    <3>2. RowsQuiet
      BY <1>3, <2>1, <3>1, OneRowQuiet
    <3> QED BY <1>3, <2>2, <3>2 DEF QuietStep, RowsQuiet, EndAtOnce
  <2>3. "done" \in JobStatus \ {"running"} /\ Retried(jobs[j].attempt + 1) \in JobStatus \ {"running"}
    BY RetriedType DEF JobStatus
  <2>4. CASE SummarizeStart(w, j)
    <3>1. \/ EndAtOnce(j, "done") \/ EndAtOnce(j, "failed") \/ Proceed(w, j, NoText, NoText)
      BY <2>4 DEF SummarizeStart
    <3> QED BY <1>5, <1>6, <1>7, <2>1, <2>2, <2>3, <3>1, QuietKeeps
  <2>5. CASE RollupStart(w, j)
    <3>1. \/ EndAtOnce(j, Retried(jobs[j].attempt + 1)) \/ EndAtOnce(j, "failed")
          \/ Proceed(w, j, Current \cap summarized, recap["book"].text)
      BY <2>5 DEF RollupStart
    <3> QED BY <1>5, <1>6, <1>7, <2>1, <2>2, <2>3, <3>1, QuietKeeps
  <2> QED BY <1>9, <2>4, <2>5
<1> QED BY <1>8, <1>9 DEF Start

LEMMA IndexWriteKeeps ==
  ASSUME TypeOK, TypeOK', IndexInv, blind \subseteq blind', NEW w \in Workers, IndexWrite(w)
  PROVE  IndexInv'
<1> DEFINE j == worker[w].job
           of == jobs[j].of
<1>1. /\ worker[w].pc = "loaded" /\ jobs[j].kind \in {"index", "index_recap"}
      /\ doc' = [doc EXCEPT ![of] = [text |-> worker[w].text, live |-> TRUE]]
      /\ jobs' = Finished(jobs, j, "done") /\ worker' = [Passed(of) EXCEPT ![w] = NoJob]
      /\ active' = active
  BY DEF IndexWrite, Holds, book
<1>2. j \in DOMAIN jobs /\ JobsOK /\ jobs \in Seq(JobRow)
  BY <1>1, TypeParts, WorkerType DEF JobsOK
<1>3. Grown(jobs, jobs') /\ \A i \in DOMAIN jobs \ {j} : jobs'[i] = jobs[i]
  <2>1. "done" \in JobStatus
    BY DEF JobStatus
  <2> HIDE DEF j
  <2> QED BY <1>1, <1>2, <2>1, FinishedGrows
<1>4. /\ DOMAIN doc = Sources /\ of \in Sources
      /\ \A c \in Chapters : c # of => doc'[c] = doc[c]
  <2>1. of \in Sources
    BY <1>2, RowType
  <2> QED BY <1>1, <2>1 DEF TypeOK, Sources
<1>5. \A u \in Workers : worker'[u].pc = "idle" \/ worker'[u] = Passed(of)[u]
  BY <1>1, <1>2, PassedType DEF NoJob
<1>6. EndStep(j)
  BY <1>1, <1>3, <1>4, <1>5 DEF EndStep
<1>7. ASSUME NEW c \in Chapters, c = of
      PROVE  /\ doc'[c].text # NoText => doc'[c].live
             /\ "index" \notin blind' /\ active'[c] # None /\ ~Has(jobs', "index", c, Unended)
                => doc'[c] = [text |-> {<<c, active'[c]>>}, live |-> TRUE]
  <2>1. doc'[c] = [text |-> worker[w].text, live |-> TRUE]
    BY <1>1, <1>4, <1>7
  <2>2. jobs[j].kind = "index" /\ Indexes(w, c)
    BY <1>1, <1>2, <1>7, IndexRow DEF Indexes
  <2>3. ASSUME "index" \notin blind', active'[c] # None, ~Has(jobs', "index", c, Unended)
        PROVE  worker[w].text = {<<c, active'[c]>>}
    <3>1. worker[w].text = Source(c) \/ ~Overtaken(w)
      BY <1>7, <2>3 DEF IndexWrite
    <3>2. ~Another(c, w)
      BY <1>3, <2>3 DEF Another, Has, Grown
    <3>3. worker[w].text = Source(c)
      BY <2>2, <3>1, <3>2 DEF IndexInv, Reads
    <3> QED BY <1>1, <2>3, <3>3, SourceOfChapter
  <2>4. doc'[c].live = TRUE
    BY <2>1
  <2> QED BY <2>1, <2>3, <2>4
<1> QED BY <1>2, <1>6, <1>7, EndKeeps

LEMMA QuietJobSteps ==
  ASSUME TypeOK, TypeOK', IndexInv, NEW w \in Workers,
         \/ SummarizeWrite(w) \/ SummarizeRollup(w) \/ RollupWrite(w) \/ Skip(w)
         \/ Raise(w) \/ Kill(w)
  PROVE  QuietStep
<1> DEFINE j == worker[w].job
<1>1. JobsOK /\ jobs \in Seq(JobRow) /\ Grown(jobs, jobs')
  BY TypeParts, JobStepTypes, FaultTypes DEF JobsOK, JobStep
<1>2. worker[w].pc # "idle"
  BY DEF SummarizeWrite, SummarizeRollup, RollupWrite, Skip, Raise, Kill, Holds
<1>3. j \in DOMAIN jobs
  BY <1>1, <1>2, WorkerType
<1>4. active' = active /\ doc' = doc
  BY DEF SummarizeWrite, SummarizeRollup, RollupWrite, Skip, Raise, Kill, book, memory
<1>5. ASSUME Release(w) PROVE \A u \in Workers : worker'[u] = worker[u] \/ worker'[u].pc = "idle"
  BY <1>1, <1>5 DEF Release, NoJob, JobsOK
<1>6. \A i \in DOMAIN jobs : i \in DOMAIN jobs'
  BY <1>1 DEF Grown
<1>7. ASSUME SummarizeWrite(w) PROVE QuietStep
  <2>1. jobs[j].kind = "summarize" /\ jobs' = Finished(jobs, j, "done")
    BY <1>7 DEF SummarizeWrite, Holds
  <2>2. /\ \A i \in DOMAIN jobs \ {j} : jobs'[i] = jobs[i]
        /\ jobs'[j].status # "running"
    <3>1. "done" \in JobStatus
      BY DEF JobStatus
    <3> HIDE DEF j
    <3> QED BY <1>1, <1>3, <2>1, <3>1, FinishedGrows
  <2>3. RowsQuiet
    BY <1>1, <1>3, <2>1, <2>2, OneRowQuiet
  <2>4. \A u \in Workers : u # w => worker'[u] = worker[u]
    BY <1>1, <1>7 DEF SummarizeWrite, JobsOK
  <2>5. worker'[w].job = j /\ worker'[w].attempt = worker[w].attempt
    <3>1. worker[w] \in [pc : {"loaded", "summarized"}, job : Nat, attempt : Nat,
                         text : Texts, old : Texts, late : BOOLEAN]
      BY <1>1, <1>2, WorkerType
    <3>2. worker'[w] = [worker[w] EXCEPT !.pc = "summarized"]
      BY <1>1, <1>7 DEF SummarizeWrite, JobsOK
    <3> QED BY <3>1, <3>2
  <2>6. JustRead(w)
    <3>1. /\ jobs'[j].kind = "summarize" /\ jobs[j].attempt <= jobs'[j].attempt
          /\ worker[w].attempt <= jobs[j].attempt
      BY <1>1, <1>2, <1>3, <2>1 DEF Grown, IndexInv, Claims
    <3>2. worker[w].attempt \in Nat /\ jobs[j].attempt \in Nat /\ jobs'[j].attempt \in Nat
      <4>1. jobs' \in Seq(JobRow) /\ j \in DOMAIN jobs'
        BY <1>3, <1>6 DEF TypeOK
      <4> QED BY <1>1, <1>2, <1>3, <4>1, WorkerType, RowType
    <3> QED BY <2>5, <3>1, <3>2 DEF JustRead
  <2> QED BY <1>4, <2>3, <2>4, <2>6 DEF QuietStep, RowsQuiet
<1>8. ASSUME SummarizeRollup(w) PROVE QuietStep
  <2>1. \A i \in DOMAIN jobs : jobs'[i] = jobs[i]
    <3>1. CASE jobs[j].of = Closing
      <4>1. Job("rollup", jobs[j].of, None) \in JobRow
        BY <3>1, NewRows, SourceAssumption
      <4> QED BY <1>1, <1>8, <3>1, <4>1, EnqueueGrows DEF SummarizeRollup
    <3>2. CASE jobs[j].of # Closing
      BY <1>8, <3>2 DEF SummarizeRollup
    <3> QED BY <3>1, <3>2
  <2> QED BY <1>1, <1>4, <1>5, <1>8, <2>1, SameRowsQuiet DEF SummarizeRollup, QuietStep, RowsQuiet
<1>9. ASSUME RollupWrite(w) PROVE QuietStep
  <2> DEFINE ks == Enqueue(jobs, "index_recap", "volume")
             ls == Enqueue(ks, "index_recap", "book")
  <2>1. /\ Job("index_recap", "volume", None) \in JobRow
        /\ Job("index_recap", "book", None) \in JobRow
    BY NewRows, SourceAssumption DEF Levels
  <2>2. ks \in Seq(JobRow) /\ \A i \in DOMAIN jobs : i \in DOMAIN ks /\ ks[i] = jobs[i]
    BY <1>1, <2>1, EnqueueGrows DEF Grown
  <2> HIDE DEF ks
  <2>3. ls \in Seq(JobRow) /\ \A i \in DOMAIN ks : i \in DOMAIN ls /\ ls[i] = ks[i]
    BY <2>1, <2>2, EnqueueGrows DEF Grown
  <2>4. jobs' = Finished(ls, j, "done") /\ jobs[j].kind = "rollup"
    BY <1>9 DEF RollupWrite, Holds, ls, ks
  <2> HIDE DEF ls, j
  <2>5. /\ \A i \in DOMAIN jobs \ {j} : jobs'[i] = jobs[i]
        /\ jobs'[j].status # "running"
    <3>1. "done" \in JobStatus
      BY DEF JobStatus
    <3>2. /\ \A i \in DOMAIN ls \ {j} : jobs'[i] = ls[i]
          /\ jobs'[j].status # "running"
      BY <1>3, <2>2, <2>3, <2>4, <3>1, FinishedGrows
    <3> QED BY <2>2, <2>3, <3>2
  <2>6. RowsQuiet
    BY <1>1, <1>3, <2>4, <2>5, OneRowQuiet
  <2> QED BY <1>4, <1>5, <1>9, <2>6 DEF RollupWrite, QuietStep, RowsQuiet
<1>10. ASSUME Skip(w) \/ Kill(w) PROVE QuietStep
  <2>1. RowsQuiet
    BY <1>1, <1>10, SameRowsQuiet DEF Skip, Kill
  <2> QED BY <1>4, <1>5, <1>10, <2>1 DEF Skip, Kill, QuietStep, RowsQuiet
<1>11. ASSUME Raise(w) PROVE QuietStep
  <2> DEFINE s == Retried(jobs[j].attempt)
  <2>1. Release(w) /\ jobs' = Finished(jobs, j, s)
    BY <1>11 DEF Raise, Settle
  <2>2. s \in JobStatus \ {"done", "running", "deleted"}
    BY RetriedType
  <2>3. /\ \A i \in DOMAIN jobs \ {j} : jobs'[i] = jobs[i]
        /\ jobs'[j].status = IF jobs[j].status = "deleted" THEN "deleted" ELSE s
    <3> HIDE DEF j, s
    <3> QED BY <1>1, <1>3, <2>1, <2>2, FinishedGrows
  <2>4. RowsQuiet
    <3> HIDE DEF s
    <3> QED BY <1>1, <1>3, <2>2, <2>3, OneRowQuiet DEF JobStatus, Unended
  <2> QED BY <1>4, <1>5, <2>1, <2>4 DEF QuietStep, RowsQuiet
<1> QED BY <1>7, <1>8, <1>9, <1>10, <1>11

LEMMA QuietOtherSteps ==
  ASSUME TypeOK, TypeOK', Sweep \/ Recompute \/ SaveSettings
  PROVE  QuietStep
<1>1. jobs \in Seq(JobRow)
  BY DEF TypeOK
<1>2. active' = active /\ doc' = doc /\ worker' = worker
  BY DEF Sweep, Rearm, Recompute, SaveSettings, book, memory
<1>3. CASE Sweep
  <2>1. PICK j \in DOMAIN jobs : Rearm(j)
    BY <1>3 DEF Sweep
  <2>2. Grown(jobs, jobs')
    BY <2>1, RearmTypes
  <2>3. /\ \A i \in DOMAIN jobs \ {j} : jobs'[i] = jobs[i]
        /\ jobs'[j].status = "pending"
    BY <1>1, <2>1, StatusGrows, "pending" \in JobStatus DEF Rearm, JobStatus
  <2>4. RowsQuiet
    BY <2>2, <2>3, OneRowQuiet DEF Unended
  <2> QED BY <1>2, <2>4 DEF QuietStep, RowsQuiet
<1>4. CASE Recompute
  <2>1. Job("rollup", Closing, None) \in JobRow
    BY NewRows, SourceAssumption
  <2>2. Grown(jobs, jobs') /\ \A i \in DOMAIN jobs : jobs'[i] = jobs[i]
    BY <1>1, <1>4, <2>1, AppendGrows DEF Recompute
  <2> QED BY <1>2, <2>2, SameRowsQuiet DEF QuietStep, RowsQuiet
<1>5. CASE SaveSettings
  <2>1. RowsQuiet
    BY <1>5, SaveSettingsTypes DEF RowsQuiet, ClaimStep, Unended
  <2> QED BY <1>2, <2>1 DEF QuietStep, RowsQuiet
<1> QED BY <1>3, <1>4, <1>5

LEMMA IndexInvStep ==
  ASSUME TypeOK, IndexInv, [Next]_vars
  PROVE  IndexInv'
<1>1. TypeOK' /\ blind \subseteq blind'
  <2>1. TypeOK'
    BY NextTypes DEF vars, book, memory, config, TypeOK
  <2> QED BY <2>1, BlindGrows
<1>2. jobs \in Seq(JobRow)
  BY DEF TypeOK
<1>3. ASSUME jobs' = jobs, worker' = worker, active' = active, doc' = doc PROVE IndexInv'
  <2>1. Grown(jobs, jobs')
    BY <1>2, <1>3, GrownNot
  <2>2. RowsQuiet
    BY <1>3, <2>1, SameRowsQuiet
  <2>3. QuietStep
    BY <1>3, <2>2 DEF QuietStep, RowsQuiet
  <2> QED BY <1>1, <2>3, QuietKeeps
<1>4. ASSUME NEW c \in Chapters, NEW v \in Versions, SetActive(c, v) PROVE IndexInv'
  BY <1>1, <1>4, SetActiveKeeps
<1>5. CASE Write
  <2>1. ASSUME NEW w \in Writers, WriterStep(w) PROVE IndexInv'
    <3>1. writer[w].pc = "loaded" /\ SetActive(writer[w].ch, writer[w].ver)
      BY <2>1 DEF WriterStep, EditCommit, ApproveCommit, WritebackCommit
    <3>2. writer[w].ch \in Chapters /\ writer[w].ver \in Versions
      BY <3>1, TypeParts, WriterType
    <3> QED BY <1>4, <3>1, <3>2
  <2>2. ASSUME NEW c \in Chapters, NEW v \in Versions, Put(c, v) PROVE IndexInv'
    BY <1>4, <2>2 DEF Put
  <2>3. ASSUME ~\E w \in Writers : WriterStep(w), ~\E c \in Chapters, v \in Versions : Put(c, v)
        PROVE  jobs' = jobs /\ worker' = worker /\ active' = active /\ doc' = doc
    BY <1>5, <2>3 DEF Write, EditBegin, Propose, ApproveBegin, RejectBegin, RejectCommit, WritebackBegin, Abort,
       Begin, book, memory
  <2> QED BY <1>3, <2>1, <2>2, <2>3
<1>6. ASSUME NEW w \in Workers, JobStep(w) \/ Raise(w) \/ Kill(w) PROVE IndexInv'
  <2>1. CASE IndexWrite(w)
    BY <1>1, <2>1, IndexWriteKeeps
  <2>2. CASE ~IndexWrite(w)
    BY <1>1, <1>6, <2>2, QuietJobSteps, QuietKeeps DEF JobStep
  <2> QED BY <2>1, <2>2
<1>7. ASSUME NEW w \in Workers, NEW j \in DOMAIN jobs, Start(w, j) PROVE IndexInv'
  BY <1>1, <1>7, StartKeeps
<1>8. CASE Sweep \/ Recompute \/ SaveSettings
  BY <1>1, <1>8, QuietOtherSteps, QuietKeeps
<1>9. CASE Rebuild
  BY <1>1, <1>9, RebuildKeeps
<1>10. CASE UNCHANGED vars
  BY <1>3, <1>10 DEF vars, book, memory
<1> QED BY <1>5, <1>6, <1>7, <1>8, <1>9, <1>10 DEF Next

\* A chapter none of whose indexing jobs is open or failed is indexed at its active
\* version, unless an indexing job wrote what it had read before another one, which
\* read the chapter later, came to its end.
THEOREM IndexIsCurrent == Spec => []IndexCatchesUp
<1>1. Init => IndexInv
  BY DEF Init, IndexInv, Served, Claims, Reads, Indexes, IndexCatchesUp, Sources, NoJob, NoText
<1>2. TypeOK /\ IndexInv /\ [Next]_vars => IndexInv'
  BY IndexInvStep
<1>3. IndexInv => IndexCatchesUp
  BY DEF IndexInv
<1> QED BY <1>1, <1>2, <1>3, TypeCorrect, PTL DEF Spec
=============================================================================
