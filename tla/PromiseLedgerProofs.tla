------------------------ MODULE PromiseLedgerProofs ------------------------
(***************************************************************************)
(* Proofs about PromiseLedger, for any promises, runs, chapters and        *)
(* quotes, any table to start from and any number of edits and faults.     *)
(***************************************************************************)
EXTENDS PromiseLedger, SequenceTheorems, TLAPS

(***************************************************************************)
(* Rows.                                                                   *)
(***************************************************************************)

\* Evidence that is counted once leaves a sound row sound.
LEMMA FulfilIsSound ==
  ASSUME NEW row \in Sound, NEW f \in Fulfilments
  PROVE  Fulfil(row, f) \in Sound
<1> DEFINE list == IF Counted(row.fulfilments, f) THEN row.fulfilments
                   ELSE Append(row.fulfilments, f)
<1>1. row \in Rows /\ row.fulfilments \in Seq(Fulfilments)
  BY DEF Sound, Rows
<1>2. list \in Seq(Fulfilments)
  BY <1>1
<1>3. \A j, k \in DOMAIN list : list[j] = list[k] => j = k
  <2>1. CASE Counted(row.fulfilments, f)
    BY <2>1 DEF Sound, Once
  <2>2. CASE ~Counted(row.fulfilments, f)
    <3>1. \A j \in DOMAIN row.fulfilments : row.fulfilments[j] # f
      BY <2>2 DEF Counted
    <3>2. list = Append(row.fulfilments, f)
      BY <2>2
    <3>3. DOMAIN row.fulfilments = 1..Len(row.fulfilments) /\ Len(row.fulfilments) \in Nat
      BY <1>1
    <3>4. /\ DOMAIN list = 1..Len(row.fulfilments) + 1
          /\ list[Len(row.fulfilments) + 1] = f
          /\ \A j \in DOMAIN row.fulfilments : list[j] = row.fulfilments[j]
      BY <1>1, <3>2, <3>3
    <3> QED BY <3>1, <3>3, <3>4 DEF Sound, Once
  <2> QED BY <2>1, <2>2
<1> HIDE DEF list
<1>4. Fulfil(row, f).fulfilments = list
  BY <1>1 DEF Fulfil, list, Rows
<1>5. Fulfil(row, f) \in Rows
  <2> DEFINE settled == IF Len(list) >= row.required /\ Pending(row) THEN "resolved"
                        ELSE IF row.status = "open" THEN "developing" ELSE row.status
  <2>1. settled \in Statuses
    BY <1>1 DEF Rows, Statuses
  <2>2. Fulfil(row, f) = [row EXCEPT !.fulfilments = list, !.version = @ + 1,
                                     !.status = settled]
    BY DEF Fulfil, list
  <2> HIDE DEF settled
  <2>3. row.version + 1 \in Nat \ {0}
    BY <1>1 DEF Rows
  <2> QED BY <1>1, <1>2, <2>1, <2>2, <2>3 DEF Rows
<1> QED BY <1>3, <1>4, <1>5 DEF Sound, Once

\* A change of version, status or number required leaves the fulfilments alone.
LEMMA ChangedIsSound ==
  ASSUME NEW row \in Sound, NEW s \in Statuses, NEW v \in Nat \ {0}, NEW n \in Nat \ {0},
         NEW list \in Seq(Fulfilments),
         \A j, k \in DOMAIN list : list[j] = list[k] => j = k
  PROVE  [key |-> row.key, status |-> s, version |-> v, fulfilments |-> list,
          required |-> n] \in Sound
BY DEF Sound, Rows, Once

LEMMA NewIsSound == ASSUME NEW key \in Keys PROVE NewRow(key) \in Sound
<1>1. <<>> \in Seq(Fulfilments) /\ DOMAIN <<>> = {}
  OBVIOUS
<1> QED BY <1>1 DEF NewRow, Sound, Rows, Once, Statuses

LEMMA BumpedIsSound ==
  ASSUME NEW row \in Sound
  PROVE  Bumped(row) \in Sound /\ Bumped(row).fulfilments = row.fulfilments
<1>1. Bumped(row) \in Rows /\ Bumped(row).fulfilments = row.fulfilments
  BY DEF Bumped, Sound, Rows
<1> QED BY <1>1 DEF Sound, Once

(***************************************************************************)
(* Tables.                                                                 *)
(***************************************************************************)

\* A table given row by row.
LEMMA TableOf ==
  ASSUME NEW S, NEW t \in Seq(S), NEW f, f = [i \in DOMAIN t |-> f[i]],
         \A i \in DOMAIN t : f[i] \in S
  PROVE  f \in Seq(S) /\ Len(f) = Len(t)
BY SeqDef

\* A row changed, a row added.
LEMMA OneRow ==
  ASSUME NEW S, NEW t \in Seq(S), NEW i \in DOMAIN t, NEW row \in S
  PROVE  [t EXCEPT ![i] = row] \in Seq(S) /\ Len([t EXCEPT ![i] = row]) = Len(t)
BY ExceptSeq

LEMMA AddedRow ==
  ASSUME NEW S, NEW t \in Seq(S), NEW row \in S
  PROVE  Append(t, row) \in Seq(S) /\ Len(t) <= Len(Append(t, row))
BY AppendProperties, LenProperties

Txs == {t \in [seen : Seq(Sound), out : Seq(Sound), values : SUBSET Nat] :
          Len(t.seen) <= Len(t.out) /\ t.values \subseteq DOMAIN t.seen}
FormOK == form = NoForm \/ (form.id \in DOMAIN rows /\ form.row \in Sound)
TableOK == rows \in Seq(Sound) /\ tx \in [Runs -> Txs] /\ FormOK /\ left \in Bounds

LEMMA NoTxOK == NoTx \in Txs
<1>1. <<>> \in Seq(Sound) /\ Len(<<>>) = 0
  OBVIOUS
<1> QED BY <1>1 DEF NoTx, Txs

\* A transaction writes rows that are sound, whoever wrote the table in between, and the
\* table does not shrink.
LEMMA FlushedIsSound ==
  ASSUME TableOK, NEW t \in Txs
  PROVE  Flushed(t) \in Seq(Sound) /\ DOMAIN rows \subseteq DOMAIN Flushed(t)
<1> DEFINE upd == [i \in DOMAIN rows |-> Updated(t, i)]
           new == SubSeq(t.out, Len(t.seen) + 1, Len(t.out))
<1>1. /\ rows \in Seq(Sound) /\ t.seen \in Seq(Sound) /\ t.out \in Seq(Sound)
      /\ Len(t.seen) \in Nat /\ Len(t.out) \in Nat /\ Len(t.seen) <= Len(t.out)
      /\ Len(rows) \in Nat /\ DOMAIN rows = 1..Len(rows)
  BY DEF TableOK, Txs
<1>2. ASSUME NEW i \in DOMAIN rows PROVE Updated(t, i) \in Sound
  <2>1. rows[i] \in Sound
    BY <1>1
  <2>2. CASE i > Len(t.seen) \/ t.out[i] = t.seen[i]
    BY <2>1, <2>2 DEF Updated
  <2>3. CASE ~(i > Len(t.seen) \/ t.out[i] = t.seen[i])
    <3>1. t.out[i] \in Sound
      BY <1>1, <2>3
    <3> DEFINE s == IF t.out[i].status = t.seen[i].status THEN rows[i].status
                    ELSE t.out[i].status
               list == IF i \in t.values THEN t.out[i].fulfilments ELSE rows[i].fulfilments
               n == IF i \in t.values THEN t.out[i].required ELSE rows[i].required
    <3>2. s \in Statuses /\ n \in Nat \ {0} /\ list \in Seq(Fulfilments)
      BY <2>1, <3>1 DEF Sound, Rows
    <3>3. \A j, k \in DOMAIN list : list[j] = list[k] => j = k
      BY <2>1, <3>1 DEF Sound, Once
    <3>4. t.out[i].version \in Nat \ {0}
      BY <3>1 DEF Sound, Rows
    <3>5. Updated(t, i) = [key |-> rows[i].key, status |-> s, version |-> t.out[i].version,
                           fulfilments |-> list, required |-> n]
      BY <2>3 DEF Updated
    <3> HIDE DEF s, list, n
    <3>6. [key |-> rows[i].key, status |-> s, version |-> t.out[i].version,
           fulfilments |-> list, required |-> n] \in Sound
      BY <2>1, <3>2, <3>3, <3>4, ChangedIsSound
    <3> QED BY <3>5, <3>6
  <2> QED BY <2>2, <2>3
<1>3. upd \in Seq(Sound) /\ Len(upd) = Len(rows)
  BY <1>1, <1>2, SeqDef
<1>4. new \in Seq(Sound)
  BY <1>1, SubSeqProperties
<1> HIDE DEF upd, new
<1>5. Flushed(t) = upd \o new
  BY DEF Flushed, upd, new
<1>6. /\ upd \o new \in Seq(Sound)
      /\ Len(upd \o new) = Len(rows) + Len(new) /\ Len(new) \in Nat
  <2>1. Len(new) \in Nat
    BY <1>4, LenProperties
  <2>2. upd \o new \in Seq(Sound) /\ Len(upd \o new) = Len(upd) + Len(new)
    BY <1>3, <1>4, ConcatProperties
  <2> QED BY <1>3, <2>1, <2>2
<1>7. DOMAIN (upd \o new) = 1..Len(rows) + Len(new)
  BY <1>6, LenProperties
<1> QED BY <1>1, <1>5, <1>6, <1>7

(***************************************************************************)
(* What the parts of an action keep.                                       *)
(***************************************************************************)

LEMMA SpendKeeps ==
  ASSUME left \in Bounds, NEW what \in {"edits", "faults"}, Spend(what)
  PROVE  left' \in Bounds
BY DEF Spend, Bounds

LEMMA ReadsKeep ==
  ASSUME TableOK, NEW r \in Runs, NEW out \in Seq(Sound), NEW values,
         Len(rows) <= Len(out), values \subseteq DOMAIN rows, Reads(r, out, values)
  PROVE  TableOK'
<1> DEFINE t == [seen |-> rows, out |-> out, values |-> values]
<1>1. DOMAIN rows \subseteq Nat
  BY DEF TableOK
<1>2. t \in Txs
  BY <1>1 DEF TableOK, Txs
<1>3. tx' = [tx EXCEPT ![r] = t]
  BY DEF Reads
<1> HIDE DEF t
<1>4. tx' \in [Runs -> Txs]
  BY <1>2, <1>3 DEF TableOK
<1> QED BY <1>4 DEF Reads, TableOK, FormOK

LEMMA EndsKeep ==
  ASSUME TableOK, NEW r \in Runs, Commits(r) \/ Fails(r), Ends(r)
  PROVE  TableOK'
<1>1. tx' \in [Runs -> Txs]
  BY NoTxOK DEF TableOK, Ends
<1>2. rows' \in Seq(Sound) /\ DOMAIN rows \subseteq DOMAIN rows'
  <2>1. CASE Commits(r)
    <3>1. tx[r] \in Txs
      BY DEF TableOK
    <3>2. rows' = Flushed(tx[r])
      BY <2>1 DEF Commits
    <3> QED BY <3>1, <3>2, FlushedIsSound
  <2>2. CASE Fails(r)
    BY <2>2 DEF Fails, TableOK
  <2> QED BY <2>1, <2>2
<1>3. left' \in Bounds
  BY SpendKeeps DEF Commits, Fails, TableOK
<1>4. FormOK'
  BY <1>2 DEF Ends, FormOK, TableOK
<1> QED BY <1>1, <1>2, <1>3, <1>4 DEF TableOK

LEMMA SavesKeep ==
  ASSUME TableOK, form.id # 0, NEW new \in Sound,
         Saves(new)
  PROVE  TableOK'
<1>1. form.id \in DOMAIN rows
  BY DEF TableOK, FormOK, NoForm
<1>2. rows' \in Seq(Sound)
  BY <1>1, OneRow DEF TableOK, Saves
<1>3. left' \in Bounds /\ tx' \in [Runs -> Txs] /\ FormOK'
  BY SpendKeeps DEF Saves, TableOK, FormOK
<1> QED BY <1>2, <1>3 DEF TableOK

\* The objects of a transaction that changes some of the rows it reads.
LEMMA ChangedRows ==
  ASSUME rows \in Seq(Sound), NEW ids, NEW f, f = [i \in ids \cap DOMAIN rows |-> f[i]],
         \A i \in ids \cap DOMAIN rows : f[i] \in Sound
  PROVE  LET out == [i \in DOMAIN rows |-> IF i \in ids THEN f[i] ELSE rows[i]]
         IN  out \in Seq(Sound) /\ Len(out) = Len(rows)
<1> DEFINE out == [i \in DOMAIN rows |-> IF i \in ids THEN f[i] ELSE rows[i]]
<1>1. \A i \in DOMAIN rows : out[i] \in Sound
  BY LenProperties
<1> HIDE DEF out
<1>2. out = [i \in DOMAIN rows |-> out[i]]
  BY DEF out
<1>3. out \in Seq(Sound) /\ Len(out) = Len(rows)
  BY <1>1, <1>2, TableOf
<1> QED BY <1>3 DEF out

(***************************************************************************)
(* What each run has done.                                                 *)
(***************************************************************************)

\* What a verification marks it has committed, and what it reports as missed covers the
\* rest of what was due.
Fits(x) ==
  /\ x.pc = "verified" => x.fulfilled \subseteq x.landed
  /\ x.reported => x.pc # "start" /\ x.due \ x.landed \subseteq x.missed
RunOK == run \in [Runs -> RunStates] /\ \A r \in Runs : Fits(run[r])

LEMMA OneRun ==
  ASSUME RunOK, NEW r \in Runs, NEW new \in RunStates, Fits(new),
         run' = [run EXCEPT ![r] = new]
  PROVE  RunOK'
BY DEF RunOK

LEMMA MovesKeep ==
  ASSUME RunOK, NEW r \in Runs, NEW from \in PCs, NEW to \in PCs \ {"start", "verified"},
         Moves(r, from, to)
  PROVE  RunOK'
<1> DEFINE new == [run[r] EXCEPT !.pc = to]
<1>1. run[r] \in RunStates /\ Fits(run[r])
  BY DEF RunOK
<1>2. new \in RunStates
  BY <1>1 DEF RunStates
<1>3. Fits(new)
  BY <1>1 DEF Fits, RunStates
<1>4. run' = [run EXCEPT ![r] = new]
  BY DEF Moves
<1> HIDE DEF new
<1> QED BY <1>2, <1>3, <1>4, OneRun

LEMMA RunInit == Init => RunOK
<1>1. SUFFICES ASSUME Init PROVE RunOK
  OBVIOUS
<1>2. "start" \in PCs
  BY DEF PCs
<1>3. ASSUME NEW r \in Runs PROVE run[r] \in RunStates /\ Fits(run[r])
  BY <1>1, <1>2 DEF Init, RunStates, Fits
<1>4. run = [r \in Runs |-> run[r]]
  BY <1>1 DEF Init
<1> QED BY <1>3, <1>4 DEF RunOK

LEMMA RunStep == RunOK /\ [Next]_vars => RunOK'
<1>1. SUFFICES ASSUME RunOK, [Next]_vars PROVE RunOK'
  OBVIOUS
<1>2. ASSUME NEW r \in Runs, Step(r) PROVE RunOK'
  <2> DEFINE old == run[r]
  <2>0. old \in RunStates /\ Fits(old)
    BY <1>1 DEF RunOK
  <2> SUFFICES \/ RunOK'
               \/ \E new \in RunStates : Fits(new) /\ run' = [run EXCEPT ![r] = new]
    BY <1>1, OneRun
  <2>1. CASE Contract(r)
    <3>1. PICK due \in SUBSET Keys :
            run' = [run EXCEPT ![r].pc = "rewrite", ![r].due = due]
      BY <2>1 DEF Contract
    <3> DEFINE new == [old EXCEPT !.pc = "rewrite", !.due = due]
    <3>2. new \in RunStates
      BY <2>0 DEF RunStates, PCs
    <3>3. Fits(new)
      BY <2>0, <2>1 DEF Contract, Fits, RunStates
    <3>4. run' = [run EXCEPT ![r] = new]
      BY <1>1, <3>1 DEF RunOK
    <3> QED BY <3>2, <3>3, <3>4
  <2>2. CASE NoRewrite(r) \/ RewriteRead(r) \/ RewriteCommit(r)
    BY <1>1, <2>2, MovesKeep DEF NoRewrite, RewriteRead, RewriteCommit, PCs
  <2>3. CASE VerifyRead(r)
    <3>1. PICK keys \in SUBSET old.due \ {{}} : \E quote \in [keys -> Quotes] :
            run' = [run EXCEPT ![r].pc = "verifying",
                               ![r].fulfilled = {rows[i].key : i \in Judged(keys)}]
      BY <2>3 DEF VerifyRead
    <3> DEFINE marked == {rows[i].key : i \in Judged(keys)}
               new == [old EXCEPT !.pc = "verifying", !.fulfilled = marked]
    <3>2. marked \in SUBSET Keys
      BY <2>0, <3>1 DEF Judged, RunStates
    <3> HIDE DEF marked
    <3>3. new \in RunStates
      BY <2>0, <3>2 DEF RunStates, PCs
    <3>4. Fits(new)
      BY <2>0, <2>3 DEF VerifyRead, Fits, RunStates
    <3>5. run' = [run EXCEPT ![r] = new]
      BY <1>1, <3>1 DEF RunOK, marked
    <3> QED BY <3>3, <3>4, <3>5
  <2>4. CASE VerifyCommit(r)
    <3> DEFINE new == [old EXCEPT !.pc = "verified", !.landed = @ \cup old.fulfilled]
    <3>1. new \in RunStates
      BY <2>0 DEF RunStates, PCs
    <3>2. Fits(new)
      BY <2>0, <2>4 DEF VerifyCommit, Fits, RunStates
    <3>3. run' = [run EXCEPT ![r] = new]
      BY <1>1, <2>4 DEF RunOK, VerifyCommit
    <3> QED BY <3>1, <3>2, <3>3
  <2>5. CASE VerifyFail(r) \/ VerifyNone(r)
    <3> DEFINE new == [old EXCEPT !.pc = "verified", !.fulfilled = {}]
    <3>1. new \in RunStates
      BY <2>0 DEF RunStates, PCs
    <3>2. Fits(new)
      BY <2>0, <2>5 DEF VerifyFail, VerifyNone, Fits, RunStates
    <3>3. run' = [run EXCEPT ![r] = new]
      BY <1>1, <2>5 DEF RunOK, VerifyFail, VerifyNone
    <3> QED BY <3>1, <3>2, <3>3
  <2>6. CASE VerifySkip(r)
    BY <1>1, <2>6, MovesKeep DEF VerifySkip, PCs
  <2>7. CASE Report(r)
    <3> DEFINE new == [old EXCEPT !.pc = "register", !.reported = TRUE,
                                  !.missed = old.due \ old.fulfilled, !.fulfilled = {}]
    <3>1. new \in RunStates
      BY <2>0 DEF RunStates, PCs
    <3>2. Fits(new)
      BY <2>0, <2>7 DEF Report, Fits, RunStates
    <3>3. run' = [run EXCEPT ![r] = new]
      BY <1>1, <2>7 DEF RunOK, Report
    <3> QED BY <3>1, <3>2, <3>3
  <2>8. CASE RegisterRead(r) \/ RegisterNone(r) \/ RegisterCommit(r)
    BY <1>1, <2>8, MovesKeep DEF RegisterRead, RegisterNone, RegisterCommit, PCs
  <2>9. CASE SyncRead(r) \/ SyncNone(r) \/ SyncCommit(r)
    BY <1>1, <2>9, MovesKeep DEF SyncRead, SyncNone, SyncCommit, PCs
  <2>10. CASE Die(r)
    <3> DEFINE to == CASE old.pc = "rewriting" -> "rewrite"
                       [] old.pc \in {"verifying", "verified"} -> "verify"
                       [] old.pc = "registering" -> "register"
                       [] OTHER -> "done"
               new == [old EXCEPT !.pc = to]
    <3>1. to \in PCs \ {"start", "verified"}
      BY DEF PCs
    <3>2. run' = [run EXCEPT ![r] = new]
      BY <1>1, <2>10 DEF Die, RunOK
    <3> HIDE DEF to
    <3>3. new \in RunStates /\ Fits(new)
      BY <2>0, <3>1 DEF RunStates, Fits
    <3> QED BY <3>2, <3>3
  <2> QED BY <1>2, <2>1, <2>2, <2>3, <2>4, <2>5, <2>6, <2>7, <2>8, <2>9, <2>10 DEF Step
<1>3. ASSUME UNCHANGED run PROVE RunOK'
  BY <1>1, <1>3 DEF RunOK
<1>4. ASSUME NEW i \in DOMAIN rows, Look(i) PROVE UNCHANGED run
  BY <1>4 DEF Look
<1>5. ASSUME Patch \/ ChangeStatus \/ ToggleExclude \/ Pin PROVE UNCHANGED run
  BY <1>5 DEF Patch, ChangeStatus, ToggleExclude, Pin, Saves
<1>6. ASSUME NEW key \in Keys, Create(key) PROVE UNCHANGED run
  BY <1>6 DEF Create
<1>7. ASSUME UNCHANGED vars PROVE UNCHANGED run
  BY <1>7 DEF vars
<1> QED BY <1>1, <1>2, <1>3, <1>4, <1>5, <1>6, <1>7 DEF Next

\* A promise that was due and has no fulfilment on record is reported as missed.
THEOREM SafeNoSilentMiss == Spec => []NoSilentMiss
<1>1. RunOK => NoSilentMiss
  BY DEF RunOK, NoSilentMiss, Fits
<1> QED BY <1>1, RunInit, RunStep, PTL DEF Spec

(***************************************************************************)
(* The table under the steps of the runs and the requests of the user.     *)
(***************************************************************************)

LEMMA TableInit == Init => TableOK
<1>1. SUFFICES ASSUME Init PROVE TableOK
  OBVIOUS
<1>2. PICK s \in Scenarios : rows = s.rows /\ left = s.bounds
  BY <1>1 DEF Init
<1>3. rows \in Seq(Sound) /\ left \in Bounds
  BY <1>2, LedgerAssumption
<1>4. tx \in [Runs -> Txs] /\ FormOK
  BY <1>1, NoTxOK DEF Init, FormOK
<1> QED BY <1>3, <1>4 DEF TableOK

\* Each operation of a run reads the table into objects that are sound.
LEMMA RewriteKeeps ==
  ASSUME TableOK, NEW r \in Runs, RewriteRead(r)
  PROVE  TableOK'
<1>1. PICK changed \in SUBSET Quoting(r) \ {{}} :
        Reads(r, [i \in DOMAIN rows |-> IF i \in changed THEN Bumped(rows[i]) ELSE rows[i]],
              changed)
  BY DEF RewriteRead
<1> DEFINE f == [i \in changed \cap DOMAIN rows |-> Bumped(rows[i])]
           out == [i \in DOMAIN rows |-> IF i \in changed THEN f[i] ELSE rows[i]]
<1>2. changed \subseteq DOMAIN rows
  BY DEF Quoting
<1>3. out = [i \in DOMAIN rows |-> IF i \in changed THEN Bumped(rows[i]) ELSE rows[i]]
  OBVIOUS
<1>4. \A i \in changed \cap DOMAIN rows : f[i] \in Sound
  BY BumpedIsSound DEF TableOK
<1>5. f = [i \in changed \cap DOMAIN rows |-> f[i]]
  OBVIOUS
<1> HIDE DEF f
<1>6. out \in Seq(Sound) /\ Len(out) = Len(rows)
  BY <1>4, <1>5, ChangedRows DEF TableOK
<1> HIDE DEF out
<1>7. Len(rows) <= Len(out)
  BY <1>6, LenProperties DEF TableOK
<1> QED BY <1>1, <1>2, <1>3, <1>6, <1>7, ReadsKeep

\* What the verification's transaction makes of the rows that are judged, and which of them
\* it writes the evidence of.
Judgement(ids, chapter, quote) ==
  [i \in DOMAIN rows |->
     IF i \in ids
     THEN Fulfil(rows[i], [chapter |-> chapter, quote |-> quote[rows[i].key]])
     ELSE rows[i]]

LEMMA VerifyReads ==
  ASSUME NEW r \in Runs, VerifyRead(r)
  PROVE  \E keys, quote, values :
           LET out == Judgement(Judged(keys), run[r].chapter, quote)
           IN  /\ keys \subseteq run[r].due /\ quote \in [keys -> Quotes]
               /\ values \subseteq Judged(keys) /\ Reads(r, out, values)
               /\ \A i \in Judged(keys) : out[i].fulfilments # rows[i].fulfilments => i \in values
<1>1. PICK keys \in SUBSET run[r].due \ {{}} :
        \E quote \in [keys -> Quotes] :
          LET ids == Judged(keys)
              out == Judgement(ids, run[r].chapter, quote)
              new == {i \in ids : out[i].fulfilments # rows[i].fulfilments}
          IN  \E same \in SUBSET (ids \ new) : Reads(r, out, new \cup same)
  BY DEF VerifyRead, Judgement
<1>2. PICK quote \in [keys -> Quotes] :
        LET ids == Judged(keys)
            out == Judgement(ids, run[r].chapter, quote)
            new == {i \in ids : out[i].fulfilments # rows[i].fulfilments}
        IN  \E same \in SUBSET (ids \ new) : Reads(r, out, new \cup same)
  BY <1>1
<1> DEFINE out == Judgement(Judged(keys), run[r].chapter, quote)
           new == {i \in Judged(keys) : out[i].fulfilments # rows[i].fulfilments}
<1>3. PICK same \in SUBSET (Judged(keys) \ new) : Reads(r, out, new \cup same)
  BY <1>2
<1>4. /\ new \cup same \in SUBSET Judged(keys)
      /\ \A i \in Judged(keys) : out[i].fulfilments # rows[i].fulfilments => i \in new \cup same
  OBVIOUS
<1> HIDE DEF out, new
<1> QED BY <1>3, <1>4 DEF out

LEMMA VerifyKeeps ==
  ASSUME TableOK, RunOK, NEW r \in Runs, VerifyRead(r)
  PROVE  TableOK'
<1>1. PICK keys, quote, values :
        /\ keys \subseteq run[r].due /\ quote \in [keys -> Quotes] /\ values \subseteq Judged(keys)
        /\ Reads(r, Judgement(Judged(keys), run[r].chapter, quote), values)
  BY VerifyReads
<1> DEFINE ids == Judged(keys)
           f == [i \in ids \cap DOMAIN rows |->
                   Fulfil(rows[i], [chapter |-> run[r].chapter, quote |-> quote[rows[i].key]])]
           out == [i \in DOMAIN rows |-> IF i \in ids THEN f[i] ELSE rows[i]]
<1>2. ids \subseteq DOMAIN rows /\ values \subseteq DOMAIN rows
  BY <1>1 DEF Judged
<1>3. out = Judgement(ids, run[r].chapter, quote)
  BY DEF Judgement
<1>4. \A i \in ids \cap DOMAIN rows : f[i] \in Sound
  <2> SUFFICES ASSUME NEW i \in ids \cap DOMAIN rows PROVE f[i] \in Sound
    OBVIOUS
  <2>1. rows[i] \in Sound
    BY DEF TableOK
  <2>2. run[r].chapter \in Chapters
    BY DEF RunOK, RunStates
  <2>3. quote[rows[i].key] \in Quotes
    BY <1>1 DEF Judged
  <2>4. [chapter |-> run[r].chapter, quote |-> quote[rows[i].key]] \in Fulfilments
    BY <2>2, <2>3 DEF Fulfilments
  <2> QED BY <2>1, <2>4, FulfilIsSound
<1>5. f = [i \in ids \cap DOMAIN rows |-> f[i]]
  OBVIOUS
<1>6. Reads(r, out, values)
  BY <1>1, <1>3
<1> HIDE DEF f, ids
<1>7. out \in Seq(Sound) /\ Len(out) = Len(rows)
  BY <1>4, <1>5, ChangedRows DEF TableOK
<1> HIDE DEF out
<1>8. Len(rows) <= Len(out)
  BY <1>7, LenProperties DEF TableOK
<1> QED BY <1>2, <1>6, <1>7, <1>8, ReadsKeep

LEMMA RegisterKeeps ==
  ASSUME TableOK, NEW r \in Runs, RegisterRead(r)
  PROVE  TableOK'
<1>1. PICK key \in Keys, dup \in Keys, noted \in BOOLEAN :
        LET found == Target(rows, [key |-> key, duplicateOf |-> dup])
        IN  IF found = {} THEN noted /\ Reads(r, Append(rows, NewRow(key)), {})
            ELSE \E i \in found :
                   Reads(r, [rows EXCEPT ![i] = Bumped(@)], IF noted THEN {i} ELSE {})
  BY DEF RegisterRead
<1> DEFINE found == Target(rows, [key |-> key, duplicateOf |-> dup])
<1>2. CASE found = {}
  <2> DEFINE out == Append(rows, NewRow(key))
             values == {}
  <2>1. Reads(r, out, values)
    BY <1>1, <1>2
  <2>2. out \in Seq(Sound) /\ Len(rows) <= Len(out)
    BY NewIsSound, AddedRow DEF TableOK
  <2>3. values \subseteq DOMAIN rows
    OBVIOUS
  <2> HIDE DEF out, values
  <2> QED BY <2>1, <2>2, <2>3, ReadsKeep
<1>3. CASE found # {}
  <2>1. PICK i \in found :
          Reads(r, [rows EXCEPT ![i] = Bumped(rows[i])], IF noted THEN {i} ELSE {})
    BY <1>1, <1>3
  <2>2. i \in DOMAIN rows
    BY DEF Target, Of
  <2>3. rows[i] \in Sound
    BY <2>2 DEF TableOK
  <2> DEFINE out == [rows EXCEPT ![i] = Bumped(rows[i])]
             values == IF noted THEN {i} ELSE {}
  <2>4. out \in Seq(Sound) /\ Len(out) = Len(rows)
    BY <2>2, <2>3, BumpedIsSound, OneRow DEF TableOK
  <2>5. values \subseteq DOMAIN rows
    BY <2>2
  <2>6. Reads(r, out, values)
    BY <2>1
  <2> HIDE DEF out, values
  <2>7. Len(rows) <= Len(out)
    BY <2>4, LenProperties DEF TableOK
  <2> QED BY <2>4, <2>5, <2>6, <2>7, ReadsKeep
<1> QED BY <1>2, <1>3

\* A row whose status and version change.
LEMMA RestatedIsSound ==
  ASSUME NEW row \in Sound, NEW s \in Statuses, NEW v \in Nat \ {0}
  PROVE  [row EXCEPT !.status = s, !.version = v] \in Sound
BY DEF Sound, Rows, Once

LEMMA SyncKeeps ==
  ASSUME TableOK, NEW r \in Runs, SyncRead(r)
  PROVE  TableOK'
<1>1. PICK key \in Keys : \E t \in Plants(key) \cup Resolves(key) : Reads(r, t.out, t.values)
  BY DEF SyncRead
<1>2. PICK t \in Plants(key) \cup Resolves(key) : Reads(r, t.out, t.values)
  BY <1>1
<1>3. SUFFICES /\ t.out \in Seq(Sound) /\ Len(rows) <= Len(t.out)
               /\ t.values \subseteq DOMAIN rows
  BY <1>2, ReadsKeep
<1>4. Len(rows) \in Nat /\ rows \in Seq(Sound)
  BY LenProperties DEF TableOK
<1>5. CASE t \in Plants(key) /\ Of(rows, key) = {}
  <2>1. t = [out |-> Append(rows, NewRow(key)), values |-> {}]
    BY <1>5 DEF Plants
  <2>2. Append(rows, NewRow(key)) \in Seq(Sound) /\ Len(rows) <= Len(Append(rows, NewRow(key)))
    BY <1>4, NewIsSound, AddedRow
  <2> QED BY <2>1, <2>2
<1>6. CASE t \in Plants(key) /\ Of(rows, key) # {}
  <2> DEFINE planted(i) == IF rows[i].status = "open"
                           THEN [Bumped(rows[i]) EXCEPT !.status = "developing"] ELSE rows[i]
  <2>1. PICK i \in Of(rows, key) :
          t = [out |-> [rows EXCEPT ![i] = planted(i)], values |-> {}]
    BY <1>6 DEF Plants
  <2>2. i \in DOMAIN rows /\ rows[i] \in Sound
    BY <1>4 DEF Of
  <2>3. planted(i) \in Sound
    <3>1. [Bumped(rows[i]) EXCEPT !.status = "developing"] \in Sound
      <4>1. Bumped(rows[i]) \in Sound
        BY <2>2, BumpedIsSound
      <4> QED BY <4>1 DEF Sound, Rows, Once, Statuses
    <3> QED BY <2>2, <3>1
  <2> HIDE DEF planted
  <2>4. [rows EXCEPT ![i] = planted(i)] \in Seq(Sound)
        /\ Len([rows EXCEPT ![i] = planted(i)]) = Len(rows)
    BY <1>4, <2>2, <2>3, OneRow
  <2> QED BY <1>4, <2>1, <2>4
<1>7. CASE t \in Resolves(key)
  <2> DEFINE v(i) == rows[i].version + (IF rows[i].status = "open" THEN 2 ELSE 1)
             settled(i) == [rows[i] EXCEPT !.status = "resolved", !.version = v(i)]
  <2>1. PICK i \in Of(rows, key) :
          t = [out |-> IF ~Pending(rows[i]) THEN rows
                       ELSE [rows EXCEPT ![i].status = "resolved",
                               ![i].version = @ + (IF rows[i].status = "open" THEN 2 ELSE 1)],
               values |-> {i}]
    BY <1>7 DEF Resolves
  <2>2. i \in DOMAIN rows /\ rows[i] \in Sound
    BY <1>4 DEF Of
  <2>3. settled(i) \in Sound
    <3>1. v(i) \in Nat \ {0} /\ "resolved" \in Statuses
      BY <2>2 DEF Sound, Rows, Statuses
    <3> HIDE DEF v
    <3> QED BY <2>2, <3>1, RestatedIsSound
  <2>4. [rows EXCEPT ![i].status = "resolved",
                     ![i].version = @ + (IF rows[i].status = "open" THEN 2 ELSE 1)]
        = [rows EXCEPT ![i] = settled(i)]
    <3>1. DOMAIN rows[i] = {"key", "status", "version", "fulfilments", "required"}
      BY <2>2 DEF Sound, Rows
    <3> QED BY <2>2, <3>1
  <2> HIDE DEF settled
  <2>5. [rows EXCEPT ![i] = settled(i)] \in Seq(Sound)
        /\ Len([rows EXCEPT ![i] = settled(i)]) = Len(rows)
    BY <1>4, <2>2, <2>3, OneRow
  <2>6. t.values = {i} /\ t.out \in {rows, [rows EXCEPT ![i] = settled(i)]}
    BY <2>1, <2>4
  <2> QED BY <1>4, <2>2, <2>5, <2>6
<1> QED BY <1>2, <1>5, <1>6, <1>7

\* The rows the user's requests write are sound: they are made of what the page showed
\* and of what the table holds.
LEMMA RequestsKeep ==
  ASSUME TableOK, Patch \/ ChangeStatus \/ ToggleExclude \/ Pin
  PROVE  TableOK'
<1>0. form.id # 0 /\ Current
  BY DEF Patch, ChangeStatus, ToggleExclude, Pin, Current
<1> DEFINE row == rows[form.id]
<1>1. form.id \in DOMAIN rows /\ form.row \in Sound /\ row \in Sound
  BY <1>0 DEF TableOK, FormOK, NoForm
<1>2. Bumped(row) \in Sound
  BY <1>1, BumpedIsSound
<1> HIDE DEF row
<1> SUFFICES \E new \in Sound : Saves(new)
  BY <1>0, SavesKeep
<1>3. CASE Patch
  <2>1. PICK required \in {1, 2} \ {form.row.required}, read \in {form.row, row} :
          Saves([Bumped(row) EXCEPT !.status = read.status, !.required = required,
                                    !.fulfilments = form.row.fulfilments])
    BY <1>3 DEF Patch, row
  <2>2. [Bumped(row) EXCEPT !.status = read.status, !.required = required,
                            !.fulfilments = form.row.fulfilments] \in Sound
    <3> DEFINE new == Bumped(row)
               status == read.status
               list == form.row.fulfilments
    <3>1. new \in Sound /\ status \in Statuses /\ required \in Nat \ {0}
      BY <1>1, <1>2 DEF Sound, Rows
    <3>2. list \in Seq(Fulfilments) /\ (\A j, k \in DOMAIN list : list[j] = list[k] => j = k)
      BY <1>1 DEF Sound, Rows, Once
    <3> HIDE DEF new, status, list
    <3> DEFINE stated == [new EXCEPT !.status = status]
               counted == [stated EXCEPT !.required = required]
               kept == [counted EXCEPT !.fulfilments = list]
    <3>3. stated \in Sound
      BY <3>1 DEF Sound, Rows, Once
    <3> HIDE DEF stated
    <3>4. counted \in Sound
      BY <3>1, <3>3 DEF Sound, Rows, Once
    <3> HIDE DEF counted
    <3>5. kept \in Sound
      <4>1. kept \in Rows /\ kept.fulfilments = list
        BY <3>2, <3>4 DEF Sound, Rows
      <4> QED BY <3>2, <4>1 DEF Sound, Once
    <3> QED BY <3>5 DEF kept, counted, stated, new, status, list
  <2> QED BY <2>1, <2>2
<1>4. CASE ChangeStatus
  <2>1. PICK s \in Allowed(form.row.status) : Saves([Bumped(row) EXCEPT !.status = s])
    BY <1>4 DEF ChangeStatus, row
  <2>2. s \in Statuses
    BY <1>1 DEF Allowed, Transition, Sound, Rows, Statuses
  <2>3. [Bumped(row) EXCEPT !.status = s] \in Sound
    BY <1>2, <2>2 DEF Sound, Rows, Once
  <2> QED BY <2>1, <2>3
<1>5. CASE ToggleExclude
  <2> DEFINE s == IF form.row.status = "excluded" THEN "open" ELSE "excluded"
  <2>1. Saves([Bumped(row) EXCEPT !.status = s])
    BY <1>5 DEF ToggleExclude, row
  <2>2. s \in Statuses
    BY DEF Statuses
  <2> HIDE DEF s
  <2>3. [Bumped(row) EXCEPT !.status = s] \in Sound
    BY <1>2, <2>2 DEF Sound, Rows, Once
  <2> QED BY <2>1, <2>3
<1>6. CASE Pin
  BY <1>2, <1>6 DEF Pin, row
<1> QED BY <1>3, <1>4, <1>5, <1>6

LEMMA TableStep == TableOK /\ RunOK /\ [Next]_vars => TableOK'
<1>1. SUFFICES ASSUME TableOK, RunOK, [Next]_vars PROVE TableOK'
  OBVIOUS
<1>2. ASSUME NEW r \in Runs, Step(r) PROVE TableOK'
  <2>1. CASE RewriteRead(r) \/ VerifyRead(r) \/ RegisterRead(r) \/ SyncRead(r)
    BY <1>1, <2>1, RewriteKeeps, VerifyKeeps, RegisterKeeps, SyncKeeps
  <2>2. CASE RewriteCommit(r) \/ VerifyCommit(r) \/ VerifyFail(r) \/ RegisterCommit(r)
             \/ SyncCommit(r)
    BY <1>1, <2>2, EndsKeep
    DEF RewriteCommit, VerifyCommit, VerifyFail, RegisterCommit, SyncCommit
  <2>3. CASE \/ Contract(r) \/ NoRewrite(r) \/ VerifyNone(r) \/ Report(r)
             \/ RegisterNone(r) \/ SyncNone(r)
    BY <1>1, <2>3
    DEF Contract, NoRewrite, VerifyNone, Report, RegisterNone, SyncNone, TableOK, FormOK
  <2>4. CASE VerifySkip(r)
    <3>1. left' \in Bounds
      BY <1>1, <2>4 DEF VerifySkip, TableOK, Bounds
    <3> QED BY <1>1, <2>4, <3>1 DEF VerifySkip, TableOK, FormOK
  <2>5. CASE Die(r)
    <3>1. left' \in Bounds
      BY <1>1, <2>5, SpendKeeps DEF Die, TableOK
    <3>2. tx' \in [Runs -> Txs]
      BY <1>1, <2>5, NoTxOK DEF Die, Ends, TableOK
    <3> QED BY <1>1, <2>5, <3>1, <3>2 DEF Die, Ends, TableOK, FormOK
  <2> QED BY <1>2, <2>1, <2>2, <2>3, <2>4, <2>5 DEF Step
<1>3. ASSUME NEW i \in DOMAIN rows, Look(i) PROVE TableOK'
  <2>1. rows[i] \in Sound
    BY <1>1 DEF TableOK
  <2>2. FormOK'
    BY <1>3, <2>1 DEF Look, FormOK
  <2> QED BY <1>1, <1>3, <2>2 DEF Look, TableOK
<1>4. ASSUME NEW key \in Keys, Create(key) PROVE TableOK'
  <2>1. rows' \in Seq(Sound) /\ Len(rows) <= Len(rows')
    BY <1>1, <1>4, NewIsSound, AddedRow DEF Create, TableOK
  <2>2. DOMAIN rows \subseteq DOMAIN rows'
    BY <1>1, <2>1, LenProperties DEF TableOK
  <2>3. left' \in Bounds
    BY <1>1, <1>4, SpendKeeps DEF Create, TableOK
  <2>4. FormOK'
    BY <1>1, <1>4, <2>2 DEF Create, TableOK, FormOK
  <2> QED BY <1>1, <1>4, <2>1, <2>3, <2>4 DEF Create, TableOK
<1>5. ASSUME UNCHANGED vars PROVE TableOK'
  BY <1>1, <1>5 DEF vars, TableOK, FormOK
<1> QED BY <1>1, <1>2, <1>3, <1>4, <1>5, RequestsKeep DEF Next

LEMMA SafeTable == Spec => [](TableOK /\ RunOK)
<1>1. Init => TableOK /\ RunOK
  BY TableInit, RunInit
<1>2. (TableOK /\ RunOK) /\ [Next]_vars => (TableOK /\ RunOK)'
  BY TableStep, RunStep
<1> QED BY <1>1, <1>2, PTL DEF Spec

\* The same evidence of a chapter is counted once, whatever writes overtake each other.
THEOREM SafeOneCount == Spec => []OneCount
<1>1. TableOK => OneCount
  BY DEF TableOK, OneCount, Sound
<1> QED BY <1>1, SafeTable, PTL

\* The table, the open transactions, the page and the runs keep their types: a commit
\* that mixes columns of three versions of a row leaves a row.
THEOREM SafeTypeOK == Spec => []TypeOK
<1>1. TableOK /\ RunOK => TypeOK
  <2>1. SUFFICES ASSUME TableOK, RunOK PROVE TypeOK
    OBVIOUS
  <2>2. ASSUME NEW t \in Seq(Sound) PROVE t \in Seq(Rows)
    BY SeqDef DEF Sound
  <2>3. rows \in Seq(Rows)
    BY <2>1, <2>2 DEF TableOK
  <2>4. ASSUME NEW r \in Runs
        PROVE  /\ tx[r].seen \in Seq(Rows) /\ tx[r].out \in Seq(Rows)
               /\ tx[r].values \subseteq DOMAIN tx[r].seen
    BY <2>1, <2>2 DEF TableOK, Txs
  <2>5. form = NoForm \/ (form.id \in DOMAIN rows /\ form.row \in Rows)
    BY <2>1 DEF TableOK, FormOK, Sound
  <2> QED BY <2>1, <2>3, <2>4, <2>5 DEF TypeOK, TableOK, RunOK
<1> QED BY <1>1, SafeTable, PTL

(***************************************************************************)
(* What a transaction makes of the rows it read, and what that does to the *)
(* table, whatever was written in between.                                 *)
(***************************************************************************)

\* The evidence of a row stays, and its status moves as promises do.
Advances(old, row) ==
  /\ \A j \in DOMAIN old.fulfilments : Counted(row.fulfilments, old.fulfilments[j])
  /\ \/ row.status = old.status
     \/ row.status \in Transition[old.status]
     \/ old.status = "open" /\ row.status = "resolved"
\* The objects of a transaction advance the rows it read.
Honest(t) == \A i \in DOMAIN t.seen : Advances(t.seen[i], t.out[i])
AllHonest == \A r \in Runs : Honest(tx[r])

LEMMA SameAdvances ==
  ASSUME NEW row \in Sound, NEW new, new.fulfilments = row.fulfilments,
         \/ new.status = row.status
         \/ new.status \in Transition[row.status]
         \/ row.status = "open" /\ new.status = "resolved"
  PROVE  Advances(row, new)
BY DEF Advances, Counted

LEMMA BumpedAdvances == ASSUME NEW row \in Sound PROVE Advances(row, Bumped(row))
<1>1. Bumped(row).fulfilments = row.fulfilments /\ Bumped(row).status = row.status
  BY DEF Bumped, Sound, Rows
<1> QED BY <1>1, SameAdvances

LEMMA FulfilAdvances ==
  ASSUME NEW row \in Sound, NEW f \in Fulfilments
  PROVE  Advances(row, Fulfil(row, f))
<1> DEFINE list == IF Counted(row.fulfilments, f) THEN row.fulfilments
                   ELSE Append(row.fulfilments, f)
           settled == IF Len(list) >= row.required /\ Pending(row) THEN "resolved"
                      ELSE IF row.status = "open" THEN "developing" ELSE row.status
<1>1. row \in Rows /\ row.fulfilments \in Seq(Fulfilments) /\ row.status \in Statuses
  BY DEF Sound, Rows
<1>2. \A j \in DOMAIN row.fulfilments : Counted(list, row.fulfilments[j])
  <2>1. CASE Counted(row.fulfilments, f)
    BY <2>1 DEF Counted
  <2>2. CASE ~Counted(row.fulfilments, f)
    <3>1. list = Append(row.fulfilments, f)
      BY <2>2
    <3>2. \A j \in DOMAIN row.fulfilments :
            j \in DOMAIN list /\ list[j] = row.fulfilments[j]
      BY <1>1, <3>1
    <3> QED BY <3>2 DEF Counted
  <2> QED BY <2>1, <2>2
<1>3. \/ settled = row.status
      \/ settled \in Transition[row.status]
      \/ row.status = "open" /\ settled = "resolved"
  BY <1>1 DEF Transition, Pending, Statuses
<1>4. Fulfil(row, f) = [row EXCEPT !.fulfilments = list, !.version = @ + 1, !.status = settled]
  BY DEF Fulfil
<1> HIDE DEF list, settled
<1>5. Fulfil(row, f).fulfilments = list /\ Fulfil(row, f).status = settled
  BY <1>1, <1>4 DEF Rows
<1> QED BY <1>2, <1>3, <1>5 DEF Advances

\* The objects that stand for the table, row by row.
LEMMA RowsAdvance ==
  ASSUME TableOK, NEW r \in Runs, NEW out, NEW values, Reads(r, out, values), AllHonest,
         DOMAIN out = DOMAIN rows, \A i \in DOMAIN rows : Advances(rows[i], out[i])
  PROVE  AllHonest'
<1> DEFINE t == [seen |-> rows, out |-> out, values |-> values]
<1>1. Honest(t)
  BY DEF Honest
<1>2. tx' = [tx EXCEPT ![r] = t]
  BY DEF Reads
<1> HIDE DEF t
<1> QED BY <1>1, <1>2 DEF AllHonest, TableOK

\* One of them changes.
LEMMA RowAdvances ==
  ASSUME TableOK, NEW r \in Runs, NEW i \in DOMAIN rows, NEW row, NEW values,
         Reads(r, [rows EXCEPT ![i] = row], values), AllHonest, Advances(rows[i], row)
  PROVE  AllHonest'
<1> DEFINE out == [rows EXCEPT ![i] = row]
<1>1. DOMAIN out = DOMAIN rows
  OBVIOUS
<1>2. ASSUME NEW k \in DOMAIN rows PROVE Advances(rows[k], out[k])
  <2>1. CASE k = i
    <3>1. out[k] = row
      BY <2>1
    <3> QED BY <2>1, <3>1
  <2>2. CASE k # i
    <3>1. out[k] = rows[k] /\ rows[k] \in Sound
      BY <2>2 DEF TableOK
    <3> QED BY <3>1, SameAdvances
  <2> QED BY <2>1, <2>2
<1>3. Reads(r, out, values)
  OBVIOUS
<1> HIDE DEF out
<1> QED BY <1>1, <1>2, <1>3, RowsAdvance

\* A row is added.
LEMMA NewIsHonest ==
  ASSUME TableOK, NEW r \in Runs, NEW key \in Keys, NEW values,
         Reads(r, Append(rows, NewRow(key)), values), AllHonest
  PROVE  AllHonest'
<1> DEFINE out == Append(rows, NewRow(key))
           t == [seen |-> rows, out |-> out, values |-> values]
<1>1. rows \in Seq(Sound) /\ Len(rows) \in Nat /\ DOMAIN rows = 1..Len(rows)
  BY LenProperties DEF TableOK
<1>2. /\ DOMAIN out = 1..Len(rows) + 1
      /\ \A i \in 1..Len(rows) : out[i] = rows[i]
      /\ out[Len(rows) + 1] = NewRow(key)
  BY <1>1, NewIsSound, AppendProperties
<1>3. tx' = [tx EXCEPT ![r] = t]
  BY DEF Reads
<1>4. t.seen = rows /\ t.out = out
  OBVIOUS
<1> HIDE DEF out, t
<1>5. ASSUME NEW i \in DOMAIN rows PROVE Advances(rows[i], out[i])
  <2>1. rows[i] \in Sound /\ out[i] = rows[i]
    BY <1>1, <1>2
  <2> QED BY <2>1, SameAdvances
<1>6. Honest(t)
  BY <1>4, <1>5 DEF Honest
<1> QED BY <1>3, <1>6 DEF AllHonest, TableOK

LEMMA RewriteIsHonest ==
  ASSUME TableOK, AllHonest, NEW r \in Runs, RewriteRead(r)
  PROVE  AllHonest'
<1>1. PICK changed \in SUBSET Quoting(r) \ {{}} :
        Reads(r, [i \in DOMAIN rows |-> IF i \in changed THEN Bumped(rows[i]) ELSE rows[i]],
              changed)
  BY DEF RewriteRead
<1> DEFINE out == [i \in DOMAIN rows |-> IF i \in changed THEN Bumped(rows[i]) ELSE rows[i]]
<1>2. DOMAIN out = DOMAIN rows
  OBVIOUS
<1>3. ASSUME NEW i \in DOMAIN rows PROVE Advances(rows[i], out[i])
  <2>1. rows[i] \in Sound
    BY DEF TableOK
  <2>2. CASE i \in changed
    <3>1. out[i] = Bumped(rows[i])
      BY <2>2
    <3> QED BY <2>1, <3>1, BumpedAdvances
  <2>3. CASE i \notin changed
    <3>1. out[i] = rows[i]
      BY <2>3
    <3> QED BY <2>1, <3>1, SameAdvances
  <2> QED BY <2>2, <2>3
<1> HIDE DEF out
<1> QED BY <1>1, <1>2, <1>3, RowsAdvance DEF out

\* What a verification that has read the table is to write: a row it settles has the evidence
\* it takes, and new evidence is in what it writes.
Settles(t) ==
  \A i \in DOMAIN t.seen :
    /\ t.out[i].required = t.seen[i].required
    /\ t.out[i].fulfilments # t.seen[i].fulfilments => i \in t.values
    /\ t.out[i].status = "resolved" /\ t.seen[i].status # "resolved" =>
         Len(t.out[i].fulfilments) >= t.out[i].required
AllSettle == \A r \in Runs : run[r].pc = "verifying" => Settles(tx[r])

LEMMA FulfilSettles ==
  ASSUME NEW row \in Sound, NEW f \in Fulfilments
  PROVE  LET new == Fulfil(row, f)
         IN  /\ new.required = row.required
             /\ new.status = "resolved" /\ row.status # "resolved" =>
                  Len(new.fulfilments) >= new.required
<1> DEFINE list == IF Counted(row.fulfilments, f) THEN row.fulfilments
                   ELSE Append(row.fulfilments, f)
           settled == IF Len(list) >= row.required /\ Pending(row) THEN "resolved"
                      ELSE IF row.status = "open" THEN "developing" ELSE row.status
<1>1. settled = "resolved" /\ row.status # "resolved" => Len(list) >= row.required
  OBVIOUS
<1>2. Fulfil(row, f) = [row EXCEPT !.fulfilments = list, !.version = @ + 1, !.status = settled]
  BY DEF Fulfil
<1> HIDE DEF list, settled
<1>3. /\ Fulfil(row, f).fulfilments = list /\ Fulfil(row, f).status = settled
      /\ Fulfil(row, f).required = row.required
  BY <1>2 DEF Sound, Rows
<1> QED BY <1>1, <1>3

LEMMA VerifyIsHonest ==
  ASSUME TableOK, RunOK, AllHonest, NEW r \in Runs, VerifyRead(r)
  PROVE  AllHonest' /\ Settles(tx'[r])
<1>1. PICK keys, quote, values :
        LET out == Judgement(Judged(keys), run[r].chapter, quote)
        IN  /\ keys \subseteq run[r].due /\ quote \in [keys -> Quotes]
            /\ values \subseteq Judged(keys) /\ Reads(r, out, values)
            /\ \A i \in Judged(keys) : out[i].fulfilments # rows[i].fulfilments => i \in values
  BY VerifyReads
<1> DEFINE out == Judgement(Judged(keys), run[r].chapter, quote)
<1>2. DOMAIN out = DOMAIN rows
  BY DEF Judgement
<1>3. ASSUME NEW i \in DOMAIN rows
      PROVE  /\ Advances(rows[i], out[i])
             /\ out[i].required = rows[i].required
             /\ out[i].fulfilments # rows[i].fulfilments => i \in values
             /\ out[i].status = "resolved" /\ rows[i].status # "resolved" =>
                  Len(out[i].fulfilments) >= out[i].required
  <2>1. rows[i] \in Sound
    BY DEF TableOK
  <2>2. CASE i \in Judged(keys)
    <3> DEFINE f == [chapter |-> run[r].chapter, quote |-> quote[rows[i].key]]
    <3>1. f \in Fulfilments
      BY <1>1, <2>2 DEF RunOK, RunStates, Judged, Fulfilments
    <3>2. out[i] = Fulfil(rows[i], f)
      BY <2>2 DEF Judgement
    <3>3. out[i].fulfilments # rows[i].fulfilments => i \in values
      BY <1>1, <2>2
    <3> HIDE DEF f, out
    <3> QED BY <2>1, <3>1, <3>2, <3>3, FulfilAdvances, FulfilSettles
  <2>3. CASE i \notin Judged(keys)
    <3>1. out[i] = rows[i]
      BY <2>3 DEF Judgement
    <3> QED BY <2>1, <3>1, SameAdvances
  <2> QED BY <2>2, <2>3
<1>4. Reads(r, out, values)
  BY <1>1
<1> HIDE DEF out
<1>5. AllHonest'
  BY <1>2, <1>3, <1>4, RowsAdvance
<1>6. tx'[r] = [seen |-> rows, out |-> out, values |-> values]
  BY <1>4 DEF Reads, TableOK
<1>7. Settles(tx'[r])
  BY <1>3, <1>6 DEF Settles
<1> QED BY <1>5, <1>7

LEMMA RegisterIsHonest ==
  ASSUME TableOK, AllHonest, NEW r \in Runs, RegisterRead(r)
  PROVE  AllHonest'
<1>1. PICK key \in Keys, dup \in Keys, noted \in BOOLEAN :
        LET found == Target(rows, [key |-> key, duplicateOf |-> dup])
        IN  IF found = {} THEN noted /\ Reads(r, Append(rows, NewRow(key)), {})
            ELSE \E i \in found :
                   Reads(r, [rows EXCEPT ![i] = Bumped(@)], IF noted THEN {i} ELSE {})
  BY DEF RegisterRead
<1> DEFINE found == Target(rows, [key |-> key, duplicateOf |-> dup])
<1>2. CASE found = {}
  BY <1>1, <1>2, NewIsHonest
<1>3. CASE found # {}
  <2>1. PICK i \in found :
          Reads(r, [rows EXCEPT ![i] = Bumped(rows[i])], IF noted THEN {i} ELSE {})
    BY <1>1, <1>3
  <2>2. i \in DOMAIN rows
    BY DEF Target, Of
  <2>3. rows[i] \in Sound
    BY <2>2 DEF TableOK
  <2>4. Advances(rows[i], Bumped(rows[i]))
    BY <2>3, BumpedAdvances
  <2> QED BY <2>1, <2>2, <2>4, RowAdvances
<1> QED BY <1>2, <1>3

LEMMA SyncIsHonest ==
  ASSUME TableOK, AllHonest, NEW r \in Runs, SyncRead(r)
  PROVE  AllHonest'
<1>1. PICK key \in Keys : \E t \in Plants(key) \cup Resolves(key) : Reads(r, t.out, t.values)
  BY DEF SyncRead
<1>2. PICK t \in Plants(key) \cup Resolves(key) : Reads(r, t.out, t.values)
  BY <1>1
<1>3. CASE t \in Plants(key) /\ Of(rows, key) = {}
  <2>1. t.out = Append(rows, NewRow(key))
    BY <1>3 DEF Plants
  <2>2. Reads(r, Append(rows, NewRow(key)), t.values)
    BY <1>2, <2>1
  <2> QED BY <2>2, NewIsHonest
<1>4. ASSUME NEW i \in Of(rows, key), NEW row, row.fulfilments = rows[i].fulfilments,
             \/ row.status = rows[i].status
             \/ row.status \in Transition[rows[i].status]
             \/ rows[i].status = "open" /\ row.status = "resolved",
             t.out = [rows EXCEPT ![i] = row]
      PROVE  AllHonest'
  <2>1. i \in DOMAIN rows /\ rows[i] \in Sound
    BY DEF TableOK, Of
  <2>2. Reads(r, [rows EXCEPT ![i] = row], t.values)
    BY <1>2, <1>4
  <2>3. Advances(rows[i], row)
    BY <1>4, <2>1, SameAdvances
  <2> QED BY <2>1, <2>2, <2>3, RowAdvances
<1>5. CASE t.out = rows
  <2>1. Reads(r, rows, t.values)
    BY <1>2, <1>5
  <2>2. \A i \in DOMAIN rows : Advances(rows[i], rows[i])
    BY SameAdvances DEF TableOK
  <2> QED BY <2>1, <2>2, RowsAdvance
<1>6. CASE t \in Plants(key) /\ Of(rows, key) # {}
  <2>1. PICK i \in Of(rows, key) :
          t = [out |-> [rows EXCEPT ![i] =
                          IF rows[i].status = "open"
                          THEN [Bumped(rows[i]) EXCEPT !.status = "developing"] ELSE rows[i]],
               values |-> {}]
    BY <1>6 DEF Plants
  <2>2. i \in DOMAIN rows /\ rows[i] \in Sound
    BY DEF TableOK, Of
  <2>3. t.out = [rows EXCEPT ![i] =
                   IF rows[i].status = "open"
                   THEN [Bumped(rows[i]) EXCEPT !.status = "developing"] ELSE rows[i]]
    BY <2>1
  <2>4. CASE rows[i].status = "open"
    <3> DEFINE row == [Bumped(rows[i]) EXCEPT !.status = "developing"]
    <3>1. row.fulfilments = rows[i].fulfilments /\ row.status = "developing"
      BY <2>2 DEF Bumped, Sound, Rows
    <3>2. t.out = [rows EXCEPT ![i] = row]
      BY <2>3, <2>4
    <3> HIDE DEF row
    <3>3. row.status \in Transition[rows[i].status]
      BY <2>4, <3>1 DEF Transition, Statuses
    <3> QED BY <1>4, <3>1, <3>2, <3>3
  <2>5. CASE rows[i].status # "open"
    <3>1. t.out = [rows EXCEPT ![i] = rows[i]]
      BY <2>3, <2>5
    <3>2. t.out = rows
      BY <2>2, <3>1 DEF TableOK
    <3> QED BY <1>5, <3>2
  <2> QED BY <2>4, <2>5
<1>7. CASE t \in Resolves(key)
  <2>1. PICK i \in Of(rows, key) :
          t = [out |-> IF ~Pending(rows[i]) THEN rows
                       ELSE [rows EXCEPT ![i].status = "resolved",
                               ![i].version = @ + (IF rows[i].status = "open" THEN 2 ELSE 1)],
               values |-> {i}]
    BY <1>7 DEF Resolves
  <2>2. i \in DOMAIN rows /\ rows[i] \in Sound
    BY DEF TableOK, Of
  <2>3. t.out = IF ~Pending(rows[i]) THEN rows
                 ELSE [rows EXCEPT ![i].status = "resolved",
                         ![i].version = @ + (IF rows[i].status = "open" THEN 2 ELSE 1)]
    BY <2>1
  <2>4. CASE Pending(rows[i])
    <3> DEFINE v == rows[i].version + (IF rows[i].status = "open" THEN 2 ELSE 1)
               row == [rows[i] EXCEPT !.status = "resolved", !.version = v]
    <3>1. DOMAIN rows[i] = {"key", "status", "version", "fulfilments", "required"}
      BY <2>2 DEF Sound, Rows
    <3>2. t.out = [rows EXCEPT ![i] = row]
      BY <2>2, <2>3, <2>4, <3>1
    <3>3. row.fulfilments = rows[i].fulfilments /\ row.status = "resolved"
      BY <2>2 DEF Sound, Rows
    <3> HIDE DEF row
    <3>4. \/ row.status \in Transition[rows[i].status]
          \/ rows[i].status = "open" /\ row.status = "resolved"
      BY <2>2, <2>4, <3>3 DEF Pending, Transition, Statuses
    <3> QED BY <1>4, <3>2, <3>3, <3>4
  <2>5. CASE ~Pending(rows[i])
    BY <1>5, <2>3, <2>5
  <2> QED BY <2>4, <2>5
<1> QED BY <1>2, <1>3, <1>6, <1>7

LEMMA NoTxIsHonest == Honest(NoTx)
<1>1. NoTx.seen = <<>> /\ NoTx.out = <<>> /\ DOMAIN <<>> = {}
  BY DEF NoTx
<1> QED BY <1>1 DEF Honest

LEMMA HonestStep == TableOK /\ RunOK /\ AllHonest /\ [Next]_vars => AllHonest'
<1>1. SUFFICES ASSUME TableOK, RunOK, AllHonest, [Next]_vars PROVE AllHonest'
  OBVIOUS
<1>2. ASSUME UNCHANGED tx PROVE AllHonest'
  BY <1>1, <1>2 DEF AllHonest
<1>3. ASSUME NEW r \in Runs, Ends(r) PROVE AllHonest'
  BY <1>1, <1>3, NoTxIsHonest DEF AllHonest, Ends, TableOK
<1>4. ASSUME NEW r \in Runs, Step(r) PROVE AllHonest'
  <2>1. CASE RewriteRead(r) \/ VerifyRead(r) \/ RegisterRead(r) \/ SyncRead(r)
    BY <1>1, <2>1, RewriteIsHonest, VerifyIsHonest, RegisterIsHonest, SyncIsHonest
  <2>2. CASE RewriteCommit(r) \/ VerifyCommit(r) \/ VerifyFail(r) \/ RegisterCommit(r)
             \/ SyncCommit(r) \/ Die(r)
    BY <1>3, <2>2
    DEF RewriteCommit, VerifyCommit, VerifyFail, RegisterCommit, SyncCommit, Die
  <2>3. CASE \/ Contract(r) \/ NoRewrite(r) \/ VerifyNone(r) \/ Report(r)
             \/ RegisterNone(r) \/ SyncNone(r) \/ VerifySkip(r)
    BY <1>2, <2>3
    DEF Contract, NoRewrite, VerifyNone, Report, RegisterNone, SyncNone, VerifySkip
  <2> QED BY <1>4, <2>1, <2>2, <2>3 DEF Step
<1>5. ASSUME NEW i \in DOMAIN rows, Look(i) PROVE UNCHANGED tx
  BY <1>5 DEF Look
<1>6. ASSUME Patch \/ ChangeStatus \/ ToggleExclude \/ Pin PROVE UNCHANGED tx
  BY <1>6 DEF Patch, ChangeStatus, ToggleExclude, Pin, Saves
<1>7. ASSUME NEW key \in Keys, Create(key) PROVE UNCHANGED tx
  BY <1>7 DEF Create
<1>8. ASSUME UNCHANGED vars PROVE UNCHANGED tx
  BY <1>8 DEF vars
<1> QED BY <1>1, <1>2, <1>4, <1>5, <1>6, <1>7, <1>8 DEF Next

\* A step of one run leaves what the others have before them.
LEMMA OthersStay ==
  ASSUME TableOK, RunOK, NEW r \in Runs, NEW q \in Runs \ {r}, Step(r)
  PROVE  run'[q] = run[q] /\ tx'[q] = tx[q]
<1>1. run \in [Runs -> RunStates] /\ tx \in [Runs -> Txs]
  BY DEF TableOK, RunOK
<1>2. CASE VerifyRead(r) \/ VerifyCommit(r) \/ VerifyFail(r) \/ VerifyNone(r) \/ VerifySkip(r)
  BY <1>1, <1>2
  DEF VerifyRead, VerifyCommit, VerifyFail, VerifyNone, VerifySkip, Moves, Reads, Ends
<1>3. CASE RewriteRead(r) \/ RewriteCommit(r) \/ RegisterRead(r) \/ RegisterCommit(r)
  BY <1>1, <1>3 DEF RewriteRead, RewriteCommit, RegisterRead, RegisterCommit, Moves, Reads, Ends
<1>4. CASE SyncRead(r) \/ SyncCommit(r) \/ Die(r)
  BY <1>1, <1>4 DEF SyncRead, SyncCommit, Die, Moves, Reads, Ends
<1>5. CASE Contract(r) \/ NoRewrite(r) \/ Report(r) \/ RegisterNone(r) \/ SyncNone(r)
  BY <1>1, <1>5 DEF Contract, NoRewrite, Report, RegisterNone, SyncNone, Moves
<1> QED BY <1>2, <1>3, <1>4, <1>5 DEF Step

LEMMA SettleStep == TableOK /\ RunOK /\ AllHonest /\ AllSettle /\ [Next]_vars => AllSettle'
<1>1. SUFFICES ASSUME TableOK, RunOK, AllHonest, AllSettle, [Next]_vars PROVE AllSettle'
  OBVIOUS
<1>2. ASSUME UNCHANGED <<run, tx>> PROVE AllSettle'
  BY <1>1, <1>2 DEF AllSettle
<1>3. ASSUME NEW r \in Runs, \A q \in Runs \ {r} : run'[q] = run[q] /\ tx'[q] = tx[q],
             run'[r].pc = "verifying" => Settles(tx'[r])
      PROVE  AllSettle'
  BY <1>1, <1>3 DEF AllSettle
<1>4. ASSUME NEW r \in Runs, Step(r) PROVE AllSettle'
  <2>1. \A q \in Runs \ {r} : run'[q] = run[q] /\ tx'[q] = tx[q]
    BY <1>1, <1>4, OthersStay
  <2>2. CASE VerifyRead(r)
    BY <1>1, <1>3, <2>1, <2>2, VerifyIsHonest
  <2>3. CASE ~VerifyRead(r)
    <3>1. run'[r].pc # "verifying"
      <4>1. CASE \/ Contract(r) \/ NoRewrite(r) \/ RewriteRead(r) \/ RewriteCommit(r)
                 \/ RegisterRead(r) \/ RegisterNone(r) \/ RegisterCommit(r)
                 \/ SyncRead(r) \/ SyncNone(r) \/ SyncCommit(r)
        BY <1>1, <4>1 DEF Contract, NoRewrite, RewriteRead, RewriteCommit, RegisterRead,
             RegisterNone, RegisterCommit, SyncRead, SyncNone, SyncCommit, Moves, RunOK, RunStates
      <4>2. CASE VerifyCommit(r) \/ VerifyFail(r) \/ VerifyNone(r) \/ VerifySkip(r) \/ Report(r)
        BY <1>1, <4>2
        DEF VerifyCommit, VerifyFail, VerifyNone, VerifySkip, Report, Moves, RunOK, RunStates
      <4>3. CASE Die(r)
        BY <1>1, <4>3 DEF Die, RunOK, RunStates, PCs
      <4> QED BY <1>4, <2>3, <4>1, <4>2, <4>3 DEF Step
    <3> QED BY <1>3, <2>1, <3>1
  <2> QED BY <2>2, <2>3
<1>5. ASSUME NEW i \in DOMAIN rows, Look(i) PROVE UNCHANGED <<run, tx>>
  BY <1>5 DEF Look
<1>6. ASSUME Patch \/ ChangeStatus \/ ToggleExclude \/ Pin PROVE UNCHANGED <<run, tx>>
  BY <1>6 DEF Patch, ChangeStatus, ToggleExclude, Pin, Saves
<1>7. ASSUME NEW key \in Keys, Create(key) PROVE UNCHANGED <<run, tx>>
  BY <1>7 DEF Create
<1>8. ASSUME UNCHANGED vars PROVE UNCHANGED <<run, tx>>
  BY <1>8 DEF vars
<1> QED BY <1>1, <1>2, <1>4, <1>5, <1>6, <1>7, <1>8 DEF Next

LEMMA SafeTransactions == Spec => [](TableOK /\ RunOK /\ AllHonest /\ AllSettle)
<1>1. Init => TableOK /\ RunOK /\ AllHonest /\ AllSettle
  <2>1. Init => AllHonest
    BY NoTxIsHonest DEF Init, AllHonest
  <2>2. Init => AllSettle
    BY DEF Init, AllSettle
  <2> QED BY <2>1, <2>2, TableInit, RunInit
<1>2. (TableOK /\ RunOK /\ AllHonest /\ AllSettle) /\ [Next]_vars
        => (TableOK /\ RunOK /\ AllHonest /\ AllSettle)'
  BY TableStep, RunStep, HonestStep, SettleStep
<1> QED BY <1>1, <1>2, PTL DEF Spec

(***************************************************************************)
(* What a step does to the table.                                          *)
(***************************************************************************)

\* A commit changes the rows it read and adds the rows it made.
LEMMA CommitWrites ==
  ASSUME TableOK, NEW r \in Runs, Commits(r)
  PROVE  /\ \A i \in DOMAIN rows : rows'[i] = Updated(tx[r], i)
         /\ \A i \in DOMAIN rows' \ DOMAIN rows :
              \E k \in DOMAIN tx[r].out \ DOMAIN tx[r].seen : rows'[i] = tx[r].out[k]
<1> DEFINE t == tx[r]
           upd == [i \in DOMAIN rows |-> Updated(t, i)]
           new == SubSeq(t.out, Len(t.seen) + 1, Len(t.out))
<1>1. /\ rows \in Seq(Sound) /\ Len(rows) \in Nat /\ DOMAIN rows = 1..Len(rows)
      /\ t.seen \in Seq(Sound) /\ Len(t.seen) \in Nat /\ DOMAIN t.seen = 1..Len(t.seen)
      /\ t.out \in Seq(Sound) /\ Len(t.out) \in Nat /\ DOMAIN t.out = 1..Len(t.out)
      /\ Len(t.seen) <= Len(t.out)
  <2>1. t \in Txs
    BY DEF TableOK
  <2> HIDE DEF t
  <2> QED BY <2>1, LenProperties DEF TableOK, Txs
<1>2. rows' = upd \o new
  BY DEF Commits, Flushed
<1>3. \A i \in DOMAIN rows : upd[i] = Updated(t, i)
  OBVIOUS
<1>4. Len(upd) = Len(rows) /\ upd \in Seq({Updated(t, i) : i \in DOMAIN rows})
  <2> DEFINE S == {Updated(t, i) : i \in DOMAIN rows}
  <2>1. \A i \in DOMAIN rows : upd[i] \in S
    OBVIOUS
  <2>2. upd = [i \in DOMAIN rows |-> upd[i]]
    OBVIOUS
  <2> HIDE DEF upd, S
  <2>3. upd \in [1..Len(rows) -> S]
    BY <1>1, <2>1, <2>2
  <2>4. upd \in Seq(S) /\ Len(upd) = Len(rows)
    BY <1>1, <2>3, SeqDef
  <2> QED BY <2>4 DEF S
<1>5. /\ new \in Seq(Sound) /\ Len(new) = Len(t.out) - Len(t.seen)
      /\ \A k \in 1..Len(new) : new[k] = t.out[Len(t.seen) + k]
  <2> DEFINE out == t.out
             m == Len(t.seen) + 1
             n == Len(t.out)
  <2>1. /\ out \in Seq(Sound) /\ m \in 1..Len(out) + 1 /\ n \in m - 1..Len(out)
    BY <1>1
  <2>2. new = SubSeq(out, m, n)
    OBVIOUS
  <2> HIDE DEF out, m, n, new
  <2>3. /\ new \in Seq(Sound) /\ Len(new) = n - m + 1
        /\ \A k \in 1..n - m + 1 : new[k] = out[m + k - 1]
    BY <2>1, <2>2, SubSeqProperties
  <2>4. m - 1 = Len(t.seen) /\ n - m + 1 = Len(t.out) - Len(t.seen) /\ m \in Int /\ n \in Int
    BY <1>1 DEF m, n
  <2>5. \A k \in 1..Len(new) : m + k - 1 = Len(t.seen) + k
    BY <1>1 DEF m
  <2> QED BY <2>3, <2>4, <2>5 DEF out
<1> DEFINE S == {Updated(t, i) : i \in DOMAIN rows} \cup Sound
<1>6. upd \in Seq(S) /\ new \in Seq(S)
  BY <1>4, <1>5
<1> HIDE DEF t, upd, new, S
<1>7. /\ Len(upd \o new) = Len(rows) + Len(new) /\ Len(new) \in Nat
      /\ DOMAIN (upd \o new) = 1..Len(rows) + Len(new)
      /\ \A i \in 1..Len(rows) + Len(new) :
           (upd \o new)[i] = IF i <= Len(rows) THEN upd[i] ELSE new[i - Len(rows)]
  <2>1. upd \o new \in Seq(S) /\ Len(upd \o new) = Len(upd) + Len(new) /\ Len(new) \in Nat
    BY <1>6, ConcatProperties, LenProperties
  <2>2. DOMAIN (upd \o new) = 1..Len(upd \o new)
    BY <2>1, LenProperties
  <2>3. \A i \in 1..Len(upd) + Len(new) :
          (upd \o new)[i] = IF i <= Len(upd) THEN upd[i] ELSE new[i - Len(upd)]
    BY <1>6, ConcatProperties
  <2> QED BY <1>4, <2>1, <2>2, <2>3
<1>8. \A i \in DOMAIN rows : rows'[i] = Updated(t, i)
  BY <1>1, <1>2, <1>3, <1>7
<1>9. ASSUME NEW i \in DOMAIN rows' \ DOMAIN rows
      PROVE  \E k \in DOMAIN t.out \ DOMAIN t.seen : rows'[i] = t.out[k]
  <2>1. i \in 1..Len(rows) + Len(new) /\ i > Len(rows)
    BY <1>1, <1>2, <1>7, <1>9
  <2>2. rows'[i] = new[i - Len(rows)] /\ i - Len(rows) \in 1..Len(new)
    BY <1>1, <1>2, <1>7, <2>1
  <2> DEFINE k == Len(t.seen) + (i - Len(rows))
  <2>3. rows'[i] = t.out[k]
    BY <1>5, <2>2
  <2>4. k \in DOMAIN t.out \ DOMAIN t.seen
    <3>1. k \in Nat /\ k >= Len(t.seen) + 1 /\ k <= Len(t.out)
      <4> DEFINE d == i - Len(rows)
      <4>1. d \in 1..Len(new) /\ k = Len(t.seen) + d
        BY <2>2
      <4>2. Len(new) = Len(t.out) - Len(t.seen) /\ Len(t.out) \in Nat /\ Len(t.seen) \in Nat
        BY <1>1, <1>5
      <4> HIDE DEF d, k
      <4> QED BY <4>1, <4>2
    <3> HIDE DEF k
    <3>2. /\ Len(t.seen) \in Nat /\ Len(t.out) \in Nat
          /\ DOMAIN t.seen = 1..Len(t.seen) /\ DOMAIN t.out = 1..Len(t.out)
      BY <1>1
    <3>3. k \in DOMAIN t.out
      BY <3>1, <3>2
    <3>4. k \notin DOMAIN t.seen
      BY <3>1, <3>2
    <3> QED BY <3>3, <3>4
  <2> QED BY <2>3, <2>4
<1> QED BY <1>8, <1>9 DEF t

\* The table changes by the commit of a run or by a request of the user.
LEMMA TableSteps ==
  ASSUME RunOK, [Next]_vars
  PROVE  \/ UNCHANGED rows
         \/ \E r \in Runs : Writer(r) /\ Commits(r)
         \/ UNCHANGED run /\ (Patch \/ ChangeStatus \/ ToggleExclude \/ Pin)
         \/ UNCHANGED run /\ \E key \in Keys : Create(key)
<1>1. ASSUME NEW r \in Runs, NEW from \in PCs, NEW to \in PCs, from # to, Moves(r, from, to)
      PROVE  Writer(r)
  <2>1. run[r].pc = from /\ run'[r].pc = to
    BY <1>1 DEF Moves, RunOK, RunStates
  <2> QED BY <1>1, <2>1 DEF Writer
<1>2. ASSUME NEW r \in Runs, Step(r) PROVE UNCHANGED rows \/ (Writer(r) /\ Commits(r))
  <2>1. CASE RewriteCommit(r) \/ RegisterCommit(r) \/ SyncCommit(r)
    <3>1. \/ UNCHANGED rows \/ Commits(r)
      BY <2>1 DEF RewriteCommit, RegisterCommit, SyncCommit, Fails
    <3>2. Writer(r)
      BY <1>1, <2>1 DEF RewriteCommit, RegisterCommit, SyncCommit, PCs
    <3> QED BY <3>1, <3>2
  <2>2. CASE VerifyCommit(r)
    <3>1. run[r].pc = "verifying" /\ run'[r].pc = "verified"
      BY <2>2 DEF VerifyCommit, RunOK, RunStates
    <3> QED BY <2>2, <3>1 DEF VerifyCommit, Writer
  <2>3. CASE ~(RewriteCommit(r) \/ RegisterCommit(r) \/ SyncCommit(r) \/ VerifyCommit(r))
    BY <1>2, <2>3
    DEF Step, Contract, NoRewrite, RewriteRead, VerifyRead, VerifyFail, VerifyNone, VerifySkip,
        Report, RegisterRead, RegisterNone, SyncRead, SyncNone, Die, Reads, Fails
  <2> QED BY <2>1, <2>2, <2>3
<1>3. ASSUME NEW i \in DOMAIN rows, Look(i) PROVE UNCHANGED rows
  BY <1>3 DEF Look
<1>4. ASSUME Patch \/ ChangeStatus \/ ToggleExclude \/ Pin PROVE UNCHANGED run
  BY <1>4 DEF Patch, ChangeStatus, ToggleExclude, Pin, Saves
<1>5. ASSUME NEW key \in Keys, Create(key) PROVE UNCHANGED run
  BY <1>5 DEF Create
<1> QED BY <1>2, <1>3, <1>4, <1>5 DEF Next, vars

\* A request writes the row of the page, in the version the page shows.
LEMMA RequestWrites ==
  ASSUME TableOK, Patch \/ ChangeStatus \/ ToggleExclude \/ Pin
  PROVE  /\ Current /\ UNCHANGED run /\ form.id \in DOMAIN rows /\ form.row \in Sound
         /\ DOMAIN rows' = DOMAIN rows
         /\ \A i \in DOMAIN rows \ {form.id} : rows'[i] = rows[i]
         /\ rows'[form.id].fulfilments \in {rows[form.id].fulfilments, form.row.fulfilments}
         /\ \/ rows'[form.id].status \in {rows[form.id].status, form.row.status}
            \/ rows'[form.id].status \in Transition[form.row.status]
            \/ form.row.status = "excluded" \/ rows'[form.id].status = "excluded"
<1>1. Current /\ UNCHANGED run
  BY DEF Patch, ChangeStatus, ToggleExclude, Pin, Saves
<1>2. form.id \in DOMAIN rows /\ form.row \in Sound
  BY <1>1 DEF TableOK, FormOK, NoForm, Current
<1> DEFINE row == rows[form.id]
<1>3. row \in Sound
  BY <1>2 DEF TableOK
<1>4. PICK new : /\ Saves(new)
                 /\ new.fulfilments \in {row.fulfilments, form.row.fulfilments}
                 /\ \/ new.status \in {row.status, form.row.status}
                    \/ new.status \in Transition[form.row.status]
                    \/ form.row.status = "excluded" \/ new.status = "excluded"
  <2>1. CASE Patch
    <3>1. PICK required \in {1, 2} \ {form.row.required}, read \in {form.row, row} :
            Saves([Bumped(row) EXCEPT !.status = read.status, !.required = required,
                                      !.fulfilments = form.row.fulfilments])
      BY <2>1 DEF Patch
    <3> DEFINE new == [Bumped(row) EXCEPT !.status = read.status, !.required = required,
                                          !.fulfilments = form.row.fulfilments]
    <3>2. new.fulfilments = form.row.fulfilments /\ new.status = read.status
      BY <1>3 DEF Bumped, Sound, Rows
    <3> HIDE DEF new
    <3>3. read.status \in {row.status, form.row.status}
      OBVIOUS
    <3> QED BY <3>1, <3>2, <3>3 DEF new
  <2>2. CASE ChangeStatus
    <3>1. PICK s \in Allowed(form.row.status) : Saves([Bumped(row) EXCEPT !.status = s])
      BY <2>2 DEF ChangeStatus
    <3> DEFINE new == [Bumped(row) EXCEPT !.status = s]
    <3>2. new.fulfilments = row.fulfilments /\ new.status = s
      BY <1>3 DEF Bumped, Sound, Rows
    <3> QED BY <3>1, <3>2 DEF Allowed
  <2>3. CASE ToggleExclude
    <3> DEFINE s == IF form.row.status = "excluded" THEN "open" ELSE "excluded"
               new == [Bumped(row) EXCEPT !.status = s]
    <3>1. Saves(new)
      BY <2>3 DEF ToggleExclude
    <3>2. new.fulfilments = row.fulfilments /\ new.status = s
      BY <1>3 DEF Bumped, Sound, Rows
    <3> QED BY <3>1, <3>2
  <2>4. CASE Pin
    <3>1. Bumped(row).fulfilments = row.fulfilments /\ Bumped(row).status = row.status
      BY <1>3 DEF Bumped, Sound, Rows
    <3> QED BY <2>4, <3>1 DEF Pin
  <2> QED BY <2>1, <2>2, <2>3, <2>4
<1>5. rows' = [rows EXCEPT ![form.id] = new]
  BY <1>4 DEF Saves
<1>6. /\ DOMAIN rows' = DOMAIN rows /\ rows'[form.id] = new
      /\ \A i \in DOMAIN rows \ {form.id} : rows'[i] = rows[i]
  BY <1>2, <1>5
<1> QED BY <1>1, <1>2, <1>4, <1>6

\* A verification settles a promise on the evidence that is on record once it has committed,
\* unless it had not read the row as it is and has no evidence to add.
THEOREM SettledHasEvidence == Spec => SettledOnEvidence
<1>1. TableOK /\ RunOK /\ AllHonest /\ AllSettle /\ [Next]_vars =>
        \A r \in Runs : run[r].pc = "verifying" /\ run'[r].pc = "verified" =>
          \A i \in DOMAIN rows : rows[i].status # "resolved" /\ rows'[i].status = "resolved" =>
            \/ Len(rows'[i].fulfilments) >= rows'[i].required
            \/ Stale(i) /\ tx[r].out[i].fulfilments = tx[r].seen[i].fulfilments
  <2> SUFFICES ASSUME TableOK, RunOK, AllHonest, AllSettle, [Next]_vars,
                      NEW r \in Runs, run[r].pc = "verifying", run'[r].pc = "verified",
                      NEW i \in DOMAIN rows,
                      rows[i].status # "resolved", rows'[i].status = "resolved"
               PROVE  \/ Len(rows'[i].fulfilments) >= rows'[i].required
                      \/ Stale(i) /\ tx[r].out[i].fulfilments = tx[r].seen[i].fulfilments
    OBVIOUS
  <2> DEFINE t == tx[r]
  <2>1. Writer(r) /\ Commits(r)
    <3>1. Writer(r)
      BY DEF Writer
    <3>2. ASSUME NEW q \in Runs, Writer(q), Commits(q) PROVE q = r
      <4>1. ASSUME NEW p \in Runs, Step(p), p # r PROVE run'[r] = run[r]
        BY <4>1, OthersStay
      <4>2. ASSUME NEW p \in Runs, Step(p), p # q PROVE run'[q] = run[q]
        BY <4>2, OthersStay
      <4>3. ASSUME Patch \/ ChangeStatus \/ ToggleExclude \/ Pin PROVE UNCHANGED run
        BY <4>3 DEF Patch, ChangeStatus, ToggleExclude, Pin, Saves
      <4>4. \E p \in Runs : Step(p)
        BY <3>1, <4>3 DEF Writer, Next, Look, Create, vars
      <4> QED BY <3>1, <3>2, <4>1, <4>2, <4>4 DEF Writer
    <3>3. ~UNCHANGED rows /\ ~UNCHANGED run
      BY <3>1 DEF Writer
    <3> QED BY <3>1, <3>2, <3>3, TableSteps
  <2>2. rows'[i] = Updated(t, i)
    BY <2>1, CommitWrites
  <2>3. ~(i > Len(t.seen) \/ t.out[i] = t.seen[i])
    BY <2>2 DEF Updated
  <2>4. i \in DOMAIN t.seen
    <3>1. t.seen \in Seq(Sound)
      BY DEF TableOK, Txs
    <3>2. Len(t.seen) \in Nat /\ DOMAIN t.seen = 1..Len(t.seen)
      BY <3>1, LenProperties
    <3>3. i \in Nat /\ i >= 1
      BY LenProperties DEF TableOK
    <3> QED BY <2>3, <3>2, <3>3
  <2>5. /\ t.out[i].required = t.seen[i].required
        /\ t.out[i].fulfilments # t.seen[i].fulfilments => i \in t.values
        /\ t.out[i].status = "resolved" /\ t.seen[i].status # "resolved" =>
             Len(t.out[i].fulfilments) >= t.out[i].required
    BY <2>4 DEF AllSettle, Settles
  <2> HIDE DEF t
  <2>6. /\ rows'[i].status = IF t.out[i].status = t.seen[i].status THEN rows[i].status
                             ELSE t.out[i].status
        /\ rows'[i].fulfilments = IF i \in t.values THEN t.out[i].fulfilments
                                  ELSE rows[i].fulfilments
        /\ rows'[i].required = IF i \in t.values THEN t.out[i].required ELSE rows[i].required
    BY <2>2, <2>3 DEF Updated
  <2>7. Len(t.out[i].fulfilments) >= t.out[i].required
    BY <2>5, <2>6
  <2>8. CASE i \in t.values
    BY <2>6, <2>7, <2>8
  <2>9. CASE i \notin t.values /\ t.seen[i] = rows[i]
    BY <2>5, <2>6, <2>7, <2>9
  <2>10. CASE i \notin t.values /\ t.seen[i] # rows[i]
    BY <2>1, <2>4, <2>5, <2>10 DEF Stale, t
  <2> QED BY <2>8, <2>9, <2>10
<1> QED BY <1>1, SafeTransactions, PTL DEF Spec, SettledOnEvidence

\* What a commit makes of a row that is as it read it.
LEMMA CommitAdvances ==
  ASSUME TableOK, AllHonest, NEW r \in Runs, Commits(r), NEW i \in DOMAIN rows,
         i \in DOMAIN tx[r].seen => tx[r].seen[i] = rows[i]
  PROVE  Advances(rows[i], rows'[i])
<1> DEFINE t == tx[r]
<1>1. rows[i] \in Sound /\ i \in Nat
  BY LenProperties DEF TableOK
<1>2. rows'[i] = Updated(t, i)
  BY CommitWrites
<1>3. CASE i > Len(t.seen) \/ t.out[i] = t.seen[i]
  <2>1. rows'[i] = rows[i]
    BY <1>2, <1>3 DEF Updated
  <2> QED BY <1>1, <2>1, SameAdvances
<1>4. CASE ~(i > Len(t.seen) \/ t.out[i] = t.seen[i])
  <2>1. i \in DOMAIN t.seen
    <3>1. t.seen \in Seq(Sound)
      BY DEF TableOK, Txs
    <3>2. Len(t.seen) \in Nat /\ DOMAIN t.seen = 1..Len(t.seen)
      BY <3>1, LenProperties
    <3>3. i >= 1
      BY LenProperties DEF TableOK
    <3> QED BY <1>1, <1>4, <3>2, <3>3
  <2>2. t.seen[i] = rows[i] /\ Advances(rows[i], t.out[i])
    BY <2>1 DEF AllHonest, Honest
  <2> DEFINE list == IF i \in t.values THEN t.out[i].fulfilments ELSE rows[i].fulfilments
             status == IF t.out[i].status = t.seen[i].status THEN rows[i].status
                       ELSE t.out[i].status
  <2>3. rows'[i].fulfilments = list /\ rows'[i].status = status
    BY <1>2, <1>4 DEF Updated
  <2>4. status = t.out[i].status
    BY <2>2
  <2>5. \A j \in DOMAIN rows[i].fulfilments : Counted(list, rows[i].fulfilments[j])
    BY <2>2 DEF Advances, Counted
  <2> HIDE DEF t, list, status
  <2> QED BY <2>2, <2>3, <2>4, <2>5 DEF Advances
<1> QED BY <1>3, <1>4

\* What any step makes of a row that its writer had read as it is.
LEMMA RowSteps ==
  ASSUME TableOK, RunOK, AllHonest, [Next]_vars, NEW i \in DOMAIN rows, ~Stale(i)
  PROVE  \/ rows'[i] = rows[i]
         \/ Advances(rows[i], rows'[i]) /\ ~UNCHANGED run
         \/ /\ UNCHANGED run
            /\ rows'[i].fulfilments = rows[i].fulfilments
            /\ \/ rows'[i].status = rows[i].status
               \/ rows'[i].status \in Transition[rows[i].status]
               \/ rows'[i].status = "excluded" \/ rows[i].status = "excluded"
<1>1. CASE UNCHANGED rows
  BY <1>1
<1>2. ASSUME NEW r \in Runs, Writer(r), Commits(r)
      PROVE  Advances(rows[i], rows'[i]) /\ ~UNCHANGED run
  <2>1. i \in DOMAIN tx[r].seen => tx[r].seen[i] = rows[i]
    BY <1>2 DEF Stale
  <2>2. run' # run
    BY <1>2 DEF Writer
  <2> QED BY <1>2, <2>1, <2>2, CommitAdvances
<1>3. CASE Patch \/ ChangeStatus \/ ToggleExclude \/ Pin
  <2>1. CASE i # form.id
    BY <1>3, <2>1, RequestWrites
  <2>2. CASE i = form.id
    <3>1. form.row = rows[i]
      BY <1>3, <2>2, RequestWrites DEF Stale
    <3> QED BY <1>3, <2>2, <3>1, RequestWrites
  <2> QED BY <2>1, <2>2
<1>4. ASSUME NEW key \in Keys, Create(key) PROVE rows'[i] = rows[i]
  <2>1. rows' = Append(rows, NewRow(key)) /\ rows \in Seq(Sound)
    BY <1>4 DEF Create, TableOK
  <2> QED BY <2>1, NewIsSound, AppendProperties, LenProperties
<1> QED BY <1>1, <1>2, <1>3, <1>4, TableSteps

\* Evidence on record disappears only under a writer that had not read the row as it is.
THEOREM EvidenceIsKept == Spec => FulfilmentsKept
<1>1. TableOK /\ RunOK /\ AllHonest /\ [Next]_vars =>
        \A i \in DOMAIN rows :
          \/ \A j \in DOMAIN rows[i].fulfilments :
               Counted(rows'[i].fulfilments, rows[i].fulfilments[j])
          \/ Stale(i)
  <2> SUFFICES ASSUME TableOK, RunOK, AllHonest, [Next]_vars, NEW i \in DOMAIN rows, ~Stale(i),
                      NEW j \in DOMAIN rows[i].fulfilments
               PROVE  Counted(rows'[i].fulfilments, rows[i].fulfilments[j])
    OBVIOUS
  <2>1. Counted(rows[i].fulfilments, rows[i].fulfilments[j])
    BY DEF Counted
  <2>2. CASE rows'[i].fulfilments = rows[i].fulfilments
    BY <2>1, <2>2
  <2>3. CASE Advances(rows[i], rows'[i])
    BY <2>3 DEF Advances
  <2> QED BY <2>2, <2>3, RowSteps
<1> QED BY <1>1, SafeTransactions, PTL DEF Spec, FulfilmentsKept

\* A promise advances along PROMISE_TRANSITIONS, one or two steps at a time, and leaves
\* them only for the user who excludes or restores it, unless the writer had not read the
\* row as it is.
THEOREM PromisesAdvance == Spec => StatusMoves
<1>1. TableOK /\ RunOK /\ AllHonest /\ [Next]_vars =>
        \A i \in DOMAIN rows :
          \/ rows'[i].status = rows[i].status
          \/ rows'[i].status \in Transition[rows[i].status]
          \/ ~UNCHANGED run /\ rows[i].status = "open" /\ rows'[i].status = "resolved"
          \/ UNCHANGED run /\ (rows'[i].status = "excluded" \/ rows[i].status = "excluded")
          \/ Stale(i)
  <2> SUFFICES ASSUME TableOK, RunOK, AllHonest, [Next]_vars, NEW i \in DOMAIN rows, ~Stale(i)
               PROVE  \/ rows'[i].status = rows[i].status
                      \/ rows'[i].status \in Transition[rows[i].status]
                      \/ ~UNCHANGED run /\ rows[i].status = "open" /\ rows'[i].status = "resolved"
                      \/ UNCHANGED run /\ (rows'[i].status = "excluded" \/ rows[i].status = "excluded")
    OBVIOUS
  <2>1. CASE rows'[i] = rows[i]
    BY <2>1
  <2>2. CASE Advances(rows[i], rows'[i]) /\ ~UNCHANGED run
    BY <2>2 DEF Advances
  <2> QED BY <2>1, <2>2, RowSteps
<1> QED BY <1>1, SafeTransactions, PTL DEF Spec, StatusMoves
=============================================================================
