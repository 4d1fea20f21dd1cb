------------------------ MODULE UploadPipelineProofs ------------------------
(* Theorems about UploadPipeline, for every number of files, every plan of  *)
(* batches and every choice of the constants.                               *)
EXTENDS UploadPipeline, FiniteSetTheorems, SequenceTheorems, WellFoundedInduction, TLAPS

Entry == [files : SUBSET Files, split : BOOLEAN]

\* The two halves of a batch make two entries of the recovery queue.
LEMMA HalvesType ==
  ASSUME NEW S \in SUBSET Files, NEW h \in Halves(S)
  PROVE  h \in Seq(Entry)
<1>1. PICK A \in SUBSET S : h = <<[files |-> A, split |-> FALSE],
                                 [files |-> S \ A, split |-> FALSE]>>
  BY DEF Halves
<1>2. /\ [files |-> A, split |-> FALSE] \in Entry
      /\ [files |-> S \ A, split |-> FALSE] \in Entry
  BY DEF Entry
<1>. QED  BY <1>1, <1>2

LEMMA PrependType ==
  ASSUME NEW h \in Seq(Entry), NEW q \in Seq(Entry)
  PROVE  /\ h \o q \in Seq(Entry)
         /\ Len(h \o q) = Len(h) + Len(q)
BY ConcatProperties

LEMMA SplitType ==
  ASSUME NEW S \in SUBSET Files, NEW q \in Seq(Entry), NEW r,
         r = q \/ \E h \in Halves(S) : r = h \o q
  PROVE  r \in Seq(Entry)
<1>1. CASE r = q
  BY <1>1
<1>2. ASSUME NEW h \in Halves(S), r = h \o q PROVE r \in Seq(Entry)
  BY <1>2, HalvesType, PrependType
<1>. QED  BY <1>1, <1>2

LEMMA MarkType ==
  ASSUME NEW S, NEW s \in Statuses, mem \in [Files -> Statuses]
  PROVE  Mark(S, s) \in [Files -> Statuses]
BY DEF Mark

\* TypeOK holds in every reachable state.
LEMMA InitTypeOK == ASSUME ConstantsOK, Init PROVE TypeOK
BY DEF ConstantsOK, Init, TypeOK, Statuses, Phases, Ended, Errors, Files

LEMMA NextTypeOK ==
  ASSUME ConstantsOK, TypeOK, [Next]_vars
  PROVE  TypeOK'
<1>. USE DEF ConstantsOK, TypeOK, Statuses, Phases, Ended, Errors, Files, vars,
             serverVars, trackerVars, prepVars, commitVars, recoverVars, resultVars,
             poolVars
<1>worker. ASSUME NEW f \in Files,
                  StartUpload(f) \/ FinishUpload(f) \/ PublishBlob(f) \/ RecordUpload(f)
           PROVE TypeOK'
  <2>1. CASE StartUpload(f)
    BY <2>1 DEF StartUpload, PoolStep
  <2>2. CASE FinishUpload(f)
    <3>1. Moves(f) => Oid[f] \in Oids
      BY DEF Moves
    <3>2. stored' \subseteq Oids
      BY <2>2, <3>1 DEF FinishUpload
    <3>3. outcome' \in [Files -> {"none", "ok"} \cup Errors]
      BY <2>2 DEF FinishUpload
    <3>4. wpc' \in [Files -> {"none", "queued", "running", "finished", "recorded"}]
      BY <2>2 DEF FinishUpload
    <3>. QED  BY <2>2, <3>2, <3>3, <3>4 DEF FinishUpload, PoolStep
  <2>3. CASE PublishBlob(f)
    <3>1. ready' \in [Oids -> {"none", "yes", "no"}]
      BY <2>3 DEF PublishBlob
    <3>. QED  BY <2>3, <3>1 DEF PublishBlob, PoolStep
  <2>4. CASE RecordUpload(f)
    BY <2>4 DEF RecordUpload, PoolStep
  <2>. QED  BY <1>worker, <2>1, <2>2, <2>3, <2>4
<1>Scan. CASE Scan
  <2>1. mem' \in [Files -> Statuses] /\ disk' \in [Files -> Statuses]
    <3>1. Mark(Cleared, "none") \in [Files -> Statuses]
      BY MarkType
    <3>. QED  BY <1>Scan, <3>1 DEF Scan, Save
  <2>2. plan' \in [Files -> 0..NFiles]
    BY <1>Scan DEF Scan, Plans
  <2>. QED  BY <1>Scan, <2>1, <2>2 DEF Scan
<1>Presign. CASE Presign
  <2>1. hashed' \subseteq Lfs
    BY <1>Presign DEF Presign
  <2>2. answer' \in [Oids -> {"unasked", "exists", "url", "unanswered"}]
    BY <1>Presign DEF Presign
  <2>3. ready' \in [Oids -> {"none", "yes", "no"}]
    BY <1>Presign DEF Presign
  <2>. QED  BY <1>Presign, <2>1, <2>2, <2>3 DEF Presign
<1>TakeBatch. CASE TakeBatch
  BY <1>TakeBatch DEF TakeBatch, InBatch
<1>DeferOrphans. CASE DeferOrphans
  <2>1. mem' \in [Files -> Statuses] /\ disk' \in [Files -> Statuses]
    <3>1. Mark(batch \ Orphaned, "uploaded") \in [Files -> Statuses]
      BY MarkType
    <3>. QED  BY <1>DeferOrphans, <3>1 DEF DeferOrphans, Save
  <2>2. Orphaned \subseteq Files
    BY DEF Orphaned
  <2>3. outcome' \in [Files -> {"none", "ok"} \cup Errors]
    BY <1>DeferOrphans DEF DeferOrphans
  <2>4. phase' \in {"wait", "commit"} /\ cur' \in Nat
    BY <1>DeferOrphans DEF DeferOrphans
  <2>. QED  BY <1>DeferOrphans, <2>1, <2>2, <2>3, <2>4 DEF DeferOrphans
<1>BuildBatchFails. CASE BuildBatchFails
  BY <1>BuildBatchFails DEF BuildBatchFails
<1>Commit. CASE Commit
  BY <1>Commit DEF Commit
<1>TrackCommitted. CASE TrackCommitted
  <2>1. mem' \in [Files -> Statuses] /\ disk' \in [Files -> Statuses]
    <3>1. Mark(batch, "committed") \in [Files -> Statuses]
      BY MarkType
    <3>. QED  BY <1>TrackCommitted, <3>1 DEF TrackCommitted, Save
  <2>2. phase' \in Phases
    BY <1>TrackCommitted DEF TrackCommitted, NextPhase
  <2>3. cur' \in Nat /\ failures' \in Nat
    BY <1>TrackCommitted DEF TrackCommitted
  <2>. QED  BY <1>TrackCommitted, <2>1, <2>2, <2>3 DEF TrackCommitted
<1>Abort. CASE Abort
  BY <1>Abort DEF Abort, Save
<1>PipelineDone. CASE PipelineDone
  BY <1>PipelineDone DEF PipelineDone, Save
<1>RecoverSplit. CASE RecoverSplit
  <2>1. recoverQ \in Seq(Entry) /\ recoverQ # <<>>
    BY <1>RecoverSplit DEF RecoverSplit, Entry
  <2>2. Head(recoverQ) \in Entry /\ Tail(recoverQ) \in Seq(Entry)
    BY <2>1
  <2>3. recoverQ' \in Seq(Entry)
    BY <1>RecoverSplit, <2>2, HalvesType, PrependType DEF RecoverSplit, Entry
  <2>. QED  BY <1>RecoverSplit, <2>3 DEF RecoverSplit, Entry
<1>RecoverAttempt. CASE RecoverAttempt
  <2>1. recoverQ \in Seq(Entry) /\ recoverQ # <<>>
    BY <1>RecoverAttempt DEF RecoverAttempt, Entry
  <2>2. Head(recoverQ) \in Entry /\ Tail(recoverQ) \in Seq(Entry)
    BY <2>1
  <2>. QED  BY <1>RecoverAttempt, <2>2 DEF RecoverAttempt, Entry
<1>RecoverDone. CASE RecoverDone
  BY <1>RecoverDone DEF RecoverDone
<1>Triage. CASE Triage
  BY <1>Triage DEF Triage, Drop, Dropped, Mark
<1>BeginRound. CASE BeginRound
  BY <1>BeginRound DEF BeginRound
<1>UploadsDone. CASE UploadsDone
  BY <1>UploadsDone DEF UploadsDone, Save, Mark
<1>PlanRoundBatch. CASE PlanRoundBatch
  BY <1>PlanRoundBatch DEF PlanRoundBatch
<1>RoundBuildFails. CASE RoundBuildFails
  BY <1>RoundBuildFails DEF RoundBuildFails
<1>EndRound. CASE EndRound
  BY <1>EndRound DEF EndRound, Drop, Dropped, Mark
<1>RoundsDone. CASE RoundsDone
  BY <1>RoundsDone DEF RoundsDone, Save
<1>ComputeOrphans. CASE ComputeOrphans
  BY <1>ComputeOrphans DEF ComputeOrphans
<1>DeleteOrphans. CASE DeleteOrphans
  BY <1>DeleteOrphans DEF DeleteOrphans
<1>Report. CASE Report
  BY <1>Report DEF Report
<1>CommitFails. ASSUME NEW e \in Errors, NEW p \in BOOLEAN, CommitFails(e, p) PROVE TypeOK'
  <2>1. [files |-> batch, split |-> p] \in Entry
    BY <1>CommitFails DEF CommitFails, Entry
  <2>2. recoverQ' \in Seq(Entry)
    <3>1. recoverQ \in Seq(Entry)
      BY DEF Entry
    <3>2. Append(recoverQ, [files |-> batch, split |-> p]) \in Seq(Entry)
      BY <2>1, <3>1
    <3>. QED  BY <1>CommitFails, <3>1, <3>2 DEF CommitFails
  <2>4. terminal' \subseteq Files /\ phase' \in {"aborting", "wait"}
    BY <1>CommitFails DEF CommitFails
  <2>5. failures' \in Nat /\ cur' \in Nat /\ remote' \subseteq Files
    BY <1>CommitFails DEF CommitFails
  <2>3. mem' \in [Files -> Statuses]
    <3>1. Mark(batch, "failed") \in [Files -> Statuses]
      BY MarkType
    <3>. QED  BY <1>CommitFails, <3>1 DEF CommitFails
  <2>. QED  BY <1>CommitFails, <2>2, <2>3, <2>4, <2>5 DEF CommitFails, Entry
<1>RecoverCommitFails. ASSUME NEW p \in BOOLEAN, RecoverCommitFails(p) PROVE TypeOK'
  <2>1. recoverQ' \in Seq(Entry)
    <3>1. recoverQ \in Seq(Entry) /\ batch \in SUBSET Files
      BY <1>RecoverCommitFails DEF RecoverCommitFails, Entry
    <3>2. recoverQ' = recoverQ \/ \E h \in Halves(batch) : recoverQ' = h \o recoverQ
      BY <1>RecoverCommitFails DEF RecoverCommitFails
    <3>. QED  BY <3>1, <3>2, SplitType, Zenon
  <2>2. mem' \in [Files -> Statuses]
    <3>1. Mark(batch, "failed") \in [Files -> Statuses]
      BY MarkType
    <3>. QED  BY <1>RecoverCommitFails, <3>1 DEF RecoverCommitFails
  <2>. QED  BY <1>RecoverCommitFails, <2>1, <2>2 DEF RecoverCommitFails, Entry
<1>RetryUpload. ASSUME NEW f \in Files, RetryUpload(f) PROVE TypeOK'
  <2>1. stored' \subseteq Oids
    BY <1>RetryUpload DEF RetryUpload
  <2>2. outcome' \in [Files -> {"none", "ok"} \cup Errors]
    BY <1>RetryUpload DEF RetryUpload
  <2>. QED  BY <1>RetryUpload, <2>1, <2>2 DEF RetryUpload
<1>RoundCommitFails. ASSUME NEW p \in BOOLEAN, RoundCommitFails(p) PROVE TypeOK'
  <2>1. [files |-> batch, split |-> p] \in Entry
    BY <1>RoundCommitFails DEF RoundCommitFails, Entry
  <2>2. recoverQ' \in Seq(Entry)
    BY <1>RoundCommitFails, <2>1 DEF RoundCommitFails, Entry
  <2>. QED  BY <1>RoundCommitFails, <2>2 DEF RoundCommitFails, Entry
<1>Crash. CASE Crash
  <2>1. recoverQ' \in Seq(Entry)
    BY <1>Crash DEF Crash, Forget
  <2>. QED  BY <1>Crash, <2>1 DEF Crash, Forget, Entry
<1>NewRun. CASE NewRun
  <2>1. recoverQ' \in Seq(Entry)
    BY <1>NewRun DEF NewRun, Forget
  <2>. QED  BY <1>NewRun, <2>1 DEF NewRun, Forget, Entry
<1>same. CASE UNCHANGED vars
  BY <1>same
<1>. QED
  BY <1>worker, <1>Scan, <1>Presign, <1>TakeBatch, <1>DeferOrphans,
     <1>BuildBatchFails, <1>Commit, <1>TrackCommitted, <1>Abort, <1>PipelineDone,
     <1>RecoverSplit, <1>RecoverAttempt, <1>RecoverDone, <1>Triage, <1>BeginRound,
     <1>UploadsDone, <1>PlanRoundBatch, <1>RoundBuildFails, <1>EndRound,
     <1>RoundsDone, <1>ComputeOrphans, <1>DeleteOrphans, <1>Report,
     <1>CommitFails, <1>RecoverCommitFails, <1>RetryUpload, <1>RoundCommitFails,
     <1>Crash, <1>NewRun, <1>same DEF Next, Worker, Committer, Rest

\* Every variable keeps its type.
THEOREM TypeCorrect == Spec => []TypeOK
<1>1. Init => TypeOK
  BY InitTypeOK, ConstantsOK
<1>2. TypeOK /\ [Next]_vars => TypeOK'
  BY NextTypeOK, ConstantsOK
<1>. QED  BY <1>1, <1>2, PTL DEF Spec

-----------------------------------------------------------------------------
(* Pointers and blobs                                                       *)

\* The contents that a set of files points to are stored.
Backed(S) == \A f \in S \cap Lfs : Oid[f] \in stored

\* PointerHasBlob is not inductive: what is under commit or kept for a later
\* commit must be backed already, and the two facts the check on duplicates
\* relies on must be known: blob_ready and the server's answers tell the truth,
\* and a transfer that was skipped was skipped for an owned or stored content.
BlobInv ==
  /\ Backed(remote) /\ Backed(okRound)
  /\ phase # "defer" => Backed(batch)
  /\ phase = "defer" => \A f \in batch \cap Lfs : Oid[f] \in stored \/ Owned(Oid[f])
  /\ \A i \in 1..Len(recoverQ) : Backed(recoverQ[i].files)
  /\ \A o \in Oids : ready[o] = "yes" \/ answer[o] = "exists" => o \in stored
  /\ \A f \in Lfs : wpc[f] \in {"finished", "recorded"} /\ outcome[f] = "ok" =>
                      Oid[f] \in stored \/ (Owned(Oid[f]) /\ ~Owns(f))

\* Splitting a backed batch in front of a backed queue leaves the queue backed.
LEMMA HalvesBacked ==
  ASSUME NEW S \in SUBSET Files, NEW h \in Halves(S), NEW q \in Seq(Entry),
         Backed(S), \A i \in 1..Len(q) : Backed(q[i].files)
  PROVE  \A i \in 1..Len(h \o q) : Backed((h \o q)[i].files)
<1>1. PICK A \in SUBSET S : h = <<[files |-> A, split |-> FALSE],
                                 [files |-> S \ A, split |-> FALSE]>>
  BY DEF Halves
<1>2. h \in Seq(Entry) /\ Len(h) = 2
  BY <1>1, HalvesType
<1>3. Len(h \o q) = 2 + Len(q)
  <2>1. Len(h \o q) = Len(h) + Len(q)
    BY <1>2, PrependType, Zenon
  <2>. QED  BY <1>2, <2>1
<1>4. ASSUME NEW i \in 1..Len(h \o q) PROVE Backed((h \o q)[i].files)
  <2>1. CASE i <= 2
    <3>1. (h \o q)[i] = h[i]
      BY <1>2, <1>3, <2>1, ConcatProperties
    <3>2. h[i].files \subseteq S
      BY <1>1, <2>1
    <3>. QED  BY <3>1, <3>2 DEF Backed
  <2>2. CASE i > 2
    <3>1. (h \o q)[i] = q[i - 2] /\ i - 2 \in 1..Len(q)
      BY <1>2, <1>3, <2>2, ConcatProperties
    <3>. QED  BY <3>1
  <2>. QED  BY <1>3, <2>1, <2>2
<1>. QED  BY <1>4

\* Every step keeps BlobInv.
LEMMA NextBlobInv ==
  ASSUME ConstantsOK, TypeOK, TypeOK', BlobInv, [Next]_vars
  PROVE  BlobInv'
<1>. USE DEF BlobInv, Backed
<1>0. /\ Lfs \subseteq Files /\ Oid \in [Lfs -> Oids] /\ Orphans \cap Files = {}
      /\ recoverQ \in Seq(Entry) /\ recoverQ' \in Seq(Entry)
      /\ hashed \subseteq Lfs
  BY DEF ConstantsOK, TypeOK, Entry
<1>worker. ASSUME NEW f \in Files,
                  StartUpload(f) \/ FinishUpload(f) \/ PublishBlob(f) \/ RecordUpload(f)
           PROVE BlobInv'
  <2>1. CASE StartUpload(f)
    BY <1>0, <2>1
       DEF StartUpload, PoolStep, TypeOK, Owned, Owns, commitVars, prepVars,
           recoverVars
  <2>2. CASE FinishUpload(f)
    <3>1. /\ stored \subseteq stored'
          /\ outcome'[f] = "ok" /\ Moves(f) => Oid[f] \in stored'
          /\ \A g \in Files \ {f} : outcome'[g] = outcome[g] /\ wpc'[g] = wpc[g]
      BY <2>2 DEF FinishUpload, TypeOK, Errors
    <3>2. \A o \in Oids : Owned(o)' = Owned(o)
      BY <2>2 DEF FinishUpload, PoolStep, Owned, prepVars
    <3>3. \A g \in Files : Owns(g)' = Owns(g)
      BY <2>2 DEF FinishUpload, PoolStep, Owns, Owned, prepVars
    <3>4. f \in Lfs /\ ~Moves(f) => Oid[f] \in stored \/ (Owned(Oid[f]) /\ ~Owns(f))
      BY <1>0 DEF Moves, PreValidated, Owned, TypeOK
    <3>5. ASSUME NEW g \in Lfs, wpc'[g] \in {"finished", "recorded"}, outcome'[g] = "ok"
          PROVE  Oid[g] \in stored' \/ (Owned(Oid[g])' /\ ~Owns(g)')
      BY <1>0, <3>1, <3>2, <3>3, <3>4, <3>5
    <3>6. /\ UNCHANGED <<remote, okRound, phase, batch, recoverQ, ready, answer, hashed>>
      BY <2>2 DEF FinishUpload, PoolStep, prepVars, recoverVars
    <3>. QED  BY <1>0, <3>1, <3>2, <3>5, <3>6
  <2>3. CASE PublishBlob(f)
    <3>1. \A o \in Oids : ready'[o] = "yes" => o \in stored
      BY <1>0, <2>3 DEF PublishBlob, Owns, TypeOK
    <3>2. UNCHANGED <<stored, remote, okRound, phase, batch, recoverQ, answer, hashed,
                      wpc, outcome>>
      BY <2>3 DEF PublishBlob, PoolStep, prepVars, recoverVars
    <3>. QED  BY <3>1, <3>2 DEF Owned, Owns
  <2>4. CASE RecordUpload(f)
    <3>1. \A g \in Files : wpc'[g] \in {"finished", "recorded"}
                            => wpc[g] \in {"finished", "recorded"}
      BY <1>0, <2>4 DEF RecordUpload, TypeOK
    <3>2. UNCHANGED <<stored, remote, okRound, phase, batch, recoverQ, answer, hashed,
                      outcome, ready>>
      BY <2>4 DEF RecordUpload, PoolStep, prepVars, recoverVars
    <3>. QED  BY <1>0, <3>1, <3>2 DEF Owned, Owns
  <2>. QED  BY <1>worker, <2>1, <2>2, <2>3, <2>4
<1>Presign. CASE Presign
  BY <1>0, <1>Presign
     DEF Presign, Owned, Owns, TypeOK, serverVars, commitVars, recoverVars
<1>TakeBatch. CASE TakeBatch
  BY <1>0, <1>TakeBatch
     DEF TakeBatch, InBatch, Owned, Owns, TypeOK, serverVars, prepVars, poolVars,
         recoverVars
<1>DeferOrphans. CASE DeferOrphans
  BY <1>0, <1>DeferOrphans
     DEF DeferOrphans, Orphaned, Owned, Owns, TypeOK, serverVars, prepVars,
         recoverVars
<1>CommitFails. ASSUME NEW e \in Errors, NEW p \in BOOLEAN, CommitFails(e, p) PROVE BlobInv'
  BY <1>0, <1>CommitFails DEF CommitFails, Owned, Owns, prepVars, poolVars, recoverVars
<1>RecoverSplit. CASE RecoverSplit
  <2>1. PICK h \in Halves(Head(recoverQ).files) : recoverQ' = h \o Tail(recoverQ)
    BY <1>RecoverSplit DEF RecoverSplit
  <2>2. /\ Head(recoverQ).files \in SUBSET Files /\ Backed(Head(recoverQ).files)
        /\ Tail(recoverQ) \in Seq(Entry)
        /\ \A i \in 1..Len(Tail(recoverQ)) : Backed(Tail(recoverQ)[i].files)
    <3>1. recoverQ # <<>>
      BY <1>RecoverSplit DEF RecoverSplit
    <3>2. Head(recoverQ) = recoverQ[1] /\ Len(recoverQ) \in Nat \ {0}
      BY <1>0, <3>1
    <3>3. recoverQ[1] \in Entry /\ Tail(recoverQ) \in Seq(Entry)
      BY <1>0, <3>1
    <3>4. \A i \in 1..Len(Tail(recoverQ)) : Tail(recoverQ)[i] = recoverQ[i + 1]
      BY <1>0, <3>1
    <3>5. \A i \in 1..Len(Tail(recoverQ)) : i + 1 \in 1..Len(recoverQ)
      BY <1>0, <3>1
    <3>. QED  BY <3>2, <3>3, <3>4, <3>5 DEF Entry
  <2>3. \A i \in 1..Len(recoverQ') : Backed(recoverQ'[i].files)
    BY <2>1, <2>2, HalvesBacked
  <2>. QED  BY <1>RecoverSplit, <2>3
            DEF RecoverSplit, Owned, Owns, serverVars, prepVars, poolVars, recoverVars
<1>RecoverAttempt. CASE RecoverAttempt
  BY <1>0, <1>RecoverAttempt
     DEF RecoverAttempt, Owned, Owns, serverVars, prepVars, poolVars, recoverVars
<1>RecoverCommitFails. ASSUME NEW p \in BOOLEAN, RecoverCommitFails(p) PROVE BlobInv'
  <2>1. batch \in SUBSET Files /\ Backed(batch)
    BY <1>RecoverCommitFails DEF RecoverCommitFails, TypeOK
  <2>2. recoverQ' = recoverQ \/ \E h \in Halves(batch) : recoverQ' = h \o recoverQ
    BY <1>RecoverCommitFails DEF RecoverCommitFails
  <2>3. \A i \in 1..Len(recoverQ') : Backed(recoverQ'[i].files)
    BY <1>0, <2>1, <2>2, HalvesBacked
  <2>. QED  BY <2>1, <2>3, <1>RecoverCommitFails
            DEF RecoverCommitFails, Owned, Owns, prepVars, poolVars, recoverVars
<1>RetryUpload. ASSUME NEW f \in Files, RetryUpload(f) PROVE BlobInv'
  <2>1. /\ stored \subseteq stored'
        /\ \A g \in Files : outcome'[g] = "ok" => outcome[g] = "ok"
        /\ Backed(okRound)'
    BY <1>0, <1>RetryUpload DEF RetryUpload, TypeOK, Errors
  <2>2. UNCHANGED <<remote, phase, batch, recoverQ, ready, answer, hashed, wpc>>
    BY <1>RetryUpload DEF RetryUpload, prepVars
  <2>. QED  BY <1>0, <2>1, <2>2 DEF Owned, Owns
<1>RoundCommitFails. ASSUME NEW p \in BOOLEAN, RoundCommitFails(p) PROVE BlobInv'
  BY <1>0, <1>RoundCommitFails
     DEF RoundCommitFails, Owned, Owns, prepVars, poolVars, recoverVars
<1>Crash. CASE Crash
  BY <1>0, <1>Crash DEF Crash, Forget, Owned, Owns, TypeOK
<1>NewRun. CASE NewRun
  BY <1>0, <1>NewRun DEF NewRun, Forget, Owned, Owns, TypeOK, serverVars
<1>same. CASE UNCHANGED vars
  BY <1>same DEF Owned, Owns, vars, serverVars, prepVars, recoverVars, poolVars
<1>Scan. CASE Scan
  BY <1>0, <1>Scan
     DEF Scan, Owned, Owns, TypeOK, serverVars, prepVars, poolVars, recoverVars
<1>BuildBatchFails. CASE BuildBatchFails
  BY <1>0, <1>BuildBatchFails
     DEF BuildBatchFails, Owned, Owns, TypeOK, serverVars, prepVars, poolVars,
         recoverVars
<1>Commit. CASE Commit
  BY <1>0, <1>Commit
     DEF Commit, Owned, Owns, TypeOK, serverVars, prepVars, poolVars, recoverVars
<1>TrackCommitted. CASE TrackCommitted
  BY <1>0, <1>TrackCommitted
     DEF TrackCommitted, NextPhase, Owned, Owns, TypeOK, serverVars, prepVars,
         poolVars, recoverVars
<1>Abort. CASE Abort
  BY <1>0, <1>Abort
     DEF Abort, Owned, Owns, TypeOK, serverVars, prepVars, poolVars, recoverVars
<1>PipelineDone. CASE PipelineDone
  BY <1>0, <1>PipelineDone
     DEF PipelineDone, Owned, Owns, TypeOK, serverVars, prepVars, poolVars,
         recoverVars
<1>RecoverDone. CASE RecoverDone
  BY <1>0, <1>RecoverDone
     DEF RecoverDone, Owned, Owns, TypeOK, serverVars, prepVars, poolVars,
         recoverVars
<1>Triage. CASE Triage
  BY <1>0, <1>Triage
     DEF Triage, Drop, Owned, Owns, TypeOK, serverVars, prepVars, poolVars,
         recoverVars
<1>BeginRound. CASE BeginRound
  BY <1>0, <1>BeginRound
     DEF BeginRound, Owned, Owns, TypeOK, serverVars, prepVars, poolVars,
         recoverVars
<1>UploadsDone. CASE UploadsDone
  BY <1>0, <1>UploadsDone
     DEF UploadsDone, Owned, Owns, TypeOK, serverVars, prepVars, poolVars,
         recoverVars
<1>PlanRoundBatch. CASE PlanRoundBatch
  BY <1>0, <1>PlanRoundBatch
     DEF PlanRoundBatch, Owned, Owns, TypeOK, serverVars, prepVars, poolVars,
         recoverVars
<1>RoundBuildFails. CASE RoundBuildFails
  BY <1>0, <1>RoundBuildFails
     DEF RoundBuildFails, Owned, Owns, TypeOK, serverVars, prepVars, poolVars,
         recoverVars
<1>EndRound. CASE EndRound
  BY <1>0, <1>EndRound
     DEF EndRound, Drop, Owned, Owns, TypeOK, serverVars, prepVars, poolVars,
         recoverVars
<1>RoundsDone. CASE RoundsDone
  BY <1>0, <1>RoundsDone
     DEF RoundsDone, Owned, Owns, TypeOK, serverVars, prepVars, poolVars,
         recoverVars
<1>ComputeOrphans. CASE ComputeOrphans
  BY <1>0, <1>ComputeOrphans
     DEF ComputeOrphans, Owned, Owns, TypeOK, serverVars, prepVars, poolVars,
         recoverVars
<1>DeleteOrphans. CASE DeleteOrphans
  BY <1>0, <1>DeleteOrphans
     DEF DeleteOrphans, Owned, Owns, TypeOK, serverVars, prepVars, poolVars,
         recoverVars
<1>Report. CASE Report
  BY <1>0, <1>Report
     DEF Report, Owned, Owns, TypeOK, serverVars, prepVars, poolVars, recoverVars
<1>. QED
  BY <1>Scan, <1>BuildBatchFails, <1>Commit, <1>TrackCommitted, <1>Abort,
     <1>PipelineDone, <1>RecoverDone, <1>Triage, <1>BeginRound, <1>UploadsDone,
     <1>PlanRoundBatch, <1>RoundBuildFails, <1>EndRound, <1>RoundsDone,
     <1>ComputeOrphans, <1>DeleteOrphans, <1>Report, <1>worker, <1>Presign,
     <1>TakeBatch, <1>DeferOrphans, <1>CommitFails, <1>RecoverSplit,
     <1>RecoverAttempt, <1>RecoverCommitFails, <1>RetryUpload, <1>RoundCommitFails,
     <1>Crash, <1>NewRun, <1>same
     DEF Next, Worker, Committer, Rest

\* A committed pointer never refers to a content that was not stored.
THEOREM PointersBacked == Spec => []PointerHasBlob
<1>1. Init => BlobInv
  BY ConstantsOK DEF Init, BlobInv, Backed, ConstantsOK
<1>2. TypeOK /\ TypeOK' /\ BlobInv /\ [Next]_vars => BlobInv'
  BY NextBlobInv, ConstantsOK
<1>3. BlobInv => PointerHasBlob
  BY DEF BlobInv, Backed, PointerHasBlob
<1>. QED  BY <1>1, <1>2, <1>3, TypeCorrect, PTL DEF Spec

-----------------------------------------------------------------------------
(* The tracker                                                              *)

\* A batch is marked committed only after its commit has landed.
TrackInv == CommittedIsRemote /\ (phase = "landed" => batch \subseteq remote)

LEMMA NextTrackInv ==
  ASSUME TypeOK, TrackInv, [Next]_vars
  PROVE  TrackInv'
<1>. USE DEF TrackInv, CommittedIsRemote, TypeOK, vars, serverVars, trackerVars, prepVars,
             commitVars, recoverVars, resultVars, poolVars
<1>worker. ASSUME NEW f \in Files,
                  StartUpload(f) \/ FinishUpload(f) \/ PublishBlob(f) \/ RecordUpload(f)
           PROVE TrackInv'
  BY <1>worker DEF StartUpload, FinishUpload, PublishBlob, RecordUpload, PoolStep
<1>Scan. CASE Scan
  BY <1>Scan DEF Scan, Save, Mark, Cleared
<1>Presign. CASE Presign
  BY <1>Presign DEF Presign
<1>TakeBatch. CASE TakeBatch
  BY <1>TakeBatch DEF TakeBatch, InBatch
<1>DeferOrphans. CASE DeferOrphans
  BY <1>DeferOrphans DEF DeferOrphans, Save, Mark, Orphaned
<1>BuildBatchFails. CASE BuildBatchFails
  BY <1>BuildBatchFails DEF BuildBatchFails
<1>Commit. CASE Commit
  BY <1>Commit DEF Commit
<1>TrackCommitted. CASE TrackCommitted
  BY <1>TrackCommitted DEF TrackCommitted, Save, Mark, NextPhase
<1>Abort. CASE Abort
  BY <1>Abort DEF Abort, Save
<1>PipelineDone. CASE PipelineDone
  BY <1>PipelineDone DEF PipelineDone, Save
<1>RecoverSplit. CASE RecoverSplit
  BY <1>RecoverSplit DEF RecoverSplit
<1>RecoverAttempt. CASE RecoverAttempt
  BY <1>RecoverAttempt DEF RecoverAttempt
<1>RecoverDone. CASE RecoverDone
  BY <1>RecoverDone DEF RecoverDone
<1>Triage. CASE Triage
  BY <1>Triage DEF Triage, Drop, Mark, Dropped
<1>BeginRound. CASE BeginRound
  BY <1>BeginRound DEF BeginRound
<1>UploadsDone. CASE UploadsDone
  BY <1>UploadsDone DEF UploadsDone, Save, Mark
<1>PlanRoundBatch. CASE PlanRoundBatch
  BY <1>PlanRoundBatch DEF PlanRoundBatch
<1>RoundBuildFails. CASE RoundBuildFails
  BY <1>RoundBuildFails DEF RoundBuildFails
<1>EndRound. CASE EndRound
  BY <1>EndRound DEF EndRound, Drop, Mark, Dropped
<1>RoundsDone. CASE RoundsDone
  BY <1>RoundsDone DEF RoundsDone, Save
<1>ComputeOrphans. CASE ComputeOrphans
  BY <1>ComputeOrphans DEF ComputeOrphans
<1>DeleteOrphans. CASE DeleteOrphans
  BY <1>DeleteOrphans DEF DeleteOrphans
<1>Report. CASE Report
  BY <1>Report DEF Report
<1>Crash. CASE Crash
  BY <1>Crash DEF Crash, Forget
<1>NewRun. CASE NewRun
  BY <1>NewRun DEF NewRun, Forget
<1>CommitFails. ASSUME NEW e \in Errors, NEW p \in BOOLEAN, CommitFails(e, p) PROVE TrackInv'
  BY <1>CommitFails DEF CommitFails, Mark
<1>RecoverCommitFails. ASSUME NEW p \in BOOLEAN, RecoverCommitFails(p) PROVE TrackInv'
  BY <1>RecoverCommitFails DEF RecoverCommitFails, Mark
<1>RetryUpload. ASSUME NEW f \in Files, RetryUpload(f) PROVE TrackInv'
  BY <1>RetryUpload DEF RetryUpload, Mark
<1>RoundCommitFails. ASSUME NEW p \in BOOLEAN, RoundCommitFails(p) PROVE TrackInv'
  BY <1>RoundCommitFails DEF RoundCommitFails, Mark
<1>same. CASE UNCHANGED vars
  BY <1>same
<1>. QED
  BY <1>Scan, <1>Presign, <1>TakeBatch, <1>DeferOrphans, <1>BuildBatchFails,
     <1>Commit, <1>TrackCommitted, <1>Abort, <1>PipelineDone, <1>RecoverSplit,
     <1>RecoverAttempt, <1>RecoverDone, <1>Triage, <1>BeginRound,
     <1>UploadsDone, <1>PlanRoundBatch, <1>RoundBuildFails, <1>EndRound,
     <1>RoundsDone, <1>ComputeOrphans, <1>DeleteOrphans, <1>Report, <1>Crash,
     <1>NewRun, <1>worker, <1>CommitFails, <1>RecoverCommitFails,
     <1>RetryUpload, <1>RoundCommitFails, <1>same
     DEF Next, Worker, Committer, Rest

\* What the tracker calls committed is in the repository.
THEOREM TrackerSound == Spec => []CommittedIsRemote
<1>1. Init => TrackInv
  BY DEF Init, TrackInv, CommittedIsRemote
<1>2. TypeOK /\ TrackInv /\ [Next]_vars => TrackInv'
  BY NextTrackInv
<1>3. TrackInv => CommittedIsRemote
  BY DEF TrackInv
<1>. QED  BY <1>1, <1>2, <1>3, TypeCorrect, PTL DEF Spec

-----------------------------------------------------------------------------
(* No file is lost                                                          *)

\* What each phase leaves empty, and that a worker that has ended has an outcome.
EmptyInv ==
  /\ phase \in {"recover", "triage", "round", "upload", "plan", "sync", "delete",
                "report", "done"} => left = {}
  /\ phase \in {"commit", "landed"} /\ stage # "pipeline" => left = {}
  /\ phase \in {"triage", "round", "upload", "plan", "sync", "delete", "report",
                "done"} => recoverQ = <<>>
  /\ phase \in {"commit", "landed"} /\ stage = "round" => recoverQ = <<>>
  /\ phase # "upload" => todo = {}
  /\ round = 0 \/ phase \in {"triage", "round", "sync", "delete", "report", "done"}
       => okRound = {}
  /\ phase \in {"upload", "plan"} => round # 0
  /\ phase \in {"commit", "landed"} /\ stage = "round" => round # 0
  /\ phase = "defer" => stage = "pipeline"
  /\ phase \in {"delete", "done"} => AllFailures = {}
  /\ \A f \in Files : wpc[f] \in {"finished", "recorded"} => outcome[f] # "none"

LEMMA NextEmptyInv ==
  ASSUME TypeOK, EmptyInv, [Next]_vars
  PROVE  EmptyInv'
<1>. USE DEF EmptyInv, TypeOK, AllFailures, Errors, vars, serverVars, trackerVars, prepVars,
             commitVars, recoverVars, resultVars, poolVars
<1>worker. ASSUME NEW f \in Files,
                  StartUpload(f) \/ FinishUpload(f) \/ PublishBlob(f) \/ RecordUpload(f)
           PROVE EmptyInv'
  <2>1. UNCHANGED <<left, recoverQ, todo, okRound, round, phase, stage, terminal, toRetry>>
    BY <1>worker DEF StartUpload, FinishUpload, PublishBlob, RecordUpload, PoolStep
  <2>2. \A g \in Files : wpc'[g] \in {"finished", "recorded"} => outcome'[g] # "none"
    <3>1. CASE StartUpload(f)
      BY <3>1 DEF StartUpload
    <3>2. CASE FinishUpload(f)
      BY <3>2 DEF FinishUpload
    <3>3. CASE PublishBlob(f)
      BY <3>3 DEF PublishBlob
    <3>4. CASE RecordUpload(f)
      BY <3>4 DEF RecordUpload
    <3>. QED  BY <1>worker, <3>1, <3>2, <3>3, <3>4
  <2>. QED  BY <2>1, <2>2
<1>Scan. CASE Scan
  BY <1>Scan DEF Scan, Save, Mark, Cleared
<1>Presign. CASE Presign
  BY <1>Presign DEF Presign
<1>TakeBatch. CASE TakeBatch
  BY <1>TakeBatch DEF TakeBatch, InBatch
<1>DeferOrphans. CASE DeferOrphans
  BY <1>DeferOrphans DEF DeferOrphans, Save, Mark, Orphaned
<1>BuildBatchFails. CASE BuildBatchFails
  BY <1>BuildBatchFails DEF BuildBatchFails
<1>Commit. CASE Commit
  BY <1>Commit DEF Commit
<1>TrackCommitted. CASE TrackCommitted
  <2>1. phase = "landed" /\ phase' = NextPhase[stage] /\ batch' = {}
    BY <1>TrackCommitted DEF TrackCommitted
  <2>2. UNCHANGED <<left, recoverQ, todo, okRound, round, wpc, outcome, terminal, toRetry, stage>>
    BY <1>TrackCommitted DEF TrackCommitted
  <2>3. CASE stage = "pipeline"
    BY <2>1, <2>2, <2>3 DEF NextPhase
  <2>4. CASE stage = "recover"
    BY <2>1, <2>2, <2>4 DEF NextPhase
  <2>5. CASE stage = "round"
    BY <2>1, <2>2, <2>5 DEF NextPhase
  <2>. QED  BY <2>3, <2>4, <2>5
<1>Abort. CASE Abort
  BY <1>Abort DEF Abort, Save
<1>PipelineDone. CASE PipelineDone
  BY <1>PipelineDone DEF PipelineDone, Save
<1>RecoverSplit. CASE RecoverSplit
  BY <1>RecoverSplit DEF RecoverSplit
<1>RecoverAttempt. CASE RecoverAttempt
  BY <1>RecoverAttempt DEF RecoverAttempt
<1>RecoverDone. CASE RecoverDone
  BY <1>RecoverDone DEF RecoverDone
<1>Triage. CASE Triage
  BY <1>Triage DEF Triage, Drop, Mark, Dropped
<1>BeginRound. CASE BeginRound
  BY <1>BeginRound DEF BeginRound
<1>UploadsDone. CASE UploadsDone
  BY <1>UploadsDone DEF UploadsDone, Save, Mark
<1>PlanRoundBatch. CASE PlanRoundBatch
  BY <1>PlanRoundBatch DEF PlanRoundBatch
<1>RoundBuildFails. CASE RoundBuildFails
  BY <1>RoundBuildFails DEF RoundBuildFails
<1>EndRound. CASE EndRound
  BY <1>EndRound DEF EndRound, Drop, Mark, Dropped
<1>RoundsDone. CASE RoundsDone
  BY <1>RoundsDone DEF RoundsDone, Save
<1>ComputeOrphans. CASE ComputeOrphans
  BY <1>ComputeOrphans DEF ComputeOrphans
<1>DeleteOrphans. CASE DeleteOrphans
  BY <1>DeleteOrphans DEF DeleteOrphans
<1>Report. CASE Report
  BY <1>Report DEF Report
<1>Crash. CASE Crash
  BY <1>Crash DEF Crash, Forget
<1>NewRun. CASE NewRun
  BY <1>NewRun DEF NewRun, Forget
<1>CommitFails. ASSUME NEW e \in Errors, NEW p \in BOOLEAN, CommitFails(e, p) PROVE EmptyInv'
  BY <1>CommitFails DEF CommitFails, Mark
<1>RecoverCommitFails. ASSUME NEW p \in BOOLEAN, RecoverCommitFails(p) PROVE EmptyInv'
  BY <1>RecoverCommitFails DEF RecoverCommitFails, Mark
<1>RetryUpload. ASSUME NEW f \in Files, RetryUpload(f) PROVE EmptyInv'
  BY <1>RetryUpload DEF RetryUpload, Mark
<1>RoundCommitFails. ASSUME NEW p \in BOOLEAN, RoundCommitFails(p) PROVE EmptyInv'
  BY <1>RoundCommitFails DEF RoundCommitFails, Mark
<1>same. CASE UNCHANGED vars
  BY <1>same
<1>. QED
  BY <1>Scan, <1>Presign, <1>TakeBatch, <1>DeferOrphans, <1>BuildBatchFails,
     <1>Commit, <1>TrackCommitted, <1>Abort, <1>PipelineDone, <1>RecoverSplit,
     <1>RecoverAttempt, <1>RecoverDone, <1>Triage, <1>BeginRound,
     <1>UploadsDone, <1>PlanRoundBatch, <1>RoundBuildFails, <1>EndRound,
     <1>RoundsDone, <1>ComputeOrphans, <1>DeleteOrphans, <1>Report, <1>Crash,
     <1>NewRun, <1>worker, <1>CommitFails, <1>RecoverCommitFails,
     <1>RetryUpload, <1>RoundCommitFails, <1>same
     DEF Next, Worker, Committer, Rest

\* f is in a batch of the recovery queue q.
Queued(f, q) == \E i \in 1..Len(q) : f \in q[i].files

LEMMA QueuedAppend ==
  ASSUME NEW q \in Seq(Entry), NEW e \in Entry, NEW f
  PROVE  /\ Queued(f, q) => Queued(f, Append(q, e))
         /\ f \in e.files => Queued(f, Append(q, e))
BY DEF Queued

LEMMA QueuedTail ==
  ASSUME NEW q \in Seq(Entry), q # <<>>, NEW f, Queued(f, q)
  PROVE  f \in Head(q).files \/ Queued(f, Tail(q))
<1>1. PICK i \in 1..Len(q) : f \in q[i].files
  BY DEF Queued
<1>2. CASE i = 1
  BY <1>1, <1>2
<1>3. CASE i > 1
  <2>1. i - 1 \in 1..Len(Tail(q)) /\ Tail(q)[i - 1] = q[i]
    BY <1>1, <1>3
  <2>. QED  BY <1>1, <2>1 DEF Queued
<1>. QED  BY <1>1, <1>2, <1>3

LEMMA QueuedHalves ==
  ASSUME NEW S \in SUBSET Files, NEW h \in Halves(S), NEW q \in Seq(Entry), NEW f,
         f \in S \/ Queued(f, q)
  PROVE  Queued(f, h \o q)
<1>1. PICK A \in SUBSET S : h = <<[files |-> A, split |-> FALSE],
                                 [files |-> S \ A, split |-> FALSE]>>
  BY DEF Halves
<1>2. h \in Seq(Entry) /\ Len(h) = 2
  BY <1>1, HalvesType
<1>3. /\ Len(h \o q) = 2 + Len(q)
      /\ \A i \in 1..2 : (h \o q)[i] = h[i]
      /\ \A i \in 1..Len(q) : (h \o q)[i + 2] = q[i]
  <2>1. /\ Len(h \o q) = Len(h) + Len(q)
        /\ \A i \in 1 .. Len(h) + Len(q) :
             (h \o q)[i] = IF i <= Len(h) THEN h[i] ELSE q[i - Len(h)]
    BY <1>2, ConcatProperties, Zenon
  <2>2. Len(q) \in Nat
    OBVIOUS
  <2>. DEFINE r == h \o q
  <2>3. \A i \in 1 .. 2 + Len(q) : r[i] = IF i <= 2 THEN h[i] ELSE q[i - 2]
    BY <1>2, <2>1, Zenon
  <2>. HIDE DEF r
  <2>4. \A i \in 1..2 : r[i] = h[i]
    <3>1. ASSUME NEW i \in 1..2 PROVE i \in 1 .. 2 + Len(q) /\ i <= 2
      BY <2>2
    <3>. QED  BY <2>3, <3>1, Zenon
  <2>5. \A i \in 1..Len(q) : r[i + 2] = q[i]
    <3>1. ASSUME NEW i \in 1..Len(q)
          PROVE  i + 2 \in 1 .. 2 + Len(q) /\ ~(i + 2 <= 2) /\ (i + 2) - 2 = i
      BY <2>2
    <3>. QED  BY <2>3, <3>1, Zenon
  <2>. USE DEF r
  <2>. QED  BY <1>2, <2>1, <2>4, <2>5, Zenon
<1>4. CASE f \in S
  <2>1. f \in h[1].files \/ f \in h[2].files
    BY <1>1, <1>4
  <2>. QED  BY <1>3, <2>1 DEF Queued
<1>5. CASE Queued(f, q)
  <2>1. PICK i \in 1..Len(q) : f \in q[i].files
    BY <1>5 DEF Queued
  <2>2. i + 2 \in 1..Len(h \o q) /\ f \in (h \o q)[i + 2].files
    BY <1>3, <2>1
  <2>. QED  BY <2>2 DEF Queued
<1>. QED  BY <1>4, <1>5

\* From planning on, a file is in the repository or some collection still holds it.
Kept(f) ==
  \/ f \in remote \cup left \cup toRetry \cup terminal \cup todo \cup okRound
  \/ phase \in {"defer", "commit", "landed"} /\ f \in batch
  \/ Queued(f, recoverQ)

KeptInv == phase \notin {"scan", "aborting", "raised", "crashed"} => \A f \in Files : Kept(f)

LEMMA NextKeptInv ==
  ASSUME TypeOK, TypeOK', TrackInv, EmptyInv, KeptInv, [Next]_vars
  PROVE  KeptInv'
<1>. USE DEF KeptInv, Kept, vars, serverVars, trackerVars, prepVars,
             commitVars, recoverVars, resultVars, poolVars
<1>0. recoverQ \in Seq(Entry)
  BY DEF TypeOK, Entry
<1>worker. ASSUME NEW f \in Files,
                  StartUpload(f) \/ FinishUpload(f) \/ PublishBlob(f) \/ RecordUpload(f)
           PROVE KeptInv'
  BY <1>worker DEF StartUpload, FinishUpload, PublishBlob, RecordUpload, PoolStep
<1>Scan. CASE Scan
  <2>1. \A f \in Files : f \in left' \/ f \in remote
    BY <1>Scan DEF Scan, TrackInv, CommittedIsRemote
  <2>. QED  BY <1>Scan, <2>1 DEF Scan
<1>Presign. CASE Presign
  BY <1>0, <1>Presign DEF Presign
<1>TakeBatch. CASE TakeBatch
  <2>1. \A f \in left : f \in left' \/ f \in batch' \/ f \in toRetry'
    BY <1>TakeBatch DEF TakeBatch, InBatch, EmptyInv, TypeOK, Errors
  <2>. QED  BY <1>TakeBatch, <2>1 DEF TakeBatch
<1>DeferOrphans. CASE DeferOrphans
  BY <1>0, <1>DeferOrphans DEF DeferOrphans, Save, Mark, Orphaned
<1>BuildBatchFails. CASE BuildBatchFails
  BY <1>0, <1>BuildBatchFails DEF BuildBatchFails
<1>Commit. CASE Commit
  BY <1>0, <1>Commit DEF Commit
<1>TrackCommitted. CASE TrackCommitted
  <2>1. batch \subseteq remote
    BY <1>TrackCommitted DEF TrackCommitted, TrackInv
  <2>. QED  BY <1>TrackCommitted, <2>1 DEF TrackCommitted
<1>Abort. CASE Abort
  BY <1>0, <1>Abort DEF Abort, Save
<1>PipelineDone. CASE PipelineDone
  BY <1>0, <1>PipelineDone DEF PipelineDone, Save
<1>RecoverSplit. CASE RecoverSplit
  <2>1. PICK h \in Halves(Head(recoverQ).files) : recoverQ' = h \o Tail(recoverQ)
    BY <1>RecoverSplit DEF RecoverSplit
  <2>2. recoverQ # <<>> /\ Head(recoverQ) \in Entry /\ Tail(recoverQ) \in Seq(Entry)
    BY <1>0, <1>RecoverSplit DEF RecoverSplit
  <2>3. Head(recoverQ).files \in SUBSET Files
    BY <2>2 DEF Entry
  <2>4. \A f : Queued(f, recoverQ) => Queued(f, recoverQ')
    BY <1>0, <2>1, <2>2, <2>3, QueuedTail, QueuedHalves
  <2>. QED  BY <1>RecoverSplit, <2>4 DEF RecoverSplit
<1>RecoverAttempt. CASE RecoverAttempt
  <2>1. \A f : Queued(f, recoverQ) => f \in batch' \/ Queued(f, recoverQ')
    BY <1>0, <1>RecoverAttempt, QueuedTail DEF RecoverAttempt
  <2>. QED  BY <1>RecoverAttempt, <2>1 DEF RecoverAttempt
<1>RecoverDone. CASE RecoverDone
  BY <1>0, <1>RecoverDone DEF RecoverDone
<1>Triage. CASE Triage
  BY <1>0, <1>Triage DEF Triage, Drop, Mark, Dropped
<1>BeginRound. CASE BeginRound
  BY <1>BeginRound DEF BeginRound, EmptyInv
<1>UploadsDone. CASE UploadsDone
  BY <1>0, <1>UploadsDone DEF UploadsDone, Save, Mark
<1>PlanRoundBatch. CASE PlanRoundBatch
  BY <1>0, <1>PlanRoundBatch DEF PlanRoundBatch
<1>RoundBuildFails. CASE RoundBuildFails
  BY <1>0, <1>RoundBuildFails DEF RoundBuildFails
<1>EndRound. CASE EndRound
  BY <1>0, <1>EndRound DEF EndRound, Drop, Mark, Dropped
<1>RoundsDone. CASE RoundsDone
  BY <1>0, <1>RoundsDone DEF RoundsDone, Save
<1>ComputeOrphans. CASE ComputeOrphans
  BY <1>0, <1>ComputeOrphans DEF ComputeOrphans
<1>DeleteOrphans. CASE DeleteOrphans
  BY <1>0, <1>DeleteOrphans DEF DeleteOrphans
<1>Report. CASE Report
  BY <1>0, <1>Report DEF Report
<1>Crash. CASE Crash
  BY <1>0, <1>Crash DEF Crash, Forget
<1>NewRun. CASE NewRun
  BY <1>0, <1>NewRun DEF NewRun, Forget
<1>CommitFails. ASSUME NEW e \in Errors, NEW p \in BOOLEAN, CommitFails(e, p) PROVE KeptInv'
  <2>1. batch \subseteq Files
    BY <1>CommitFails DEF CommitFails, TypeOK
  <2>2. [files |-> batch, split |-> p] \in Entry
    BY <2>1 DEF Entry
  <2>3. CASE e = "permanent"
    BY <1>CommitFails, <2>3 DEF CommitFails
  <2>4. CASE e # "permanent"
    <3>1. recoverQ' = Append(recoverQ, [files |-> batch, split |-> p])
      BY <1>CommitFails, <2>4 DEF CommitFails
    <3>2. /\ \A f : Queued(f, recoverQ) => Queued(f, recoverQ')
          /\ \A f \in batch : Queued(f, recoverQ')
      BY <1>0, <2>2, <3>1, QueuedAppend
    <3>. QED  BY <1>CommitFails, <3>2 DEF CommitFails
  <2>. QED  BY <2>3, <2>4
<1>RecoverCommitFails. ASSUME NEW p \in BOOLEAN, RecoverCommitFails(p) PROVE KeptInv'
  <2>1. batch \in SUBSET Files
    BY <1>RecoverCommitFails DEF RecoverCommitFails, TypeOK
  <2>2. CASE p /\ Cardinality(batch) > 1
    <3>1. PICK h \in Halves(batch) : recoverQ' = h \o recoverQ
      BY <1>RecoverCommitFails, <2>2 DEF RecoverCommitFails
    <3>2. \A f : f \in batch \/ Queued(f, recoverQ) => Queued(f, recoverQ')
      BY <1>0, <2>1, <3>1, QueuedHalves
    <3>. QED  BY <1>RecoverCommitFails, <2>2, <3>2 DEF RecoverCommitFails
  <2>3. CASE ~(p /\ Cardinality(batch) > 1)
    BY <1>RecoverCommitFails, <2>3 DEF RecoverCommitFails
  <2>. QED  BY <2>2, <2>3
<1>RetryUpload. ASSUME NEW f \in Files, RetryUpload(f) PROVE KeptInv'
  BY <1>0, <1>RetryUpload DEF RetryUpload, Mark
<1>RoundCommitFails. ASSUME NEW p \in BOOLEAN, RoundCommitFails(p) PROVE KeptInv'
  <2>1. recoverQ = <<>>
    BY <1>RoundCommitFails DEF RoundCommitFails, EmptyInv
  <2>2. \A f : ~Queued(f, recoverQ)
    BY <2>1 DEF Queued
  <2>3. \A f \in batch : Queued(f, recoverQ')
    BY <1>RoundCommitFails DEF RoundCommitFails, Queued
  <2>. QED  BY <1>RoundCommitFails, <2>2, <2>3 DEF RoundCommitFails
<1>same. CASE UNCHANGED vars
  BY <1>same
<1>. QED
  BY <1>Scan, <1>Presign, <1>TakeBatch, <1>DeferOrphans, <1>BuildBatchFails,
     <1>Commit, <1>TrackCommitted, <1>Abort, <1>PipelineDone, <1>RecoverSplit,
     <1>RecoverAttempt, <1>RecoverDone, <1>Triage, <1>BeginRound,
     <1>UploadsDone, <1>PlanRoundBatch, <1>RoundBuildFails, <1>EndRound,
     <1>RoundsDone, <1>ComputeOrphans, <1>DeleteOrphans, <1>Report, <1>Crash,
     <1>NewRun, <1>worker, <1>CommitFails, <1>RecoverCommitFails,
     <1>RetryUpload, <1>RoundCommitFails, <1>same
     DEF Next, Worker, Committer, Rest

\* The inductive invariant of the module.
IInv == TypeOK /\ BlobInv /\ TrackInv /\ EmptyInv /\ KeptInv

LEMMA InitIInv == ASSUME ConstantsOK, Init PROVE IInv
<1>1. TypeOK
  BY InitTypeOK
<1>2. BlobInv
  BY DEF Init, BlobInv, Backed, ConstantsOK
<1>3. TrackInv /\ EmptyInv /\ KeptInv
  BY DEF Init, TrackInv, CommittedIsRemote, EmptyInv, KeptInv
<1>. QED  BY <1>1, <1>2, <1>3 DEF IInv

LEMMA NextIInv == ASSUME ConstantsOK, IInv, [Next]_vars PROVE IInv'
<1>1. TypeOK'
  BY NextTypeOK DEF IInv
<1>. QED  BY <1>1, NextBlobInv, NextTrackInv, NextEmptyInv, NextKeptInv DEF IInv

\* The inductive invariant holds throughout: type, stored blobs, sound tracker,
\* no batch left behind, and every pending file held or committed.
THEOREM Invariant == Spec => []IInv
<1>1. Init => IInv
  BY InitIInv, ConstantsOK
<1>2. IInv /\ [Next]_vars => IInv'
  BY NextIInv, ConstantsOK
<1>. QED  BY <1>1, <1>2, PTL DEF Spec

\* When the failures are counted, a file that is in none of them is committed.
LEMMA NothingHeld ==
  ASSUME IInv, phase \in {"delete", "done"}
  PROVE  Files \subseteq remote
BY DEF IInv, EmptyInv, KeptInv, Kept, Queued, AllFailures

\* A run that returns has committed every file of the folder.
THEOREM DoneCommitted == Spec => []DoneMeansCommitted
<1>1. IInv => DoneMeansCommitted
  BY NothingHeld DEF DoneMeansCommitted
<1>. QED  BY <1>1, Invariant, PTL

\* Orphans are removed from a repository only after every local file is in it.
THEOREM SyncSafe == Spec => SyncOnlyWhenComplete
<1>1. ASSUME IInv, [Next]_vars, orphans' # orphans PROVE Files \subseteq remote
  <2>1. phase = "delete"
    <3>. USE DEF vars, serverVars
    <3>1. CASE DeleteOrphans
      BY <3>1 DEF DeleteOrphans
    <3>2. CASE Crash
      BY <1>1, <3>2 DEF Crash
    <3>3. CASE Worker
      BY <1>1, <3>3
         DEF Worker, StartUpload, FinishUpload, PublishBlob, RecordUpload, PoolStep
    <3>4. CASE Committer /\ ~DeleteOrphans
      BY <1>1, <3>4 DEF Committer, Scan, Presign, TakeBatch, DeferOrphans,
         BuildBatchFails, Commit, TrackCommitted, Abort, PipelineDone, CommitFails,
         RecoverSplit, RecoverAttempt, RecoverDone, RecoverCommitFails, Triage,
         BeginRound, UploadsDone, PlanRoundBatch, RoundBuildFails, RetryUpload,
         RoundCommitFails, EndRound, RoundsDone, ComputeOrphans, Report
    <3>5. CASE NewRun \/ Rest \/ UNCHANGED vars
      BY <1>1, <3>5 DEF NewRun, Rest
    <3>. QED  BY <1>1, <3>1, <3>2, <3>3, <3>4, <3>5 DEF Next
  <2>. QED  BY <1>1, <2>1, NothingHeld
<1>2. IInv /\ [Next]_vars => [orphans' # orphans => Files \subseteq remote]_vars
  BY <1>1
<1>. QED  BY <1>2, Invariant, PTL DEF Spec, SyncOnlyWhenComplete

-----------------------------------------------------------------------------
(* The contract                                                             *)

\* Every step is a step of UploadContract or leaves what it shows unchanged.
LEMMA NextContract ==
  ASSUME ConstantsOK, IInv, IInv', [Next]_vars
  PROVE  [Contract!Next]_Contract!vars
<1>. USE DEF Contract!vars, serverVars, trackerVars
<1>0. /\ Files = 1..NFiles /\ Oid \in [Lfs -> Oids]
      /\ batch \subseteq Files \/ phase = "delete"
      /\ phase # "defer" => Backed(batch)
      /\ \A f \in Files : disk'[f] = "committed" => f \in remote'
  BY DEF Files, ConstantsOK, IInv, TypeOK, BlobInv, TrackInv, CommittedIsRemote
<1>same. CASE UNCHANGED <<stored, remote, orphans, disk>>
  BY <1>same
<1>store. ASSUME NEW o \in Oids, stored' = stored \cup {o}, UNCHANGED <<remote, orphans, disk>>
          PROVE  [Contract!Next]_Contract!vars
  BY <1>store DEF Contract!Next, Contract!Store
<1>publish. ASSUME phase = "commit", remote' = remote \cup batch, UNCHANGED <<stored, orphans, disk>>
            PROVE  [Contract!Next]_Contract!vars
  <2>1. batch \in SUBSET Files /\ \A f \in batch \cap Lfs : Oid[f] \in stored
    BY <1>0, <1>publish DEF Backed
  <2>. QED  BY <1>publish, <2>1 DEF Contract!Next, Contract!Publish
<1>record. ASSUME UNCHANGED <<stored, remote, orphans>>
           PROVE  [Contract!Next]_Contract!vars
  BY <1>0, <1>record DEF Contract!Next, Contract!Record
<1>remove. ASSUME phase = "delete", orphans' = {}, UNCHANGED <<stored, remote, disk>>
           PROVE  [Contract!Next]_Contract!vars
  <2>1. Files \subseteq remote
    BY <1>remove, NothingHeld
  <2>. QED  BY <1>remove, <2>1 DEF Contract!Next, Contract!RemoveOrphans
<1>1. CASE Worker
  <2>1. ASSUME NEW f \in Files, FinishUpload(f)
        PROVE  [Contract!Next]_Contract!vars
    <3>1. Moves(f) => Oid[f] \in Oids
      BY <1>0 DEF Moves
    <3>2. UNCHANGED <<remote, orphans, disk>>
      BY <2>1 DEF FinishUpload, PoolStep
    <3>3. stored' = stored \/ (Moves(f) /\ stored' = stored \cup {Oid[f]})
      BY <2>1 DEF FinishUpload
    <3>. QED  BY <3>1, <3>2, <3>3, <1>same, <1>store
  <2>2. ASSUME NEW f \in Files, StartUpload(f) \/ PublishBlob(f) \/ RecordUpload(f)
        PROVE  UNCHANGED <<stored, remote, orphans, disk>>
    BY <2>2 DEF StartUpload, PublishBlob, RecordUpload, PoolStep
  <2>. QED  BY <1>1, <2>1, <2>2, <1>same DEF Worker
<1>2. ASSUME NEW f \in Files, RetryUpload(f)
      PROVE  [Contract!Next]_Contract!vars
  <2>1. f \in Lfs => Oid[f] \in Oids
    BY <1>0
  <2>2. /\ UNCHANGED <<remote, orphans, disk>>
        /\ stored' = stored \/ (f \in Lfs /\ stored' = stored \cup {Oid[f]})
    BY <1>2 DEF RetryUpload
  <2>. QED  BY <2>1, <2>2, <1>same, <1>store
<1>3. CASE Commit \/ (\E e \in Errors, p \in BOOLEAN : CommitFails(e, p))
           \/ (\E p \in BOOLEAN : RecoverCommitFails(p) \/ RoundCommitFails(p))
  <2>1. /\ phase = "commit" /\ UNCHANGED <<stored, orphans, disk>>
        /\ remote' = remote \/ remote' = remote \cup batch
    BY <1>3 DEF Commit, CommitFails, RecoverCommitFails, RoundCommitFails
  <2>. QED  BY <2>1, <1>same, <1>publish
<1>4. CASE DeleteOrphans
  <2>1. /\ phase = "delete" /\ UNCHANGED <<stored, remote, disk>>
        /\ orphans' = orphans \/ orphans' = {}
    BY <1>4 DEF DeleteOrphans
  <2>. QED  BY <2>1, <1>same, <1>remove
<1>5. CASE Crash
  <2>1. CASE phase = "commit"
    <3>1. /\ UNCHANGED <<stored, orphans, disk>>
          /\ remote' = remote \/ remote' = remote \cup batch
      BY <1>5, <2>1 DEF Crash
    <3>. QED  BY <2>1, <3>1, <1>same, <1>publish
  <2>2. CASE phase # "commit"
    <3>1. /\ UNCHANGED <<stored, remote, disk>>
          /\ orphans' = orphans \/ (phase = "delete" /\ orphans' = {})
      BY <1>5, <2>2 DEF Crash
    <3>. QED  BY <3>1, <1>same, <1>remove
  <2>. QED  BY <2>1, <2>2
<1>6. CASE Scan \/ Presign \/ TakeBatch \/ DeferOrphans \/ BuildBatchFails
           \/ TrackCommitted \/ Abort \/ PipelineDone \/ RecoverSplit \/ RecoverAttempt
           \/ RecoverDone \/ Triage \/ BeginRound \/ UploadsDone \/ PlanRoundBatch
           \/ RoundBuildFails \/ EndRound \/ RoundsDone \/ ComputeOrphans \/ Report
           \/ NewRun \/ Rest \/ UNCHANGED vars
  <2>1. UNCHANGED <<stored, remote, orphans>>
    BY <1>6 DEF Scan, Presign, TakeBatch, DeferOrphans, BuildBatchFails, TrackCommitted,
       Abort, PipelineDone, RecoverSplit, RecoverAttempt, RecoverDone, Triage, BeginRound,
       UploadsDone, PlanRoundBatch, RoundBuildFails, EndRound, RoundsDone, ComputeOrphans,
       Report, NewRun, Rest, vars
  <2>. QED  BY <2>1, <1>record
<1>. QED  BY <1>1, <1>2, <1>3, <1>4, <1>5, <1>6 DEF Next, Committer

\* upload_folder implements the contract: every behaviour of the pipeline, with
\* its crashes and its later runs, is a behaviour of UploadContract.
THEOREM Refinement == Spec => ImplementsContract
<1>1. Init => Contract!Init
  BY DEF Init, Contract!Init
<1>2. IInv /\ IInv' /\ [Next]_vars => [Contract!Next]_Contract!vars
  BY NextContract, ConstantsOK
<1>. QED  BY <1>1, <1>2, Invariant, PTL DEF Spec, ImplementsContract, Contract!Spec

-----------------------------------------------------------------------------
(* One place for every file                                                 *)

\* No file is in two batches of a recovery queue.
Apart(q) == \A i, j \in 1..Len(q) : i # j => q[i].files \cap q[j].files = {}

\* Taking the first batch leaves the files of the others, and no other file.
LEMMA TailApart ==
  ASSUME NEW q \in Seq(Entry), q # <<>>, Apart(q)
  PROVE  /\ Apart(Tail(q))
         /\ \A f : Queued(f, q) <=> f \in Head(q).files \/ Queued(f, Tail(q))
         /\ \A f \in Head(q).files : ~Queued(f, Tail(q))
<1>1. /\ Len(q) \in Nat \ {0} /\ Head(q) = q[1]
      /\ Len(Tail(q)) = Len(q) - 1
      /\ \A i \in 1..Len(Tail(q)) : Tail(q)[i] = q[i + 1]
  OBVIOUS
<1>2. \A i \in 1..Len(Tail(q)) : i + 1 \in 2..Len(q)
  BY <1>1
<1>3. Apart(Tail(q))
  BY <1>1, <1>2 DEF Apart
<1>4. ASSUME NEW f, Queued(f, q) PROVE f \in Head(q).files \/ Queued(f, Tail(q))
  BY <1>4, QueuedTail
<1>5. ASSUME NEW f, f \in Head(q).files PROVE Queued(f, q)
  <2>1. 1 \in 1..Len(q)
    BY <1>1
  <2>. QED  BY <1>1, <1>5, <2>1 DEF Queued
<1>6. ASSUME NEW f, Queued(f, Tail(q)) PROVE Queued(f, q)
  <2>1. PICK i \in 1..Len(Tail(q)) : f \in Tail(q)[i].files
    BY <1>6 DEF Queued
  <2>2. i + 1 \in 1..Len(q) /\ f \in q[i + 1].files
    BY <1>1, <2>1
  <2>. QED  BY <2>2 DEF Queued
<1>7. ASSUME NEW f \in Head(q).files PROVE ~Queued(f, Tail(q))
  <2>1. ASSUME NEW i \in 1..Len(Tail(q)), f \in Tail(q)[i].files PROVE FALSE
    <3>1. i + 1 \in 1..Len(q) /\ 1 \in 1..Len(q) /\ i + 1 # 1
      BY <1>1
    <3>2. f \in q[i + 1].files \cap q[1].files
      BY <1>1, <2>1
    <3>. QED  BY <3>1, <3>2 DEF Apart
  <2>. QED  BY <2>1 DEF Queued
<1>. QED  BY <1>3, <1>4, <1>5, <1>6, <1>7

\* A batch of files that are not in the queue may join it.
LEMMA AppendApart ==
  ASSUME NEW q \in Seq(Entry), NEW e \in Entry, Apart(q), \A f \in e.files : ~Queued(f, q)
  PROVE  /\ Apart(Append(q, e))
         /\ \A f : Queued(f, Append(q, e)) <=> Queued(f, q) \/ f \in e.files
<1>1. /\ Len(q) \in Nat /\ Len(Append(q, e)) = Len(q) + 1
      /\ Append(q, e)[Len(q) + 1] = e
      /\ \A i \in 1..Len(q) : Append(q, e)[i] = q[i]
  OBVIOUS
<1>2. ASSUME NEW i \in 1..Len(Append(q, e)), NEW j \in 1..Len(Append(q, e)), i # j
      PROVE  Append(q, e)[i].files \cap Append(q, e)[j].files = {}
  <2>1. CASE i \in 1..Len(q) /\ j \in 1..Len(q)
    BY <1>1, <1>2, <2>1 DEF Apart
  <2>2. CASE i = Len(q) + 1 /\ j \in 1..Len(q)
    BY <1>1, <2>2 DEF Queued
  <2>3. CASE j = Len(q) + 1 /\ i \in 1..Len(q)
    BY <1>1, <2>3 DEF Queued
  <2>. QED  BY <1>1, <1>2, <2>1, <2>2, <2>3
<1>3. ASSUME NEW f, Queued(f, Append(q, e)) PROVE Queued(f, q) \/ f \in e.files
  <2>1. PICK i \in 1..Len(Append(q, e)) : f \in Append(q, e)[i].files
    BY <1>3 DEF Queued
  <2>2. i \in 1..Len(q) \/ i = Len(q) + 1
    BY <1>1
  <2>. QED  BY <1>1, <2>1, <2>2 DEF Queued
<1>4. Apart(Append(q, e))
  BY <1>2 DEF Apart
<1>. QED  BY <1>3, <1>4, QueuedAppend

\* The batches behind two halves, by their index.
LEMMA ConcatTwo ==
  ASSUME NEW h \in Seq(Entry), Len(h) = 2, NEW q \in Seq(Entry)
  PROVE  /\ Len(h \o q) = 2 + Len(q)
         /\ \A i \in 1..2 : (h \o q)[i] = h[i]
         /\ \A i \in 1..Len(q) : (h \o q)[i + 2] = q[i]
<1>1. Len(h \o q) = 2 + Len(q)
  <2>1. Len(h \o q) = Len(h) + Len(q)
    BY ConcatProperties, Zenon
  <2>. QED  BY <2>1
<1>2. ASSUME NEW i \in 1..2 PROVE (h \o q)[i] = h[i]
  BY <1>1, ConcatProperties
<1>3. ASSUME NEW i \in 1..Len(q) PROVE (h \o q)[i + 2] = q[i]
  <2>1. /\ i + 2 \in 1..(Len(h) + Len(q)) /\ ~(i + 2 <= Len(h))
        /\ (i + 2) - Len(h) = i
    OBVIOUS
  <2>2. \A j \in 1..(Len(h) + Len(q)) :
          (h \o q)[j] = IF j <= Len(h) THEN h[j] ELSE q[j - Len(h)]
    BY ConcatProperties, Zenon
  <2>. QED  BY <2>1, <2>2
<1>. QED  BY <1>1, <1>2, <1>3

\* Halving a batch changes no batch behind it, and adds no file.
LEMMA HalvesEntries ==
  ASSUME NEW S \in SUBSET Files, NEW h \in Halves(S), NEW q \in Seq(Entry),
         NEW i \in 1..Len(h \o q)
  PROVE  \/ (h \o q)[i].files \subseteq S
         \/ \E j \in 1..Len(q) : (h \o q)[i] = q[j]
<1>1. PICK A \in SUBSET S : h = <<[files |-> A, split |-> FALSE],
                                 [files |-> S \ A, split |-> FALSE]>>
  BY DEF Halves
<1>2. h \in Seq(Entry) /\ Len(h) = 2
  BY <1>1, HalvesType
<1>3. /\ Len(h \o q) = 2 + Len(q)
      /\ \A j \in 1..2 : (h \o q)[j] = h[j]
      /\ \A j \in 1..Len(q) : (h \o q)[j + 2] = q[j]
  BY <1>2, ConcatTwo
<1>4. (h \o q)[1].files = A /\ (h \o q)[2].files = S \ A
  BY <1>1, <1>3
<1>5. i = 1 \/ i = 2 \/ i - 2 \in 1..Len(q)
  BY <1>3
<1>6. i - 2 \in 1..Len(q) => (h \o q)[(i - 2) + 2] = q[i - 2]
  BY <1>3
<1>. QED  BY <1>4, <1>5, <1>6

\* The converse of QueuedHalves.
LEMMA QueuedHalvesOnly ==
  ASSUME NEW S \in SUBSET Files, NEW h \in Halves(S), NEW q \in Seq(Entry), NEW f,
         Queued(f, h \o q)
  PROVE  f \in S \/ Queued(f, q)
<1>1. PICK i \in 1..Len(h \o q) : f \in (h \o q)[i].files
  BY DEF Queued
<1>. QED  BY <1>1, HalvesEntries DEF Queued

\* So may the two halves of such a batch.
LEMMA HalvesApart ==
  ASSUME NEW S \in SUBSET Files, NEW h \in Halves(S), NEW q \in Seq(Entry),
         Apart(q), \A f \in S : ~Queued(f, q)
  PROVE  Apart(h \o q)
<1>1. PICK A \in SUBSET S : h = <<[files |-> A, split |-> FALSE],
                                 [files |-> S \ A, split |-> FALSE]>>
  BY DEF Halves
<1>2. h \in Seq(Entry) /\ Len(h) = 2
  BY <1>1, HalvesType
<1>3. /\ Len(h \o q) = 2 + Len(q)
      /\ \A i \in 1..2 : (h \o q)[i] = h[i]
      /\ \A i \in 1..Len(q) : (h \o q)[i + 2] = q[i]
  BY <1>2, ConcatTwo
<1>4. /\ (h \o q)[1].files = A /\ (h \o q)[2].files = S \ A
  BY <1>1, <1>3
<1>5. ASSUME NEW i \in 1..Len(h \o q)
      PROVE  i = 1 \/ i = 2 \/ (i - 2 \in 1..Len(q) /\ (h \o q)[i] = q[i - 2])
  <2>1. i = 1 \/ i = 2 \/ i - 2 \in 1..Len(q)
    BY <1>3
  <2>2. i - 2 \in 1..Len(q) => (h \o q)[(i - 2) + 2] = q[i - 2]
    BY <1>3
  <2>. QED  BY <2>1, <2>2
<1>6. ASSUME NEW i \in 1..Len(h \o q), NEW j \in 1..Len(h \o q), i # j
      PROVE  (h \o q)[i].files \cap (h \o q)[j].files = {}
  <2>1. CASE i - 2 \in 1..Len(q) /\ j - 2 \in 1..Len(q)
    <3>1. (h \o q)[i] = q[i - 2] /\ (h \o q)[j] = q[j - 2] /\ i - 2 # j - 2
      BY <1>5, <1>6, <2>1
    <3>. QED  BY <2>1, <3>1 DEF Apart
  <2>2. CASE i \in {1, 2} /\ j \in {1, 2}
    BY <1>4, <1>6, <2>2
  <2>3. CASE i \in {1, 2} /\ j - 2 \in 1..Len(q)
    <3>1. (h \o q)[i].files \subseteq S /\ (h \o q)[j] = q[j - 2]
      BY <1>4, <1>5, <2>3
    <3>. QED  BY <2>3, <3>1 DEF Queued
  <2>4. CASE j \in {1, 2} /\ i - 2 \in 1..Len(q)
    <3>1. (h \o q)[j].files \subseteq S /\ (h \o q)[i] = q[i - 2]
      BY <1>4, <1>5, <2>4
    <3>. QED  BY <2>4, <3>1 DEF Queued
  <2>5. (i \in {1, 2} \/ i - 2 \in 1..Len(q)) /\ (j \in {1, 2} \/ j - 2 \in 1..Len(q))
    BY <1>5
  <2>. QED  BY <2>1, <2>2, <2>3, <2>4, <2>5
<1>. QED  BY <1>6 DEF Apart

\* The files that the main thread has in hand.
InHand == IF phase = "delete" THEN {} ELSE batch

\* A file is in some collection; and it is in no second one.
Somewhere(f) ==
  \/ f \in left \cup InHand \cup results \cup toRetry \cup terminal \cup todo \cup okRound
  \/ Queued(f, recoverQ)

NowhereElse(f) ==
  /\ f \in left     => f \notin InHand \cup results \cup toRetry \cup terminal \cup todo \cup okRound
  /\ f \in InHand   => f \notin results \cup toRetry \cup terminal \cup todo \cup okRound
  /\ f \in results  => f \notin toRetry \cup terminal \cup todo \cup okRound
  /\ f \in toRetry  => f \notin terminal \cup todo \cup okRound
  /\ f \in terminal => f \notin todo \cup okRound
  /\ f \in todo     => f \notin okRound
  /\ Queued(f, recoverQ) =>
       f \notin left \cup InHand \cup results \cup toRetry \cup terminal \cup todo \cup okRound

Planned == phase \notin {"scan", "crashed"}

\* EachFileInOnePlace file by file.  It needs to know where the next collection is
\* empty: a batch is taken only when none is in hand, and a run starts with nothing.
OnceInv ==
  /\ Planned => \A f \in Files : (f \in Pending <=> Somewhere(f)) /\ NowhereElse(f)
  /\ Planned => Apart(recoverQ)
  /\ ~Planned => recoverQ = <<>> /\ \A f \in Files : ~Somewhere(f)
  /\ phase \in {"scan", "presign", "wait", "recover", "triage", "round", "upload", "plan",
                "sync", "report"} => batch = {}

\* Every step keeps each file in one place.
LEMMA NextOnceInv ==
  ASSUME ConstantsOK, TypeOK, TypeOK', EmptyInv, OnceInv, [Next]_vars
  PROVE  OnceInv'
<1>. USE DEF OnceInv, Somewhere, NowhereElse, InHand, Planned, vars, serverVars,
             trackerVars, prepVars, commitVars, recoverVars, resultVars, poolVars
<1>0. /\ recoverQ \in Seq(Entry)
      /\ left \subseteq Files /\ results \subseteq Files /\ toRetry \subseteq Files
      /\ terminal \subseteq Files /\ todo \subseteq Files /\ okRound \subseteq Files
  BY DEF TypeOK, Entry
<1>plan. ASSUME UNCHANGED plan PROVE Pending' = Pending
  BY <1>plan DEF Pending
<1>worker. ASSUME NEW f \in Files,
                  StartUpload(f) \/ FinishUpload(f) \/ PublishBlob(f) \/ RecordUpload(f)
           PROVE OnceInv'
  <2>1. UNCHANGED <<plan, left, batch, results, toRetry, terminal, todo, okRound,
                    recoverQ, phase>>
    BY <1>worker DEF StartUpload, FinishUpload, PublishBlob, RecordUpload, PoolStep
  <2>. QED  BY <1>plan, <2>1
<1>Scan. CASE Scan
  <2>1. /\ recoverQ' = <<>> /\ batch' = {} /\ phase' = "presign"
        /\ \A f \in Files : f \notin results' \cup toRetry' \cup terminal' \cup todo' \cup okRound'
    BY <1>Scan DEF Scan
  <2>2. \A f \in Files : f \in Pending' <=> f \in left'
    BY <1>Scan DEF Scan, Plans, Pending
  <2>3. \A f : ~Queued(f, recoverQ')
    BY <2>1 DEF Queued
  <2>4. Apart(recoverQ')
    BY <2>1 DEF Apart
  <2>. QED  BY <2>1, <2>2, <2>3, <2>4
<1>Presign. CASE Presign
  BY <1>plan, <1>Presign DEF Presign
<1>TakeBatch. CASE TakeBatch
  <2>1. /\ batch' \subseteq InBatch(cur) /\ InBatch(cur) \subseteq left
        /\ left' = left \ InBatch(cur) /\ batch = {}
        /\ \A f \in Files : f \in InBatch(cur) => (f \in batch' <=> f \notin toRetry')
    BY <1>0, <1>TakeBatch DEF TakeBatch, InBatch, EmptyInv, TypeOK, Errors
  <2>2. \A f \in Files : f \in toRetry' <=> f \in toRetry \/ (f \in InBatch(cur) /\ f \notin batch')
    BY <1>0, <1>TakeBatch, <2>1 DEF TakeBatch
  <2>3. UNCHANGED <<results, terminal, todo, okRound, recoverQ, plan>>
    BY <1>TakeBatch DEF TakeBatch
  <2>4. phase = "wait" /\ phase' = "defer"
    BY <1>TakeBatch DEF TakeBatch
  <2>. QED  BY <1>plan, <2>1, <2>2, <2>3, <2>4
<1>DeferOrphans. CASE DeferOrphans
  <2>1. Orphaned \subseteq batch
    BY DEF Orphaned
  <2>2. /\ toRetry' = toRetry \cup Orphaned /\ batch' = batch \ Orphaned
        /\ UNCHANGED <<left, results, terminal, todo, okRound, recoverQ, plan>>
        /\ phase = "defer" /\ phase' \in {"wait", "commit"}
        /\ phase' = "wait" => batch' = {}
    BY <1>DeferOrphans DEF DeferOrphans
  <2>. QED  BY <1>plan, <2>1, <2>2
<1>BuildBatchFails. CASE BuildBatchFails
  BY <1>plan, <1>BuildBatchFails DEF BuildBatchFails
<1>Commit. CASE Commit
  BY <1>plan, <1>Commit DEF Commit
<1>TrackCommitted. CASE TrackCommitted
  <2>1. /\ results' = results \cup batch /\ batch' = {}
        /\ UNCHANGED <<left, toRetry, terminal, todo, okRound, recoverQ, plan>>
        /\ phase = "landed" /\ phase' = NextPhase[stage]
    BY <1>TrackCommitted DEF TrackCommitted
  <2>2. phase' \in {"wait", "recover", "plan"}
    <3>1. stage \in {"pipeline", "recover", "round"}
      BY DEF TypeOK
    <3>. QED  BY <2>1, <3>1 DEF NextPhase
  <2>. QED  BY <1>plan, <2>1, <2>2
<1>Abort. CASE Abort
  BY <1>plan, <1>Abort DEF Abort
<1>PipelineDone. CASE PipelineDone
  BY <1>plan, <1>PipelineDone DEF PipelineDone
<1>CommitFails. ASSUME NEW e \in Errors, NEW p \in BOOLEAN, CommitFails(e, p) PROVE OnceInv'
  <2>1. /\ batch' = {} /\ phase = "commit" /\ phase' \in {"aborting", "wait"}
        /\ UNCHANGED <<left, results, toRetry, todo, okRound, plan>>
    BY <1>CommitFails DEF CommitFails
  <2>2. CASE e = "permanent"
    <3>1. terminal' = terminal \cup batch /\ UNCHANGED recoverQ
      BY <1>CommitFails, <2>2 DEF CommitFails
    <3>. QED  BY <1>plan, <2>1, <3>1
  <2>3. CASE e # "permanent"
    <3>1. /\ recoverQ' = Append(recoverQ, [files |-> batch, split |-> p])
          /\ UNCHANGED terminal
      BY <1>CommitFails, <2>3 DEF CommitFails
    <3>2. batch \subseteq Files /\ [files |-> batch, split |-> p] \in Entry
      BY <2>1 DEF TypeOK, Entry
    <3>3. \A f \in batch : ~Queued(f, recoverQ)
      BY <2>1, <3>2
    <3>4. /\ Apart(recoverQ')
          /\ \A f : Queued(f, recoverQ') <=> Queued(f, recoverQ) \/ f \in batch
      BY <1>0, <2>1, <3>1, <3>2, <3>3, AppendApart
    <3>. QED  BY <1>plan, <2>1, <3>1, <3>4
  <2>. QED  BY <2>2, <2>3
<1>RecoverSplit. CASE RecoverSplit
  <2>1. PICK h \in Halves(Head(recoverQ).files) : recoverQ' = h \o Tail(recoverQ)
    BY <1>RecoverSplit DEF RecoverSplit
  <2>2. recoverQ # <<>> /\ Head(recoverQ) \in Entry /\ Tail(recoverQ) \in Seq(Entry)
    BY <1>0, <1>RecoverSplit DEF RecoverSplit
  <2>3. Head(recoverQ).files \in SUBSET Files
    BY <2>2 DEF Entry
  <2>4. /\ phase = "recover" /\ Apart(recoverQ)
        /\ UNCHANGED <<left, batch, results, toRetry, terminal, todo, okRound, plan, phase>>
    BY <1>RecoverSplit DEF RecoverSplit
  <2>5. /\ Apart(Tail(recoverQ))
        /\ \A f : Queued(f, recoverQ) <=> f \in Head(recoverQ).files \/ Queued(f, Tail(recoverQ))
        /\ \A f \in Head(recoverQ).files : ~Queued(f, Tail(recoverQ))
    BY <1>0, <2>2, <2>4, TailApart
  <2>6. ASSUME NEW S, S = Head(recoverQ).files, NEW q, q = Tail(recoverQ)
        PROVE  Apart(h \o q) /\ \A f : Queued(f, h \o q) <=> f \in S \/ Queued(f, q)
    <3>1. /\ S \in SUBSET Files /\ h \in Halves(S) /\ q \in Seq(Entry) /\ Apart(q)
          /\ \A f \in S : ~Queued(f, q)
      BY <2>2, <2>3, <2>5, <2>6, Zenon
    <3>2. Apart(h \o q)
      BY <3>1, HalvesApart, Zenon
    <3>3. \A f : Queued(f, h \o q) <=> f \in S \/ Queued(f, q)
      BY <3>1, QueuedHalves, QueuedHalvesOnly
    <3>. QED  BY <3>2, <3>3
  <2>7. Apart(recoverQ')
    BY <2>1, <2>6, Zenon
  <2>8. ASSUME NEW f PROVE Queued(f, recoverQ') <=> Queued(f, recoverQ)
    BY <2>1, <2>5, <2>6
  <2>. QED  BY <1>plan, <2>4, <2>7, <2>8
<1>RecoverAttempt. CASE RecoverAttempt
  <2>1. /\ phase = "recover" /\ phase' = "commit" /\ batch' = Head(recoverQ).files
        /\ recoverQ' = Tail(recoverQ) /\ recoverQ # <<>> /\ batch = {}
        /\ UNCHANGED <<left, results, toRetry, terminal, todo, okRound, plan>>
    BY <1>RecoverAttempt DEF RecoverAttempt
  <2>2. /\ Apart(recoverQ')
        /\ \A f : Queued(f, recoverQ) <=> f \in batch' \/ Queued(f, recoverQ')
        /\ \A f \in batch' : ~Queued(f, recoverQ')
    BY <1>0, <2>1, TailApart
  <2>. QED  BY <1>plan, <2>1, <2>2
<1>RecoverCommitFails. ASSUME NEW p \in BOOLEAN, RecoverCommitFails(p) PROVE OnceInv'
  <2>1. /\ batch' = {} /\ phase = "commit" /\ phase' = "recover"
        /\ UNCHANGED <<left, results, toRetry, todo, okRound, plan>>
    BY <1>RecoverCommitFails DEF RecoverCommitFails
  <2>2. batch \in SUBSET Files /\ \A f \in batch : ~Queued(f, recoverQ)
    BY <2>1 DEF TypeOK
  <2>3. CASE p /\ Cardinality(batch) > 1
    <3>1. PICK h \in Halves(batch) : recoverQ' = h \o recoverQ
      BY <1>RecoverCommitFails, <2>3 DEF RecoverCommitFails
    <3>2. UNCHANGED terminal
      BY <1>RecoverCommitFails, <2>3 DEF RecoverCommitFails
    <3>3. /\ Apart(recoverQ')
          /\ \A f : Queued(f, recoverQ') <=> f \in batch \/ Queued(f, recoverQ)
      BY <1>0, <2>1, <2>2, <3>1, HalvesApart, QueuedHalves, QueuedHalvesOnly
    <3>. QED  BY <1>plan, <2>1, <3>2, <3>3
  <2>4. CASE ~(p /\ Cardinality(batch) > 1)
    <3>1. terminal' = terminal \cup batch /\ UNCHANGED recoverQ
      BY <1>RecoverCommitFails, <2>4 DEF RecoverCommitFails
    <3>. QED  BY <1>plan, <2>1, <3>1
  <2>. QED  BY <2>3, <2>4
<1>RecoverDone. CASE RecoverDone
  BY <1>plan, <1>RecoverDone DEF RecoverDone
<1>drop. ASSUME Drop, phase \in {"triage", "plan"}, phase' = "round",
                UNCHANGED <<left, batch, results, todo, okRound, recoverQ, plan>>
         PROVE  OnceInv'
  <2>1. Dropped(toRetry) \subseteq toRetry
    BY DEF Dropped
  <2>2. /\ terminal' = terminal \cup Dropped(toRetry)
        /\ toRetry' = toRetry \ Dropped(toRetry)
    BY <1>drop DEF Drop
  <2>. HIDE DEF Drop, Dropped
  <2>. QED  BY <1>plan, <1>drop, <2>1, <2>2
<1>Triage. CASE Triage
  BY <1>drop, <1>Triage DEF Triage
<1>EndRound. CASE EndRound
  BY <1>drop, <1>EndRound DEF EndRound
<1>BeginRound. CASE BeginRound
  <2>1. /\ todo = {} /\ todo' = toRetry /\ toRetry' = {} /\ batch = {}
        /\ phase = "round" /\ phase' = "upload"
        /\ UNCHANGED <<left, batch, results, terminal, okRound, recoverQ, plan>>
    BY <1>BeginRound DEF BeginRound, EmptyInv
  <2>. QED  BY <1>plan, <2>1
<1>RetryUpload. ASSUME NEW f \in Files, RetryUpload(f) PROVE OnceInv'
  <2>1. /\ f \in todo /\ todo' = todo \ {f} /\ phase = "upload"
        /\ UNCHANGED <<left, batch, results, terminal, recoverQ, plan, phase>>
        /\ \/ okRound' = okRound \cup {f} /\ toRetry' = toRetry
           \/ toRetry' = toRetry \cup {f} /\ okRound' = okRound
    BY <1>RetryUpload DEF RetryUpload
  <2>. QED  BY <1>plan, <2>1
<1>UploadsDone. CASE UploadsDone
  BY <1>plan, <1>UploadsDone DEF UploadsDone
<1>PlanRoundBatch. CASE PlanRoundBatch
  <2>1. /\ batch' \subseteq okRound /\ okRound' = okRound \ batch' /\ batch = {}
        /\ phase = "plan" /\ phase' = "commit"
        /\ UNCHANGED <<left, results, toRetry, terminal, todo, recoverQ, plan>>
    BY <1>PlanRoundBatch DEF PlanRoundBatch
  <2>. QED  BY <1>plan, <2>1
<1>RoundBuildFails. CASE RoundBuildFails
  BY <1>plan, <1>RoundBuildFails DEF RoundBuildFails
<1>RoundCommitFails. ASSUME NEW p \in BOOLEAN, RoundCommitFails(p) PROVE OnceInv'
  <2>1. /\ recoverQ = <<>> /\ batch' = {} /\ phase = "commit" /\ phase' = "recover"
        /\ recoverQ' = <<[files |-> batch, split |-> p]>>
        /\ UNCHANGED <<left, results, toRetry, terminal, todo, okRound, plan>>
    BY <1>RoundCommitFails DEF RoundCommitFails, EmptyInv
  <2>2. Apart(recoverQ')
    BY <2>1 DEF Apart
  <2>3. \A f : Queued(f, recoverQ') <=> f \in batch
    BY <2>1 DEF Queued
  <2>4. \A f : ~Queued(f, recoverQ)
    BY <2>1 DEF Queued
  <2>. QED  BY <1>plan, <2>1, <2>2, <2>3, <2>4
<1>RoundsDone. CASE RoundsDone
  BY <1>plan, <1>RoundsDone DEF RoundsDone
<1>ComputeOrphans. CASE ComputeOrphans
  <2>1. /\ batch = {} /\ phase = "sync" /\ phase' \in {"report", "delete", "raised"}
        /\ phase' # "delete" => batch' = {}
        /\ UNCHANGED <<left, results, toRetry, terminal, todo, okRound, recoverQ, plan>>
    BY <1>ComputeOrphans DEF ComputeOrphans
  <2>. QED  BY <1>plan, <2>1
<1>DeleteOrphans. CASE DeleteOrphans
  BY <1>plan, <1>DeleteOrphans DEF DeleteOrphans
<1>Report. CASE Report
  BY <1>plan, <1>Report DEF Report
<1>forget. ASSUME Forget, phase' \in {"scan", "crashed"} PROVE OnceInv'
  <2>1. \A f : ~Queued(f, recoverQ')
    BY <1>forget DEF Forget, Queued
  <2>. QED  BY <1>forget, <2>1 DEF Forget
<1>Crash. CASE Crash
  BY <1>forget, <1>Crash DEF Crash
<1>NewRun. CASE NewRun
  BY <1>forget, <1>NewRun DEF NewRun
<1>same. CASE UNCHANGED vars
  BY <1>plan, <1>same
<1>. QED
  BY <1>Scan, <1>Presign, <1>TakeBatch, <1>DeferOrphans, <1>BuildBatchFails,
     <1>Commit, <1>TrackCommitted, <1>Abort, <1>PipelineDone, <1>RecoverSplit,
     <1>RecoverAttempt, <1>RecoverDone, <1>Triage, <1>BeginRound,
     <1>UploadsDone, <1>PlanRoundBatch, <1>RoundBuildFails, <1>EndRound,
     <1>RoundsDone, <1>ComputeOrphans, <1>DeleteOrphans, <1>Report, <1>Crash,
     <1>NewRun, <1>worker, <1>CommitFails, <1>RecoverCommitFails,
     <1>RetryUpload, <1>RoundCommitFails, <1>same
     DEF Next, Worker, Committer, Rest

-----------------------------------------------------------------------------
(* The size of a commit                                                     *)

\* A part of a set of files has no more files than the set.
LEMMA PartCardinality ==
  ASSUME ConstantsOK, NEW S \in SUBSET Files, NEW T \in SUBSET S
  PROVE  /\ Cardinality(S) \in Nat /\ Cardinality(T) \in Nat
         /\ Cardinality(T) <= Cardinality(S)
<1>1. IsFiniteSet(Files)
  <2>1. NFiles \in Int /\ 1 \in Int
    BY DEF ConstantsOK
  <2>. QED  BY <2>1, FS_Interval DEF Files
<1>2. IsFiniteSet(S)
  BY <1>1, FS_Subset
<1>. QED  BY <1>2, FS_Subset, FS_CardinalityType

\* The planner's cap holds of a planned batch and is inherited by every part of it:
\* the files left after a deferral, a recovery batch, and each half of one.
CapInv ==
  /\ Planned => \A f \in Pending : Cardinality({g \in Pending : plan[g] = plan[f]}) <= BatchCap
  /\ phase \in {"defer", "commit", "landed"} => Cardinality(batch) <= BatchCap
  /\ \A i \in 1..Len(recoverQ) : Cardinality(recoverQ[i].files) <= BatchCap

\* Every step keeps each batch within the cap.
LEMMA NextCapInv ==
  ASSUME ConstantsOK, TypeOK, TypeOK', EmptyInv, OnceInv, CapInv, [Next]_vars
  PROVE  CapInv'
<1>. USE DEF CapInv, Planned, vars, serverVars, trackerVars, prepVars, commitVars,
             recoverVars, resultVars, poolVars
<1>0. /\ recoverQ \in Seq(Entry) /\ BatchCap \in Nat
  BY DEF TypeOK, Entry, ConstantsOK
<1>plan. ASSUME UNCHANGED plan PROVE Pending' = Pending
  BY <1>plan DEF Pending
<1>still. ASSUME UNCHANGED <<plan, batch, recoverQ>>, Planned \/ ~Planned',
                 phase' \in {"defer", "commit", "landed"}
                   => phase \in {"defer", "commit", "landed"}
          PROVE  CapInv'
  BY <1>plan, <1>still
<1>worker. ASSUME NEW f \in Files,
                  StartUpload(f) \/ FinishUpload(f) \/ PublishBlob(f) \/ RecordUpload(f)
           PROVE CapInv'
  <2>1. UNCHANGED <<plan, batch, recoverQ, phase>>
    BY <1>worker DEF StartUpload, FinishUpload, PublishBlob, RecordUpload, PoolStep
  <2>. QED  BY <1>still, <2>1
<1>Scan. CASE Scan
  <2>1. /\ recoverQ' = <<>> /\ phase' = "presign"
    BY <1>Scan DEF Scan, OnceInv
  <2>2. PICK S \in SUBSET Files : plan' \in Plans(S)
    BY <1>Scan DEF Scan
  <2>3. Pending' = S
    BY <2>2 DEF Plans, Pending
  <2>4. \A f \in S : Cardinality({g \in S : plan'[g] = plan'[f]}) <= BatchCap
    BY <2>2 DEF Plans
  <2>. QED  BY <2>1, <2>3, <2>4
<1>Presign. CASE Presign
  <2>1. UNCHANGED <<plan, batch, recoverQ>> /\ Planned /\ phase' = "wait"
    BY <1>Presign DEF Presign
  <2>. QED  BY <1>still, <2>1
<1>TakeBatch. CASE TakeBatch
  <2>1. /\ batch' \subseteq InBatch(cur) /\ InBatch(cur) \subseteq left
        /\ UNCHANGED <<plan, recoverQ>> /\ phase = "wait" /\ phase' = "defer"
    BY <1>TakeBatch DEF TakeBatch, InBatch
  <2>2. \A f \in left : f \in Pending
    BY <2>1 DEF OnceInv, Somewhere, TypeOK
  <2>3. Cardinality(batch') <= BatchCap
    <3>1. CASE batch' = {}
      <4>1. Cardinality(batch') = 0
        BY <3>1, FS_EmptySet
      <4>. QED  BY <1>0, <4>1
    <3>2. CASE batch' # {}
      <4>1. PICK f \in batch' : f \in Pending /\ plan[f] = cur
        BY <2>1, <2>2, <3>2 DEF InBatch
      <4>2. batch' \subseteq {g \in Pending : plan[g] = plan[f]}
        BY <2>1, <2>2, <4>1 DEF InBatch
      <4>3. {g \in Pending : plan[g] = plan[f]} \in SUBSET Files
        BY DEF Pending
      <4>4. Cardinality({g \in Pending : plan[g] = plan[f]}) <= BatchCap
        BY <2>1, <4>1
      <4>5. /\ Cardinality(batch') <= Cardinality({g \in Pending : plan[g] = plan[f]})
            /\ Cardinality(batch') \in Nat
            /\ Cardinality({g \in Pending : plan[g] = plan[f]}) \in Nat
        BY <4>2, <4>3, PartCardinality
      <4>. QED  BY <1>0, <4>4, <4>5
    <3>. QED  BY <3>1, <3>2
  <2>. QED  BY <1>plan, <2>1, <2>3
<1>part. ASSUME NEW S \in SUBSET Files, Cardinality(S) <= BatchCap, NEW T \in SUBSET S
         PROVE  Cardinality(T) <= BatchCap
  BY <1>0, <1>part, PartCardinality
<1>DeferOrphans. CASE DeferOrphans
  <2>1. /\ batch' \subseteq batch /\ UNCHANGED <<plan, recoverQ>>
        /\ phase = "defer" /\ phase' \in {"wait", "commit"}
    BY <1>DeferOrphans DEF DeferOrphans
  <2>2. batch \in SUBSET Files
    BY <2>1 DEF TypeOK
  <2>3. Cardinality(batch') <= BatchCap
    BY <1>part, <2>1, <2>2
  <2>. QED  BY <1>plan, <2>1, <2>3
<1>BuildBatchFails. CASE BuildBatchFails
  BY <1>still, <1>BuildBatchFails DEF BuildBatchFails
<1>Commit. CASE Commit
  BY <1>still, <1>Commit DEF Commit
<1>TrackCommitted. CASE TrackCommitted
  <2>1. /\ phase = "landed" /\ phase' = NextPhase[stage] /\ UNCHANGED <<plan, recoverQ>>
    BY <1>TrackCommitted DEF TrackCommitted
  <2>2. phase' \in {"wait", "recover", "plan"}
    <3>1. stage \in {"pipeline", "recover", "round"}
      BY DEF TypeOK
    <3>. QED  BY <2>1, <3>1 DEF NextPhase
  <2>. QED  BY <1>plan, <2>1, <2>2
<1>Abort. CASE Abort
  BY <1>still, <1>Abort DEF Abort
<1>PipelineDone. CASE PipelineDone
  BY <1>still, <1>PipelineDone DEF PipelineDone
<1>CommitFails. ASSUME NEW e \in Errors, NEW p \in BOOLEAN, CommitFails(e, p) PROVE CapInv'
  <2>1. /\ phase = "commit" /\ phase' \in {"aborting", "wait"} /\ UNCHANGED plan
        /\ Cardinality(batch) <= BatchCap
    BY <1>CommitFails DEF CommitFails
  <2>2. CASE recoverQ' = recoverQ
    BY <1>plan, <2>1, <2>2
  <2>3. CASE recoverQ' = Append(recoverQ, [files |-> batch, split |-> p])
    <3>1. [files |-> batch, split |-> p] \in Entry
      BY <2>1 DEF TypeOK, Entry
    <3>2. ASSUME NEW i \in 1..Len(recoverQ')
          PROVE  Cardinality(recoverQ'[i].files) <= BatchCap
      <4>1. CASE i \in 1..Len(recoverQ)
        <5>1. recoverQ'[i] = recoverQ[i]
          BY <1>0, <2>3, <3>1, <4>1
        <5>. QED  BY <4>1, <5>1
      <4>2. CASE i \notin 1..Len(recoverQ)
        <5>1. recoverQ'[i] = [files |-> batch, split |-> p]
          BY <1>0, <2>3, <3>1, <4>2
        <5>. QED  BY <2>1, <5>1
      <4>. QED  BY <4>1, <4>2
    <3>. QED  BY <1>plan, <2>1, <3>2
  <2>. QED  BY <1>CommitFails, <2>2, <2>3 DEF CommitFails
<1>halves. ASSUME NEW S \in SUBSET Files, Cardinality(S) <= BatchCap, NEW q \in Seq(Entry),
                  \A i \in 1..Len(q) : Cardinality(q[i].files) <= BatchCap,
                  NEW h \in Halves(S), NEW i \in 1..Len(h \o q)
           PROVE  Cardinality((h \o q)[i].files) <= BatchCap
  BY <1>part, <1>halves, HalvesEntries
<1>RecoverSplit. CASE RecoverSplit
  <2>1. PICK h \in Halves(Head(recoverQ).files) : recoverQ' = h \o Tail(recoverQ)
    BY <1>RecoverSplit DEF RecoverSplit
  <2>2. recoverQ # <<>> /\ Head(recoverQ) \in Entry /\ Tail(recoverQ) \in Seq(Entry)
    BY <1>0, <1>RecoverSplit DEF RecoverSplit
  <2>3. Head(recoverQ).files \in SUBSET Files
    BY <2>2 DEF Entry
  <2>4. /\ Cardinality(Head(recoverQ).files) <= BatchCap
        /\ \A i \in 1..Len(Tail(recoverQ)) : Cardinality(Tail(recoverQ)[i].files) <= BatchCap
    BY <1>0, <2>2
  <2>5. \A i \in 1..Len(recoverQ') : Cardinality(recoverQ'[i].files) <= BatchCap
    BY <1>halves, <2>1, <2>2, <2>3, <2>4
  <2>6. phase = "recover" /\ UNCHANGED <<plan, phase>>
    BY <1>RecoverSplit DEF RecoverSplit
  <2>. QED  BY <1>plan, <2>5, <2>6
<1>RecoverAttempt. CASE RecoverAttempt
  <2>1. /\ phase = "recover" /\ phase' = "commit" /\ batch' = Head(recoverQ).files
        /\ recoverQ' = Tail(recoverQ) /\ recoverQ # <<>> /\ UNCHANGED plan
    BY <1>RecoverAttempt DEF RecoverAttempt
  <2>2. /\ Cardinality(Head(recoverQ).files) <= BatchCap
        /\ \A i \in 1..Len(Tail(recoverQ)) : Cardinality(Tail(recoverQ)[i].files) <= BatchCap
    BY <1>0, <2>1
  <2>. QED  BY <1>plan, <2>1, <2>2
<1>RecoverCommitFails. ASSUME NEW p \in BOOLEAN, RecoverCommitFails(p) PROVE CapInv'
  <2>1. /\ phase = "commit" /\ phase' = "recover" /\ UNCHANGED plan
        /\ batch \in SUBSET Files /\ Cardinality(batch) <= BatchCap
    BY <1>RecoverCommitFails DEF RecoverCommitFails, TypeOK
  <2>2. CASE recoverQ' = recoverQ
    BY <1>plan, <2>1, <2>2
  <2>3. CASE \E h \in Halves(batch) : recoverQ' = h \o recoverQ
    <3>1. PICK h \in Halves(batch) : recoverQ' = h \o recoverQ
      BY <2>3
    <3>2. \A i \in 1..Len(recoverQ') : Cardinality(recoverQ'[i].files) <= BatchCap
      BY <1>0, <1>halves, <2>1, <3>1
    <3>. QED  BY <1>plan, <2>1, <3>2
  <2>. QED  BY <1>RecoverCommitFails, <2>2, <2>3 DEF RecoverCommitFails
<1>RecoverDone. CASE RecoverDone
  BY <1>still, <1>RecoverDone DEF RecoverDone
<1>Triage. CASE Triage
  BY <1>still, <1>Triage DEF Triage
<1>EndRound. CASE EndRound
  BY <1>still, <1>EndRound DEF EndRound
<1>BeginRound. CASE BeginRound
  BY <1>still, <1>BeginRound DEF BeginRound
<1>RetryUpload. ASSUME NEW f \in Files, RetryUpload(f) PROVE CapInv'
  BY <1>still, <1>RetryUpload DEF RetryUpload
<1>UploadsDone. CASE UploadsDone
  BY <1>still, <1>UploadsDone DEF UploadsDone
<1>PlanRoundBatch. CASE PlanRoundBatch
  BY <1>plan, <1>PlanRoundBatch DEF PlanRoundBatch
<1>RoundBuildFails. CASE RoundBuildFails
  BY <1>still, <1>RoundBuildFails DEF RoundBuildFails
<1>RoundCommitFails. ASSUME NEW p \in BOOLEAN, RoundCommitFails(p) PROVE CapInv'
  <2>1. /\ phase = "commit" /\ phase' = "recover" /\ UNCHANGED plan
        /\ recoverQ' = <<[files |-> batch, split |-> p]>>
        /\ Cardinality(batch) <= BatchCap
    BY <1>RoundCommitFails DEF RoundCommitFails
  <2>. QED  BY <1>plan, <2>1
<1>RoundsDone. CASE RoundsDone
  BY <1>still, <1>RoundsDone DEF RoundsDone
<1>ComputeOrphans. CASE ComputeOrphans
  <2>1. /\ phase = "sync" /\ phase' \in {"report", "delete", "raised"}
        /\ UNCHANGED <<plan, recoverQ>>
    BY <1>ComputeOrphans DEF ComputeOrphans
  <2>. QED  BY <1>plan, <2>1
<1>DeleteOrphans. CASE DeleteOrphans
  BY <1>plan, <1>DeleteOrphans DEF DeleteOrphans
<1>Report. CASE Report
  BY <1>still, <1>Report DEF Report
<1>forget. ASSUME Forget, phase' \in {"scan", "crashed"} PROVE CapInv'
  BY <1>forget DEF Forget
<1>Crash. CASE Crash
  BY <1>forget, <1>Crash DEF Crash
<1>NewRun. CASE NewRun
  BY <1>forget, <1>NewRun DEF NewRun
<1>same. CASE UNCHANGED vars
  BY <1>still, <1>same
<1>. QED
  BY <1>Scan, <1>Presign, <1>TakeBatch, <1>DeferOrphans, <1>BuildBatchFails,
     <1>Commit, <1>TrackCommitted, <1>Abort, <1>PipelineDone, <1>RecoverSplit,
     <1>RecoverAttempt, <1>RecoverDone, <1>Triage, <1>BeginRound,
     <1>UploadsDone, <1>PlanRoundBatch, <1>RoundBuildFails, <1>EndRound,
     <1>RoundsDone, <1>ComputeOrphans, <1>DeleteOrphans, <1>Report, <1>Crash,
     <1>NewRun, <1>worker, <1>CommitFails, <1>RecoverCommitFails,
     <1>RetryUpload, <1>RoundCommitFails, <1>same
     DEF Next, Worker, Committer, Rest

-----------------------------------------------------------------------------
(* The order of the batches, and the owners of shared contents              *)

\* A content that some hashed file waits for has an owner: the first of its files.
LEMMA OwnerExists ==
  ASSUME ConstantsOK, hashed \subseteq Files, NEW f \in hashed, Owned(Oid[f])
  PROVE  \E g \in hashed : Owns(g) /\ Oid[g] = Oid[f] /\ g <= f
<1>. DEFINE R == OpToRel(<, Nat)
            T == {g \in hashed : Oid[g] = Oid[f]}
<1>1. IsWellFoundedOn(R, Nat)
  BY NatLessThanWellFounded, Zenon
<1>2. \A x, y \in Nat : y < x => <<y, x>> \in R
  BY DEF OpToRel
<1>3. T \subseteq Nat /\ f \in T
  <2>1. hashed \subseteq Nat
    <3>1. NFiles \in Nat
      BY DEF ConstantsOK
    <3>2. Files \subseteq Nat
      BY <3>1 DEF Files
    <3>. HIDE DEF R, T
    <3>. QED  BY <3>2
  <2>. HIDE DEF R
  <2>. QED  BY <2>1
<1>4. PICK g \in T : \A h \in T : ~ (<<h, g>> \in R)
  <2>. HIDE DEF R, T
  <2>. QED  BY <1>1, <1>3, WFMin, Zenon
<1>5. ASSUME NEW h \in T PROVE g <= h
  <2>1. ~ (h < g)
    <3>. HIDE DEF R
    <3>. QED  BY <1>2, <1>3, <1>4
  <2>. QED  BY <1>3, <2>1
<1>6. g \in hashed /\ Oid[g] = Oid[f] /\ g <= f
  BY <1>3, <1>5
<1>7. Owns(g)
  BY <1>5, <1>6 DEF Owns
<1>. QED  BY <1>6, <1>7

\* DeferredOnlyAfterOwnerFailed needs the order of the pipeline: every file of an
\* earlier batch has been recorded, no later file has been consumed, and a recorded
\* owner has published how its transfer ended.
OrderInv ==
  /\ hashed \subseteq Pending
  /\ phase \in {"scan", "presign"} => cur = 1 /\ hashed = {}
  /\ phase = "presign" => left = Pending
  /\ Planned => \A f, g \in Pending : f < g => plan[f] <= plan[g]
  /\ phase = "wait" =>
       \A f \in Pending : IF plan[f] < cur THEN wpc[f] = "recorded" ELSE f \in left
  /\ phase = "defer" \/ (phase \in {"commit", "landed"} /\ stage = "pipeline") =>
       \A f \in Pending : IF plan[f] <= cur THEN wpc[f] = "recorded" ELSE f \in left
  /\ phase = "defer" => \A f \in batch : plan[f] = cur
  /\ \A f \in Files : wpc[f] = "recorded" /\ Owns(f) => ready[Oid[f]] # "none"

\* Every step keeps the batches in order.
LEMMA NextOrderInv ==
  ASSUME ConstantsOK, TypeOK, TypeOK', EmptyInv, OrderInv, [Next]_vars
  PROVE  OrderInv'
<1>. USE DEF OrderInv, Planned, vars, serverVars, trackerVars, prepVars, commitVars,
             recoverVars, resultVars, poolVars
<1>0. /\ plan \in [Files -> 0..NFiles] /\ NFiles \in Nat /\ cur \in Nat
      /\ hashed \subseteq Files
  BY DEF TypeOK, ConstantsOK
<1>plan. ASSUME UNCHANGED plan PROVE Pending' = Pending
  BY <1>plan DEF Pending
<1>owns. ASSUME UNCHANGED <<hashed, answer>> PROVE \A f : Owns(f)' = Owns(f)
  BY <1>owns DEF Owns, Owned
<1>still. ASSUME UNCHANGED <<plan, hashed, answer, wpc, ready>>,
                 phase' \in {"scan", "presign"} =>
                   phase' = phase /\ UNCHANGED <<cur, left>>,
                 Planned \/ ~Planned',
                 phase' # "wait", phase' # "defer",
                 phase' \in {"commit", "landed"} /\ stage' = "pipeline" =>
                   /\ phase \in {"commit", "landed"} /\ stage = "pipeline"
                   /\ UNCHANGED <<cur, left>>
          PROVE  OrderInv'
  BY <1>plan, <1>owns, <1>still
<1>worker. ASSUME NEW f \in Files,
                  StartUpload(f) \/ FinishUpload(f) \/ PublishBlob(f) \/ RecordUpload(f)
           PROVE OrderInv'
  <2>1. UNCHANGED <<plan, hashed, answer, cur, left, batch, phase, stage>>
    BY <1>worker DEF StartUpload, FinishUpload, PublishBlob, RecordUpload, PoolStep
  <2>2. \A g \in Files : wpc[g] = "recorded" => wpc'[g] = "recorded"
    BY <1>worker
       DEF StartUpload, FinishUpload, PublishBlob, RecordUpload, TypeOK
  <2>3. ASSUME NEW g \in Files, wpc'[g] = "recorded", Owns(g)
        PROVE  ready'[Oid[g]] # "none"
    <3>1. CASE PublishBlob(f)
      <4>1. Oid[g] \in Oids /\ Oid[f] \in Oids
        BY <2>3, <3>1 DEF PublishBlob, Owns, ConstantsOK, TypeOK
      <4>2. ready \in [Oids -> {"none", "yes", "no"}]
        BY DEF TypeOK
      <4>3. wpc[g] = "recorded" /\ ready[Oid[g]] # "none"
        BY <2>3, <3>1 DEF PublishBlob
      <4>4. ready' = [ready EXCEPT ![Oid[f]] = IF outcome[f] = "ok" THEN "yes" ELSE "no"]
        BY <3>1 DEF PublishBlob
      <4>. QED  BY <4>1, <4>2, <4>3, <4>4
    <3>2. CASE RecordUpload(f)
      <4>1. /\ ready' = ready /\ wpc' = [wpc EXCEPT ![f] = "recorded"]
            /\ Owns(f) => ready[Oid[f]] # "none"
        BY <3>2 DEF RecordUpload
      <4>2. CASE g = f
        BY <2>3, <4>1, <4>2
      <4>3. CASE g # f
        <5>1. wpc[g] = "recorded"
          BY <2>3, <4>1, <4>3 DEF TypeOK
        <5>. QED  BY <2>3, <4>1, <5>1
      <4>. QED  BY <4>2, <4>3
    <3>3. CASE StartUpload(f) \/ FinishUpload(f)
      <4>1. /\ ready' = ready
            /\ wpc' \in {[wpc EXCEPT ![f] = "running"], [wpc EXCEPT ![f] = "finished"]}
        BY <3>3 DEF StartUpload, FinishUpload
      <4>2. wpc[g] = "recorded"
        BY <2>3, <4>1 DEF TypeOK
      <4>. QED  BY <2>3, <4>1, <4>2
    <3>. QED  BY <1>worker, <3>1, <3>2, <3>3
  <2>4. Pending \subseteq Files
    BY DEF Pending
  <2>. QED  BY <1>plan, <1>owns, <2>1, <2>2, <2>3, <2>4
<1>Scan. CASE Scan
  <2>1. /\ phase = "scan" /\ phase' = "presign"
        /\ UNCHANGED <<hashed, answer, cur, wpc, ready>>
    BY <1>Scan DEF Scan
  <2>2. PICK S \in SUBSET Files : plan' \in Plans(S) /\ left' = S
    BY <1>Scan DEF Scan
  <2>3. Pending' = S
    BY <2>2 DEF Plans, Pending
  <2>4. \A f, g \in S : f < g => plan'[f] <= plan'[g]
    BY <2>2 DEF Plans
  <2>. QED  BY <1>owns, <2>1, <2>2, <2>3, <2>4
<1>Presign. CASE Presign
  <2>1. /\ phase = "presign" /\ phase' = "wait" /\ UNCHANGED <<plan, cur, left>>
        /\ hashed' \subseteq Pending
        /\ \A f \in Files : wpc'[f] # "recorded"
    BY <1>Presign DEF Presign
  <2>2. \A f \in Pending : ~(plan[f] < cur)
    BY <1>0, <2>1 DEF Pending
  <2>. QED  BY <1>plan, <2>1, <2>2
<1>TakeBatch. CASE TakeBatch
  <2>1. /\ phase = "wait" /\ phase' = "defer"
        /\ batch' \subseteq InBatch(cur) /\ left' = left \ InBatch(cur)
        /\ \A f \in InBatch(cur) : wpc[f] = "recorded"
        /\ UNCHANGED <<plan, hashed, answer, cur, wpc, ready>>
    BY <1>TakeBatch DEF TakeBatch
  <2>2. ASSUME NEW f \in Pending
        PROVE  IF plan[f] <= cur THEN wpc[f] = "recorded" ELSE f \in left'
    <3>1. plan[f] \in Nat
      BY <1>0 DEF Pending
    <3>. QED  BY <1>0, <2>1, <3>1 DEF InBatch
  <2>3. \A f \in batch' : plan[f] = cur
    BY <2>1 DEF InBatch
  <2>. QED  BY <1>plan, <1>owns, <2>1, <2>2, <2>3
<1>next. ASSUME phase = "defer" \/ (phase \in {"commit", "landed"} /\ stage = "pipeline"),
                phase' \in {"wait", "aborting"}, cur' = cur + 1,
                UNCHANGED <<plan, hashed, answer, left, wpc, ready>>
         PROVE  OrderInv'
  <2>1. ASSUME NEW f \in Pending
        PROVE  IF plan[f] < cur' THEN wpc[f] = "recorded" ELSE f \in left
    <3>1. plan[f] \in Nat
      BY <1>0 DEF Pending
    <3>. QED  BY <1>0, <1>next, <3>1
  <2>. QED  BY <1>plan, <1>owns, <1>next, <2>1
<1>DeferOrphans. CASE DeferOrphans
  <2>1. /\ phase = "defer" /\ UNCHANGED <<plan, hashed, answer, left, wpc, ready, stage>>
    BY <1>DeferOrphans DEF DeferOrphans
  <2>2. CASE phase' = "wait" /\ cur' = cur + 1
    BY <1>next, <2>1, <2>2
  <2>3. CASE phase' = "commit" /\ cur' = cur
    BY <1>plan, <1>owns, <2>1, <2>3
  <2>. QED  BY <1>DeferOrphans, <2>2, <2>3 DEF DeferOrphans
<1>BuildBatchFails. CASE BuildBatchFails
  BY <1>still, <1>BuildBatchFails DEF BuildBatchFails
<1>Commit. CASE Commit
  BY <1>still, <1>Commit DEF Commit
<1>TrackCommitted. CASE TrackCommitted
  <2>1. /\ phase = "landed" /\ phase' = NextPhase[stage]
        /\ UNCHANGED <<plan, hashed, answer, left, wpc, ready, stage>>
    BY <1>TrackCommitted DEF TrackCommitted
  <2>2. stage \in {"pipeline", "recover", "round"}
    BY DEF TypeOK
  <2>3. CASE stage = "pipeline"
    <3>1. phase' = "wait" /\ cur' = cur + 1
      BY <1>TrackCommitted, <2>1, <2>3 DEF TrackCommitted, NextPhase
    <3>. QED  BY <1>next, <2>1, <2>3, <3>1
  <2>4. CASE stage # "pipeline"
    <3>1. phase' \in {"recover", "plan"}
      BY <2>1, <2>2, <2>4 DEF NextPhase
    <3>. QED  BY <1>still, <2>1, <3>1
  <2>. QED  BY <2>3, <2>4
<1>CommitFails. ASSUME NEW e \in Errors, NEW p \in BOOLEAN, CommitFails(e, p) PROVE OrderInv'
  <2>1. /\ phase = "commit" /\ stage = "pipeline" /\ phase' \in {"wait", "aborting"}
        /\ cur' = cur + 1 /\ UNCHANGED <<plan, hashed, answer, left, wpc, ready>>
    BY <1>CommitFails DEF CommitFails
  <2>. QED  BY <1>next, <2>1
<1>Abort. CASE Abort
  BY <1>still, <1>Abort DEF Abort
<1>PipelineDone. CASE PipelineDone
  BY <1>still, <1>PipelineDone DEF PipelineDone
<1>RecoverSplit. CASE RecoverSplit
  BY <1>still, <1>RecoverSplit DEF RecoverSplit
<1>RecoverAttempt. CASE RecoverAttempt
  BY <1>still, <1>RecoverAttempt DEF RecoverAttempt
<1>RecoverCommitFails. ASSUME NEW p \in BOOLEAN, RecoverCommitFails(p) PROVE OrderInv'
  BY <1>still, <1>RecoverCommitFails DEF RecoverCommitFails
<1>RecoverDone. CASE RecoverDone
  BY <1>still, <1>RecoverDone DEF RecoverDone
<1>Triage. CASE Triage
  BY <1>still, <1>Triage DEF Triage
<1>EndRound. CASE EndRound
  BY <1>still, <1>EndRound DEF EndRound
<1>BeginRound. CASE BeginRound
  BY <1>still, <1>BeginRound DEF BeginRound
<1>RetryUpload. ASSUME NEW f \in Files, RetryUpload(f) PROVE OrderInv'
  BY <1>still, <1>RetryUpload DEF RetryUpload
<1>UploadsDone. CASE UploadsDone
  BY <1>still, <1>UploadsDone DEF UploadsDone
<1>PlanRoundBatch. CASE PlanRoundBatch
  BY <1>still, <1>PlanRoundBatch DEF PlanRoundBatch
<1>RoundBuildFails. CASE RoundBuildFails
  BY <1>still, <1>RoundBuildFails DEF RoundBuildFails
<1>RoundCommitFails. ASSUME NEW p \in BOOLEAN, RoundCommitFails(p) PROVE OrderInv'
  BY <1>still, <1>RoundCommitFails DEF RoundCommitFails
<1>RoundsDone. CASE RoundsDone
  BY <1>still, <1>RoundsDone DEF RoundsDone
<1>ComputeOrphans. CASE ComputeOrphans
  BY <1>still, <1>ComputeOrphans DEF ComputeOrphans
<1>DeleteOrphans. CASE DeleteOrphans
  BY <1>still, <1>DeleteOrphans DEF DeleteOrphans
<1>Report. CASE Report
  BY <1>still, <1>Report DEF Report
<1>forget. ASSUME Forget, phase' \in {"scan", "crashed"} PROVE OrderInv'
  BY <1>forget DEF Forget
<1>Crash. CASE Crash
  BY <1>forget, <1>Crash DEF Crash
<1>NewRun. CASE NewRun
  BY <1>forget, <1>NewRun DEF NewRun
<1>same. CASE UNCHANGED vars
  BY <1>plan, <1>owns, <1>same
<1>. QED
  BY <1>Scan, <1>Presign, <1>TakeBatch, <1>DeferOrphans, <1>BuildBatchFails,
     <1>Commit, <1>TrackCommitted, <1>Abort, <1>PipelineDone, <1>RecoverSplit,
     <1>RecoverAttempt, <1>RecoverDone, <1>Triage, <1>BeginRound,
     <1>UploadsDone, <1>PlanRoundBatch, <1>RoundBuildFails, <1>EndRound,
     <1>RoundsDone, <1>ComputeOrphans, <1>DeleteOrphans, <1>Report, <1>Crash,
     <1>NewRun, <1>worker, <1>CommitFails, <1>RecoverCommitFails,
     <1>RetryUpload, <1>RoundCommitFails, <1>same
     DEF Next, Worker, Committer, Rest

-----------------------------------------------------------------------------
(* Every file is accounted for                                              *)

\* File by file to place by place.
LEMMA OncePlaces ==
  ASSUME TypeOK, OnceInv
  PROVE  EachFileInOnePlace
<1>. DEFINE N == 7 + Len(recoverQ)
<1>0. /\ recoverQ \in Seq(Entry) /\ Len(recoverQ) \in Nat
      /\ left \subseteq Files /\ results \subseteq Files /\ toRetry \subseteq Files
      /\ terminal \subseteq Files /\ todo \subseteq Files /\ okRound \subseteq Files
      /\ InHand \subseteq Files
  BY DEF TypeOK, Entry, InHand
<1>1. /\ Held(1) = left /\ Held(2) = InHand /\ Held(3) = results /\ Held(4) = toRetry
      /\ Held(5) = terminal /\ Held(6) = todo /\ Held(7) = okRound
  BY DEF Held, InHand
<1>2. ASSUME NEW i \in 8..N PROVE Held(i) = recoverQ[i - 7].files /\ i - 7 \in 1..Len(recoverQ)
  BY <1>0 DEF Held
<1>3. ASSUME NEW f PROVE Queued(f, recoverQ) <=> \E i \in 8..N : f \in Held(i)
  <2>1. ASSUME NEW j \in 1..Len(recoverQ)
        PROVE  j + 7 \in 8..N /\ Held(j + 7) = recoverQ[j].files
    BY <1>0 DEF Held
  <2>. QED  BY <1>2, <2>1 DEF Queued
<1>4. \A i \in 1..N : i \in 1..7 \/ i \in 8..N
  BY <1>0
<1>5. 1..7 \subseteq 1..N /\ 8..N \subseteq 1..N
  BY <1>0
<1>6. ASSUME NEW i \in 8..N PROVE Held(i) \subseteq Files
  <2>1. recoverQ[i - 7] \in Entry
    BY <1>0, <1>2
  <2>. QED  BY <1>2, <2>1 DEF Entry
<1>7. ASSUME Planned, NEW f \in Files
      PROVE  f \in Pending <=> f \in UNION {Held(i) : i \in 1..N}
  <2>1. f \in Pending <=> Somewhere(f)
    BY <1>7 DEF OnceInv
  <2>2. Somewhere(f) <=> \/ f \in Held(1) \cup Held(2) \cup Held(3) \cup Held(4) \cup Held(5)
                                  \cup Held(6) \cup Held(7)
                         \/ \E i \in 8..N : f \in Held(i)
    BY <1>1, <1>3 DEF Somewhere
  <2>3. Somewhere(f) <=> \E i \in 1..N : f \in Held(i)
    <3>1. ASSUME NEW i \in 1..7, f \in Held(i)
          PROVE  f \in Held(1) \cup Held(2) \cup Held(3) \cup Held(4) \cup Held(5)
                       \cup Held(6) \cup Held(7)
      <4>1. i = 1 \/ i = 2 \/ i = 3 \/ i = 4 \/ i = 5 \/ i = 6 \/ i = 7
        OBVIOUS
      <4>. QED  BY <3>1, <4>1, Zenon
    <3>2. ASSUME f \in Held(1) \cup Held(2) \cup Held(3) \cup Held(4) \cup Held(5)
                       \cup Held(6) \cup Held(7)
          PROVE  \E i \in 1..7 : f \in Held(i)
      <4>1. /\ 1 \in 1..7 /\ 2 \in 1..7 /\ 3 \in 1..7 /\ 4 \in 1..7 /\ 5 \in 1..7
            /\ 6 \in 1..7 /\ 7 \in 1..7
        OBVIOUS
      <4>. QED  BY <3>2, <4>1, Zenon
    <3>. HIDE DEF N
    <3>. QED  BY <1>4, <1>5, <2>2, <3>1, <3>2, Zenon
  <2>4. f \in UNION {Held(i) : i \in 1..N} <=> \E i \in 1..N : f \in Held(i)
    <3>. HIDE DEF N
    <3>. QED  OBVIOUS
  <2>. QED  BY <2>1, <2>3, <2>4
<1>8. ASSUME Planned PROVE Pending = UNION {Held(i) : i \in 1..N}
  <2>1. Pending \subseteq Files
    BY DEF Pending
  <2>2. UNION {Held(i) : i \in 1..N} \subseteq Files
    <3>1. ASSUME NEW i \in 1..N PROVE Held(i) \subseteq Files
      <4>1. CASE i \in 8..N
        BY <1>6, <4>1
      <4>2. CASE i \in 1..7
        <5>1. i = 1 \/ i = 2 \/ i = 3 \/ i = 4 \/ i = 5 \/ i = 6 \/ i = 7
          BY <4>2
        <5>. QED  BY <1>0, <1>1, <5>1
      <4>. QED  BY <1>4, <4>1, <4>2
    <3>. HIDE DEF N
    <3>. QED  BY <3>1
  <2>. HIDE DEF N
  <2>. QED  BY <1>7, <1>8, <2>1, <2>2
<1>9. ASSUME Planned, NEW i \in 1..N, NEW j \in 1..N, i < j
      PROVE  Held(i) \cap Held(j) = {}
  <2>1. SUFFICES ASSUME NEW f, f \in Held(i), f \in Held(j) PROVE FALSE
    OBVIOUS
  <2>2. f \in Files
    <3>1. CASE i \in 8..N
      BY <1>6, <2>1, <3>1
    <3>2. CASE i \in 1..7
      <4>1. i = 1 \/ i = 2 \/ i = 3 \/ i = 4 \/ i = 5 \/ i = 6 \/ i = 7
        BY <3>2
      <4>. QED  BY <1>0, <1>1, <2>1, <4>1
    <3>. QED  BY <1>4, <3>1, <3>2
  <2>3. NowhereElse(f)
    BY <1>9, <2>2 DEF OnceInv
  <2>4. CASE i \in 8..N /\ j \in 8..N
    <3>1. i - 7 # j - 7 /\ f \in recoverQ[i - 7].files \cap recoverQ[j - 7].files
      BY <1>2, <1>9, <2>1, <2>4
    <3>2. Apart(recoverQ)
      BY <1>9 DEF OnceInv
    <3>. QED  BY <1>2, <2>4, <3>1, <3>2 DEF Apart
  <2>5. CASE i \in 1..7 /\ j \in 8..N
    <3>1. Queued(f, recoverQ)
      BY <1>3, <2>1, <2>5
    <3>2. f \notin Held(1) \cup Held(2) \cup Held(3) \cup Held(4) \cup Held(5)
                   \cup Held(6) \cup Held(7)
      BY <1>1, <2>3, <3>1 DEF NowhereElse
    <3>3. i = 1 \/ i = 2 \/ i = 3 \/ i = 4 \/ i = 5 \/ i = 6 \/ i = 7
      BY <2>5
    <3>. QED  BY <2>1, <3>2, <3>3, Zenon
  <2>6. CASE i \in 1..7 /\ j \in 1..7
    <3>1. /\ i = 1 => j \in {2, 3, 4, 5, 6, 7}
          /\ i = 2 => j \in {3, 4, 5, 6, 7}
          /\ i = 3 => j \in {4, 5, 6, 7}
          /\ i = 4 => j \in {5, 6, 7}
          /\ i = 5 => j \in {6, 7}
          /\ i = 6 => j = 7
          /\ i # 7 /\ i \in {1, 2, 3, 4, 5, 6}
      BY <1>9, <2>6
    <3>. QED  BY <1>1, <2>1, <2>3, <3>1 DEF NowhereElse
  <2>7. i \in 8..N => j \in 8..N
    BY <1>9
  <2>. QED  BY <1>4, <2>4, <2>5, <2>6, <2>7
<1>10. ASSUME Planned, NEW i \in 1..N, NEW j \in 1..N, i # j
       PROVE  Held(i) \cap Held(j) = {}
  <2>1. i < j \/ j < i
    BY <1>0, <1>10
  <2>. HIDE DEF N
  <2>. QED  BY <1>9, <1>10, <2>1
<1>. QED  BY <1>8, <1>10 DEF EachFileInOnePlace, Planned

\* A pre-hashed file is set aside only because its owner failed.
LEMMA OwnerResolved ==
  ASSUME ConstantsOK, TypeOK, EmptyInv, OrderInv
  PROVE  DeferredOnlyAfterOwnerFailed
<1>1. SUFFICES ASSUME phase = "defer", NEW f \in Orphaned \cap hashed
               PROVE  DeferredFor(f)
  BY DEF DeferredOnlyAfterOwnerFailed
<1>2. /\ f \in batch /\ f \in hashed /\ Owned(Oid[f]) /\ ready[Oid[f]] # "yes"
      /\ f \in Lfs /\ plan[f] = cur
  BY <1>1 DEF Orphaned, OrderInv
<1>3. hashed \subseteq Pending /\ Pending \subseteq Files
  BY DEF OrderInv, Pending
<1>4. PICK g \in hashed : Owns(g) /\ Oid[g] = Oid[f] /\ g <= f
  BY <1>2, <1>3, OwnerExists
<1>5. plan[g] <= plan[f]
  <2>1. CASE g < f
    BY <1>1, <1>2, <1>3, <2>1 DEF OrderInv, Planned
  <2>2. CASE g = f
    BY <1>2, <2>2 DEF TypeOK
  <2>3. g \in Int /\ f \in Int
    BY <1>2, <1>3 DEF Files
  <2>. QED  BY <1>4, <2>1, <2>2, <2>3
<1>6. wpc[g] = "recorded"
  BY <1>1, <1>2, <1>3, <1>5 DEF OrderInv
<1>7. ready[Oid[f]] # "none"
  BY <1>3, <1>4, <1>6 DEF OrderInv
<1>8. ready[Oid[f]] \in {"none", "yes", "no"}
  BY <1>2 DEF TypeOK, ConstantsOK
<1>. QED  BY <1>2, <1>3, <1>4, <1>6, <1>7, <1>8 DEF DeferredFor

\* In every reachable state, whatever failed, was retried, halved or crashed: each
\* pending file is in exactly one collection of the main thread, a duplicate is set
\* aside only after the owner of its content failed, and no commit is above the cap.
THEOREM EveryFileAccountedFor == Spec => []FilesAccountedFor
<1>1. Init => OnceInv /\ CapInv /\ OrderInv
  <2>1. Init => \A f : ~Queued(f, recoverQ)
    BY DEF Init, Queued
  <2>2. Init => OnceInv /\ CapInv
    BY <2>1 DEF Init, OnceInv, Somewhere, InHand, Planned, CapInv
  <2>3. Init => OrderInv
    BY DEF Init, OrderInv, Planned
  <2>. QED  BY <2>2, <2>3
<1>2. /\ IInv /\ IInv' /\ OnceInv /\ CapInv /\ OrderInv /\ [Next]_vars
      => OnceInv' /\ CapInv' /\ OrderInv'
  BY ConstantsOK, NextOnceInv, NextCapInv, NextOrderInv DEF IInv
<1>3. IInv /\ OnceInv /\ CapInv /\ OrderInv => FilesAccountedFor
  <2>1. IInv /\ CapInv => UploadCommitWithinCap
    BY DEF CapInv, UploadCommitWithinCap
  <2>. QED  BY <2>1, ConstantsOK, OncePlaces, OwnerResolved DEF IInv, FilesAccountedFor
<1>. QED  BY <1>1, <1>2, <1>3, Invariant, PTL DEF Spec

-----------------------------------------------------------------------------
(* What the tracker remembers                                               *)

\* A file recorded as committed was left out of the plan or is in the results of the run,
\* and the tracker file holds no more than the memory.
MemoryInv ==
  /\ \A f \in Files : disk[f] = "committed" => mem[f] = "committed"
  /\ Planned => \A f \in Files : mem[f] = "committed" => f \in results \/ plan[f] = 0

\* No file in hand, to be retried or uploaded again is recorded as committed.
LEMMA HeldIsOpen ==
  ASSUME TypeOK, OnceInv, MemoryInv, Planned,
         NEW f \in Files, f \in InHand \cup toRetry \cup okRound
  PROVE  mem[f] # "committed"
<1>1. f \in Pending /\ f \notin results
  BY DEF OnceInv, Somewhere, NowhereElse
<1>2. plan[f] # 0
  BY <1>1 DEF Pending, TypeOK
<1>. QED  BY <1>1, <1>2 DEF MemoryInv

\* A mark on files that are not recorded as committed takes no such record away.
LEMMA MarkKeeps ==
  ASSUME NEW S, NEW s, \A f \in Files : f \in S => mem[f] # "committed"
  PROVE  \A f \in Files : /\ mem[f] = "committed" => Mark(S, s)[f] = "committed"
                          /\ s # "committed" /\ Mark(S, s)[f] = "committed" => mem[f] = "committed"
BY DEF Mark

LEMMA NextMemoryInv ==
  ASSUME TypeOK, OnceInv, MemoryInv, [Next]_vars
  PROVE  /\ MemoryInv'
         /\ \A f \in Files : disk[f] = "committed" => disk'[f] = "committed"
<1>. DEFINE Goal == /\ MemoryInv'
                    /\ \A f \in Files : disk[f] = "committed" => disk'[f] = "committed"
<1>. USE DEF vars, serverVars, trackerVars, prepVars, commitVars, recoverVars, resultVars,
             poolVars
\* The steps that leave the tracker alone.
<1>quiet. ASSUME UNCHANGED <<mem, disk, results, plan>>, Planned' => Planned PROVE Goal
  BY <1>quiet DEF MemoryInv
\* The steps that save what they have.
<1>save. ASSUME Save(mem), UNCHANGED <<results, plan>>, Planned' => Planned PROVE Goal
  BY <1>save DEF MemoryInv, Save
\* The steps that mark a batch, saved or not.
<1>mark. ASSUME NEW S \in {batch, batch \ Orphaned}, NEW s \in {"uploaded", "failed"},
                Planned, phase # "delete", mem' = Mark(S, s), disk' \in {disk, mem'},
                UNCHANGED <<results, plan>>
         PROVE  Goal
  <2>1. \A f \in Files : f \in S => mem[f] # "committed"
    BY <1>mark, HeldIsOpen DEF InHand
  <2>2. \A f \in Files : mem[f] = "committed" <=> mem'[f] = "committed"
    BY <1>mark, <2>1, MarkKeeps
  <2>. QED  BY <1>mark, <2>2 DEF MemoryInv
<1>worker. ASSUME NEW f \in Files,
                  StartUpload(f) \/ FinishUpload(f) \/ PublishBlob(f) \/ RecordUpload(f)
           PROVE Goal
  <2>1. UNCHANGED <<mem, disk, results, plan, phase>>
    BY <1>worker DEF StartUpload, FinishUpload, PublishBlob, RecordUpload, PoolStep
  <2>. QED  BY <2>1, <1>quiet DEF Planned
<1>Scan. CASE Scan
  <2>1. mem' = Mark(Cleared, "none") /\ disk' \in {mem', disk}
    BY <1>Scan DEF Scan, Save
  <2>2. \A f \in Files : mem[f] = "committed" <=> mem'[f] = "committed"
    BY <2>1, MarkKeeps DEF Cleared
  <2>3. \A f \in Files : mem[f] = "committed" => plan'[f] = 0
    BY <1>Scan DEF Scan, Plans
  <2>. QED  BY <2>1, <2>2, <2>3 DEF MemoryInv
<1>DeferOrphans. CASE DeferOrphans
  <2>1. /\ Save(Mark(batch \ Orphaned, "uploaded")) /\ phase = "defer"
        /\ UNCHANGED <<results, plan>>
    BY <1>DeferOrphans DEF DeferOrphans
  <2>. QED  BY <2>1, <1>mark DEF Save, Planned
<1>TrackCommitted. CASE TrackCommitted
  <2>1. mem' = Mark(batch, "committed") /\ disk' \in {mem', disk} /\ UNCHANGED plan
        /\ results' = results \cup batch /\ phase = "landed"
    BY <1>TrackCommitted DEF TrackCommitted, Save
  <2>2. \A f \in Files : mem'[f] = "committed" <=> mem[f] = "committed" \/ f \in batch
    BY <2>1 DEF Mark
  <2>. QED  BY <2>1, <2>2 DEF MemoryInv, Planned
<1>CommitFails. ASSUME \/ \E e \in Errors, p \in BOOLEAN : CommitFails(e, p)
                       \/ \E p \in BOOLEAN : RecoverCommitFails(p)
                PROVE  Goal
  <2>1. /\ UNCHANGED <<disk, results, plan>> /\ phase = "commit"
        /\ \/ UNCHANGED mem
           \/ mem' = Mark(batch, "failed")
    BY <1>CommitFails DEF CommitFails, RecoverCommitFails
  <2>. QED  BY <2>1, <1>mark, <1>quiet DEF Planned
<1>Drop. CASE Triage \/ EndRound
  <2>1. /\ mem' = Mark(Dropped(toRetry), "failed") /\ UNCHANGED <<disk, results, plan>>
        /\ phase \in {"triage", "plan"}
    BY <1>Drop DEF Triage, EndRound, Drop
  <2>2. \A f \in Files : f \in Dropped(toRetry) => mem[f] # "committed"
    BY <2>1, HeldIsOpen DEF Dropped, Planned
  <2>3. \A f \in Files : mem[f] = "committed" <=> mem'[f] = "committed"
    BY <2>1, <2>2, MarkKeeps
  <2>. QED  BY <2>1, <2>3 DEF MemoryInv, Planned
<1>UploadsDone. CASE UploadsDone
  <2>1. Save(Mark(okRound, "uploaded")) /\ phase = "upload" /\ UNCHANGED <<results, plan>>
    BY <1>UploadsDone DEF UploadsDone
  <2>2. \A f \in Files : f \in okRound => mem[f] # "committed"
    BY <2>1, HeldIsOpen DEF Planned
  <2>3. \A f \in Files : mem[f] = "committed" <=> mem'[f] = "committed"
    BY <2>1, <2>2, MarkKeeps DEF Save
  <2>. QED  BY <2>1, <2>3 DEF MemoryInv, Save, Planned
<1>saves. CASE Abort \/ PipelineDone \/ RoundsDone
  BY <1>saves, <1>save DEF Abort, PipelineDone, RoundsDone, Planned
<1>quiets. CASE \/ Presign \/ TakeBatch \/ BuildBatchFails \/ Commit \/ RecoverSplit
                \/ RecoverAttempt \/ RecoverDone \/ BeginRound \/ PlanRoundBatch
                \/ RoundBuildFails \/ ComputeOrphans \/ DeleteOrphans \/ Report
                \/ (\E f \in Files : RetryUpload(f))
                \/ (\E p \in BOOLEAN : RoundCommitFails(p))
  <2>1. UNCHANGED <<mem, disk, results, plan>> /\ Planned
    BY <1>quiets DEF Presign, TakeBatch, BuildBatchFails, Commit, RecoverSplit,
       RecoverAttempt, RecoverDone, BeginRound, PlanRoundBatch, RoundBuildFails,
       ComputeOrphans, DeleteOrphans, Report, RetryUpload, RoundCommitFails, Planned
  <2>. QED  BY <2>1, <1>quiet
<1>restart. CASE Crash \/ NewRun
  <2>1. mem' = disk /\ UNCHANGED disk /\ ~Planned'
    BY <1>restart DEF Crash, NewRun, Planned
  <2>. QED  BY <2>1 DEF MemoryInv
<1>same. CASE Rest \/ UNCHANGED vars
  BY <1>same, <1>quiet DEF Rest, Planned
<1>. QED
  BY <1>worker, <1>Scan, <1>DeferOrphans, <1>TrackCommitted, <1>CommitFails, <1>Drop,
     <1>UploadsDone, <1>saves, <1>quiets, <1>restart, <1>same DEF Next, Worker, Committer

\* The tracker file never forgets that a file is committed: what marks the files of a failed
\* commit, of a round or of a new run has none in hand that is recorded as committed, in any
\* order of the runs, their crashes and the saves that fail.
THEOREM NeverForgotten == Spec => CommittedNeverForgotten
<1>1. Init => OnceInv /\ MemoryInv
  <2>1. Init => \A f : ~Queued(f, recoverQ)
    BY DEF Init, Queued
  <2>. QED  BY <2>1 DEF Init, OnceInv, Somewhere, InHand, Planned, MemoryInv
<1>2. IInv /\ IInv' /\ OnceInv /\ MemoryInv /\ [Next]_vars => OnceInv' /\ MemoryInv'
  BY ConstantsOK, NextOnceInv, NextMemoryInv DEF IInv
<1>3. IInv /\ OnceInv /\ MemoryInv /\ [Next]_vars =>
        [\A f \in Files : disk[f] = "committed" => disk'[f] = "committed"]_vars
  BY NextMemoryInv DEF IInv
<1>. QED  BY <1>1, <1>2, <1>3, Invariant, PTL DEF Spec, CommittedNeverForgotten
=============================================================================
