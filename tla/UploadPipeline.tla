--------------------------- MODULE UploadPipeline ---------------------------
(***************************************************************************)
(* UploadManager.upload_folder (_upload.py): one folder is hashed, its LFS  *)
(* contents are pre-signed in groups, a thread pool transfers the blobs     *)
(* while the calling thread commits batches of files in order, and what     *)
(* failed is recovered.  A run may crash between any two steps and the      *)
(* folder may be uploaded again: the tracker file is all that a later run   *)
(* remembers.                                                               *)
(*                                                                          *)
(* Data that the properties do not tell apart is left out: a file is its    *)
(* position in the sorted file list, a content is an element of Oids.  The  *)
(* attempts of one blob transfer or of one commit (with their back-off) are *)
(* one step whose effect may reach the server whatever the client is told;  *)
(* CommitPacing models the attempts of a commit.  Files do not change here. *)
(***************************************************************************)
EXTENDS Integers, FiniteSets, Sequences

CONSTANTS
  NFiles,          \* local files, numbered in sorted order of their path
  Lfs,             \* the files whose _upload_mode is "lfs"
  Oids,            \* the distinct contents of LFS files
  Oid,             \* the content of each LFS file
  Orphans,         \* remote paths that no local file has
  MaxWorkers,      \* threads of the upload pool
  BatchCap,        \* operations the planner puts in one commit
  MaxFailures,     \* UPLOAD_COMMIT_MAX_CONSECUTIVE_FAILED_BATCHES
  Recoveries,      \* the values a run may find in UPLOAD_RECOVERY_ENABLED
  MaxRounds,       \* recovery rounds (3 in the code)
  Sync,            \* sync_remote_repo
  MaxRuns          \* bound on the number of runs (model bound)

Files == 1..NFiles

ASSUME ConstantsOK ==
  /\ NFiles \in Nat /\ Lfs \subseteq Files /\ Oid \in [Lfs -> Oids]
  /\ MaxWorkers \in Nat \ {0} /\ BatchCap \in Nat \ {0}
  /\ MaxFailures \in Nat \ {0} /\ MaxRounds \in Nat /\ MaxRuns \in Nat \ {0}
  /\ Recoveries \subseteq BOOLEAN /\ Sync \in BOOLEAN
  /\ IsFiniteSet(Orphans) /\ Orphans \cap Files = {}

VARIABLES
  \* the server
  stored,          \* contents present in object storage
  remote,          \* local files whose path is committed in the repository
  orphans,         \* Orphans still present in the repository
  \* the upload tracker: in memory and on disk
  mem, disk,
  \* the main thread
  run, recovery, phase,
  plan,            \* batch of each pending file, 0 for the others
  hashed,          \* keys of lfs_hash_info_map
  answer,          \* what _validate_blobs_batch said of each content
  cur, left,       \* batch awaited; pending files no batch has consumed yet
  batch, stage,    \* results under commit, and the loop that commits them
  failures,        \* consecutive_failures
  recoverQ,        \* batches left to commit-only recovery
  results,         \* all_results
  toRetry,         \* retry_failed_files
  terminal,        \* terminal_failures and permanent_failures
  round, todo, okRound,
  \* the pool
  wpc,             \* where the worker of each file is
  outcome,         \* how the last transfer of each file ended
  ready            \* blob_ready

serverVars  == <<stored, remote, orphans>>
trackerVars == <<mem, disk>>
prepVars    == <<run, recovery, plan, hashed, answer>>
commitVars  == <<cur, left, failures>>
recoverVars == <<round, todo, okRound>>
resultVars  == <<results, toRetry, terminal>>
poolVars    == <<wpc, outcome, ready>>
vars == <<serverVars, trackerVars, prepVars, commitVars, recoverVars, resultVars,
          poolVars, phase, batch, stage, recoverQ>>

Ended    == {"done", "raised", "crashed"}
Phases   == {"scan", "presign", "wait", "defer", "commit", "landed", "aborting",
             "recover", "triage", "round", "upload", "plan", "sync", "delete",
             "report"} \cup Ended
Statuses == {"none", "uploaded", "committed", "failed"}
Errors   == {"retryable", "permanent"}

Pending  == {f \in Files : plan[f] > 0}

-----------------------------------------------------------------------------
(* Planning and pre-signing                                                 *)

\* The batches _plan_commit_batches may choose: files keep their order, every
\* batch is a range, none exceeds the cap (the byte budget may close one early).
Plans(S) ==
  {p \in [Files -> 0..NFiles] :
     /\ \A f \in Files : p[f] > 0 <=> f \in S
     /\ \A f, g \in S : f < g => p[f] <= p[g]
     /\ \A f \in S : p[f] > 1 => \E g \in S : p[g] = p[f] - 1
     /\ \A f \in S : Cardinality({g \in S : p[g] = p[f]}) <= BatchCap}

\* A content is in blob_owner once a hashed file holds it and the server was not
\* heard to have it already; its owner is the first such file.
Owned(o)  == answer[o] # "exists" /\ \E f \in hashed : Oid[f] = o
\* (Mutant: the last such file.)
OwnsAsLast(f) == f \in hashed /\ Owned(Oid[f]) /\ \A g \in hashed : Oid[g] = Oid[f] => g <= f
Owns(f)   == /\ f \in hashed
             /\ Owned(Oid[f])
             /\ \A g \in hashed : Oid[g] = Oid[f] => f <= g

\* What upload_folder passes to the worker of f: reuse of a blob the server has,
\* the pre-signed URL, DUPLICATE_BLOB, or nothing (the worker negotiates).
PreValidated(f) ==
  IF f \notin hashed \/ answer[Oid[f]] = "unanswered" THEN "negotiate"
  ELSE IF answer[Oid[f]] = "exists" THEN "reuse"
  ELSE IF Owns(f) THEN "url" ELSE "duplicate"

Moves(f) == f \in Lfs /\ PreValidated(f) \in {"url", "negotiate"}

-----------------------------------------------------------------------------
(* The tracker file.  save() only warns when the write fails.               *)

Mark(S, s)  == [f \in Files |-> IF f \in S THEN s ELSE mem[f]]
Save(m)     == mem' = m /\ disk' \in {m, disk}

-----------------------------------------------------------------------------
Init ==
  /\ stored \in SUBSET Oids /\ remote = {} /\ orphans = Orphans
  /\ mem = [f \in Files |-> "none"] /\ disk = mem
  /\ run = 1 /\ recovery \in Recoveries /\ phase = "scan"
  /\ plan = [f \in Files |-> 0] /\ hashed = {}
  /\ answer = [o \in Oids |-> "unasked"]
  /\ cur = 1 /\ left = {} /\ batch = {} /\ stage = "pipeline" /\ failures = 0
  /\ recoverQ = <<>> /\ results = {} /\ toRetry = {} /\ terminal = {}
  /\ round = 0 /\ todo = {} /\ okRound = {}
  /\ wpc = [f \in Files |-> "none"] /\ outcome = [f \in Files |-> "none"]
  /\ ready = [o \in Oids |-> "none"]

\* begin_attempt drops the failure of a file that is tried again (mutant: the
\* status of every file).
ClearedAll == Files
Cleared == {f \in Files : mem[f] = "failed"}

\* Files the tracker holds as committed are skipped, begin_attempt clears old
\* failures, and the rest is planned.
Scan ==
  /\ phase = "scan"
  /\ LET pending == {f \in Files : mem[f] # "committed"} IN
       /\ plan' \in Plans(pending)
       /\ left' = pending
       /\ Save(Mark(Cleared, "none"))
  /\ phase' = "presign"
  /\ UNCHANGED <<serverVars, run, recovery, hashed, answer, cur, failures, recoverVars,
                 resultVars, poolVars, batch, stage, recoverQ>>

\* Some LFS files are hashed (the others could not be read), some groups of
\* contents are answered, and every pending file is submitted to the pool.
Presign ==
  /\ phase = "presign"
  /\ \E H \in SUBSET (Pending \cap Lfs) : \E A \in SUBSET {Oid[f] : f \in H} :
       LET said(o) == IF o \notin {Oid[f] : f \in H} THEN "unasked"
                      ELSE IF o \notin A THEN "unanswered"
                      ELSE IF o \in stored THEN "exists" ELSE "url"
       IN /\ hashed' = H
          /\ answer' = [o \in Oids |-> said(o)]
          /\ ready' = [o \in Oids |-> IF said(o) = "exists" THEN "yes" ELSE "none"]
  /\ wpc' = [f \in Files |-> IF f \in Pending THEN "queued" ELSE "none"]
  /\ phase' = "wait"
  /\ UNCHANGED <<serverVars, trackerVars, run, recovery, plan, commitVars, recoverVars,
                 resultVars, outcome, batch, stage, recoverQ>>

-----------------------------------------------------------------------------
(* The workers                                                              *)

PoolStep == UNCHANGED <<trackerVars, prepVars, commitVars, recoverVars, resultVars,
                        phase, batch, stage, recoverQ, remote, orphans>>

\* The pool takes files in the order they were submitted.
StartUpload(f) ==
  /\ wpc[f] = "queued" /\ phase \notin Ended
  /\ \A g \in Files : wpc[g] = "queued" => f <= g
  /\ Cardinality({g \in Files : wpc[g] \in {"running", "finished"}}) < MaxWorkers
  /\ wpc' = [wpc EXCEPT ![f] = "running"]
  /\ UNCHANGED <<stored, outcome, ready>> /\ PoolStep

\* _upload_single_file returns or raises.  A transfer that is reported as failed
\* may still have reached the store.
FinishUpload(f) ==
  /\ wpc[f] = "running" /\ phase \notin Ended
  /\ wpc' = [wpc EXCEPT ![f] = "finished"]
  /\ \/ /\ outcome' = [outcome EXCEPT ![f] = "ok"]
        /\ stored' = IF Moves(f) THEN stored \cup {Oid[f]} ELSE stored
     \/ /\ \E e \in Errors : outcome' = [outcome EXCEPT ![f] = e]
        /\ stored' \in IF Moves(f) THEN {stored, stored \cup {Oid[f]}} ELSE {stored}
  /\ UNCHANGED ready /\ PoolStep

\* The owner of a content publishes how its transfer ended ...
PublishBlob(f) ==
  /\ wpc[f] = "finished" /\ phase \notin Ended
  /\ Owns(f) /\ ready[Oid[f]] = "none"
  /\ ready' = [ready EXCEPT ![Oid[f]] = IF outcome[f] = "ok" THEN "yes" ELSE "no"]
  /\ UNCHANGED <<stored, wpc, outcome>> /\ PoolStep

\* Mutant: a transfer that raised is not recorded.
RecordSuccess(f) ==
  /\ wpc[f] = "finished" /\ outcome[f] = "ok" /\ phase \notin Ended
  /\ Owns(f) => ready[Oid[f]] # "none"
  /\ wpc' = [wpc EXCEPT ![f] = "recorded"]
  /\ UNCHANGED <<stored, outcome, ready>> /\ PoolStep

\* ... before it records its result with the batch tracker.
RecordUpload(f) ==
  /\ wpc[f] = "finished" /\ phase \notin Ended
  /\ Owns(f) => ready[Oid[f]] # "none"
  /\ wpc' = [wpc EXCEPT ![f] = "recorded"]
  /\ UNCHANGED <<stored, outcome, ready>> /\ PoolStep

Worker == \E f \in Files : \/ StartUpload(f) \/ FinishUpload(f)
                           \/ PublishBlob(f) \/ RecordUpload(f)

-----------------------------------------------------------------------------
(* The main thread: batches in order                                        *)

InBatch(b) == {f \in left : plan[f] = b}

\* wait_for_batch: every file of the batch has been recorded.
TakeBatch ==
  /\ phase = "wait" /\ left # {}
  /\ \A f \in InBatch(cur) : wpc[f] = "recorded"
  /\ batch' = {f \in InBatch(cur) : outcome[f] = "ok"}
  /\ toRetry' = toRetry \cup {f \in InBatch(cur) : outcome[f] \in Errors}
  /\ left' = left \ InBatch(cur)
  /\ phase' = "defer" /\ stage' = "pipeline"
  /\ UNCHANGED <<serverVars, trackerVars, prepVars, cur, failures, recoverVars,
                 results, terminal, poolVars, recoverQ>>

\* A file whose content another file was to transfer is deferred, as a retryable
\* StorageError, unless that content is known to be stored.
\* (Mutant: no check.)
OrphanedUnchecked == {}
Orphaned == {f \in batch \cap Lfs : Owned(Oid[f]) /\ ready[Oid[f]] # "yes"}

DeferOrphans ==
  /\ phase = "defer"
  /\ toRetry' = toRetry \cup Orphaned
  /\ outcome' = [f \in Files |-> IF f \in Orphaned THEN "retryable" ELSE outcome[f]]
  /\ batch' = batch \ Orphaned
  /\ Save(Mark(batch \ Orphaned, "uploaded"))
  /\ IF batch \ Orphaned = {}
       THEN phase' = "wait" /\ cur' = cur + 1
       ELSE phase' = "commit" /\ cur' = cur
  /\ UNCHANGED <<serverVars, prepVars, left, failures, recoverVars, results,
                 terminal, wpc, ready, stage, recoverQ>>

\* Reading a file that is committed inline may raise.
InlineReadFails == batch \ Lfs # {}

\* ... in the pipeline outside the handler: the run ends once the pool is idle.
BuildBatchFails ==
  /\ phase = "commit" /\ stage = "pipeline" /\ InlineReadFails
  /\ phase' = "aborting"
  /\ UNCHANGED <<serverVars, trackerVars, prepVars, commitVars, recoverVars,
                 resultVars, poolVars, batch, stage, recoverQ>>

\* Mutant: a commit that timed out is taken for one that landed.
CommitAssumed ==
  /\ phase = "commit"
  /\ remote' \in {remote, remote \cup batch}
  /\ phase' = "landed"
  /\ UNCHANGED <<stored, orphans, trackerVars, prepVars, commitVars, recoverVars,
                 resultVars, poolVars, batch, stage, recoverQ>>

\* _commit_with_retry returns: the server has the commit.
Commit ==
  /\ phase = "commit"
  /\ remote' = remote \cup batch
  /\ phase' = "landed"
  /\ UNCHANGED <<stored, orphans, trackerVars, prepVars, commitVars, recoverVars,
                 resultVars, poolVars, batch, stage, recoverQ>>

\* The loop that committed goes on with its next batch.
NextPhase == [pipeline |-> "wait", recover |-> "recover", round |-> "plan"]

TrackCommitted ==
  /\ phase = "landed"
  /\ Save(Mark(batch, "committed"))
  /\ results' = results \cup batch
  /\ batch' = {}
  /\ phase' = NextPhase[stage]
  /\ IF stage = "pipeline" THEN cur' = cur + 1 /\ failures' = 0
                           ELSE UNCHANGED <<cur, failures>>
  /\ UNCHANGED <<serverVars, prepVars, left, recoverVars, toRetry, terminal,
                 poolVars, stage, recoverQ>>

\* The commit of a batch is given up.  It may have landed all the same.  Its
\* files are terminal or kept for commit-only recovery, and too many failures in
\* a row end the run.
CommitFails(category, policy) ==
  /\ phase = "commit" /\ stage = "pipeline"
  /\ remote' \in {remote, remote \cup batch}
  /\ IF category = "permanent"
       THEN /\ terminal' = terminal \cup batch
            /\ mem' = Mark(batch, "failed")
            /\ UNCHANGED recoverQ
       ELSE /\ recoverQ' = Append(recoverQ, [files |-> batch, split |-> policy])
            /\ UNCHANGED <<terminal, mem>>
  /\ batch' = {}
  /\ failures' = failures + 1
  /\ cur' = cur + 1
  /\ phase' = IF failures' >= MaxFailures THEN "aborting" ELSE "wait"
  /\ UNCHANGED <<stored, orphans, disk, prepVars, left, recoverVars, results,
                 toRetry, poolVars, stage>>

\* Leaving the executor waits for every submitted worker; then tracker.save().
Abort ==
  /\ phase = "aborting"
  /\ \A f \in Files : wpc[f] \in {"none", "recorded"}
  /\ Save(mem)
  /\ phase' = "raised"
  /\ UNCHANGED <<serverVars, prepVars, commitVars, recoverVars, resultVars,
                 poolVars, batch, stage, recoverQ>>

PipelineDone ==
  /\ phase = "wait" /\ left = {}
  /\ Save(mem)
  /\ phase' = "recover"
  /\ UNCHANGED <<serverVars, prepVars, commitVars, recoverVars, resultVars,
                 poolVars, batch, stage, recoverQ>>

-----------------------------------------------------------------------------
(* _retry_failed_commits: blobs are not sent again, policy rejects are      *)
(* halved.  It runs after the pipeline, and within a recovery round.        *)

\* The two halves of a batch, in the order of the results (completion order).
Halves(S) ==
  {<<[files |-> A, split |-> FALSE], [files |-> S \ A, split |-> FALSE]>> :
     A \in {B \in SUBSET S : Cardinality(B) = (Cardinality(S) + 1) \div 2}}

RecoverSplit ==
  /\ phase = "recover" /\ recoverQ # <<>>
  /\ Head(recoverQ).split /\ Cardinality(Head(recoverQ).files) > 1
  /\ \E h \in Halves(Head(recoverQ).files) : recoverQ' = h \o Tail(recoverQ)
  /\ UNCHANGED <<serverVars, trackerVars, prepVars, commitVars, recoverVars,
                 resultVars, poolVars, phase, batch, stage>>

RecoverAttempt ==
  /\ phase = "recover" /\ recoverQ # <<>>
  /\ ~Head(recoverQ).split \/ Cardinality(Head(recoverQ).files) = 1
  /\ batch' = Head(recoverQ).files
  /\ recoverQ' = Tail(recoverQ)
  /\ phase' = "commit" /\ stage' = "recover"
  /\ UNCHANGED <<serverVars, trackerVars, prepVars, commitVars, recoverVars,
                 resultVars, poolVars>>

RecoverCommitFails(policy) ==
  /\ phase = "commit" /\ stage = "recover"
  /\ remote' \in {remote, remote \cup batch}
  /\ IF policy /\ Cardinality(batch) > 1
       THEN /\ \E h \in Halves(batch) : recoverQ' = h \o recoverQ
            /\ UNCHANGED <<terminal, mem>>
       ELSE /\ terminal' = terminal \cup batch
            /\ mem' = Mark(batch, "failed")
            /\ UNCHANGED recoverQ
  /\ batch' = {}
  /\ phase' = "recover"
  /\ UNCHANGED <<stored, orphans, disk, prepVars, commitVars, recoverVars, results,
                 toRetry, poolVars, stage>>

RecoverDone ==
  /\ phase = "recover" /\ recoverQ = <<>>
  /\ phase' = IF round = 0 THEN "triage" ELSE "plan"
  /\ UNCHANGED <<serverVars, trackerVars, prepVars, commitVars, recoverVars,
                 resultVars, poolVars, batch, stage, recoverQ>>

-----------------------------------------------------------------------------
(* _retry_failed_files_react (recovery) and _retry_failed_simple            *)

Dropped(S) ==
  IF ~recovery THEN {}
  ELSE {f \in S : outcome[f] = "permanent" \/ round >= 3}

\* Files that cannot succeed, or have failed in three rounds, leave the retries.
Drop ==
  /\ terminal' = terminal \cup Dropped(toRetry)
  /\ toRetry' = toRetry \ Dropped(toRetry)
  /\ mem' = Mark(Dropped(toRetry), "failed")

Triage ==
  /\ phase = "triage"
  /\ Drop
  /\ phase' = "round"
  /\ UNCHANGED <<serverVars, disk, prepVars, commitVars, recoverVars, results,
                 poolVars, batch, stage, recoverQ>>

\* Mutants: the round is not counted against its bound; the failed files of the
\* last round are kept next to the ones being retried.
BeginRoundUnbounded ==
  /\ phase = "round" /\ toRetry # {}
  /\ round' = round + 1
  /\ todo' = toRetry /\ toRetry' = {}
  /\ phase' = "upload"
  /\ UNCHANGED <<serverVars, trackerVars, prepVars, commitVars, okRound, results,
                 terminal, poolVars, batch, stage, recoverQ>>

BeginRoundKeeps ==
  /\ phase = "round" /\ toRetry # {} /\ round < MaxRounds
  /\ round' = round + 1
  /\ todo' = toRetry
  /\ phase' = "upload"
  /\ UNCHANGED <<serverVars, trackerVars, prepVars, commitVars, okRound, results,
                 terminal, toRetry, poolVars, batch, stage, recoverQ>>

BeginRound ==
  /\ phase = "round" /\ toRetry # {} /\ round < MaxRounds
  /\ round' = round + 1
  /\ todo' = toRetry /\ toRetry' = {}
  /\ phase' = "upload"
  /\ UNCHANGED <<serverVars, trackerVars, prepVars, commitVars, okRound, results,
                 terminal, poolVars, batch, stage, recoverQ>>

\* _upload_single_file without a pre-signed answer: the file negotiates.
RetryUpload(f) ==
  /\ phase = "upload" /\ f \in todo
  /\ todo' = todo \ {f}
  /\ \/ /\ okRound' = okRound \cup {f}
        /\ stored' = IF f \in Lfs THEN stored \cup {Oid[f]} ELSE stored
        /\ UNCHANGED <<toRetry, outcome>>
     \/ /\ toRetry' = toRetry \cup {f}
        /\ \E e \in Errors : outcome' = [outcome EXCEPT ![f] = e]
        /\ stored' \in IF f \in Lfs THEN {stored, stored \cup {Oid[f]}} ELSE {stored}
        /\ UNCHANGED okRound
  /\ UNCHANGED <<remote, orphans, trackerVars, prepVars, commitVars, round, results,
                 terminal, wpc, ready, phase, batch, stage, recoverQ>>

UploadsDone ==
  /\ phase = "upload" /\ todo = {}
  /\ Save(Mark(okRound, "uploaded"))
  /\ phase' = "plan"
  /\ UNCHANGED <<serverVars, prepVars, commitVars, recoverVars, resultVars,
                 poolVars, batch, stage, recoverQ>>

\* Mutant: the successes of a round go into one commit.
PlanRoundAtOnce ==
  /\ phase = "plan" /\ okRound # {}
  /\ batch' = okRound /\ okRound' = {}
  /\ phase' = "commit" /\ stage' = "round"
  /\ UNCHANGED <<serverVars, trackerVars, prepVars, commitVars, round, todo,
                 resultVars, poolVars, recoverQ>>

PlanRoundBatch ==
  /\ phase = "plan" /\ okRound # {}
  /\ \E B \in SUBSET okRound :
       /\ B # {} /\ Cardinality(B) <= BatchCap
       /\ batch' = B /\ okRound' = okRound \ B
  /\ phase' = "commit" /\ stage' = "round"
  /\ UNCHANGED <<serverVars, trackerVars, prepVars, commitVars, round, todo,
                 resultVars, poolVars, recoverQ>>

\* A file that cannot be read here ends the run at once, without a save.
RoundBuildFails ==
  /\ phase = "commit" /\ stage = "round" /\ InlineReadFails
  /\ phase' = "raised"
  /\ UNCHANGED <<serverVars, trackerVars, prepVars, commitVars, recoverVars,
                 resultVars, poolVars, batch, stage, recoverQ>>

RoundCommitFails(policy) ==
  /\ phase = "commit" /\ stage = "round"
  /\ remote' \in {remote, remote \cup batch}
  /\ recoverQ' = <<[files |-> batch, split |-> policy]>>
  /\ batch' = {}
  /\ phase' = "recover"
  /\ UNCHANGED <<stored, orphans, trackerVars, prepVars, commitVars, recoverVars,
                 resultVars, poolVars, stage>>

EndRound ==
  /\ phase = "plan" /\ okRound = {}
  /\ Drop
  /\ phase' = "round"
  /\ UNCHANGED <<serverVars, disk, prepVars, commitVars, recoverVars, results,
                 poolVars, batch, stage, recoverQ>>

RoundsDone ==
  /\ phase = "round" /\ (toRetry = {} \/ round >= MaxRounds)
  /\ Save(mem)
  /\ phase' = "sync"
  /\ UNCHANGED <<serverVars, prepVars, commitVars, recoverVars, resultVars,
                 poolVars, batch, stage, recoverQ>>

-----------------------------------------------------------------------------
(* Sync and report                                                          *)

\* Both lists count (mutant: only the files left to retry).
AllFailuresRetried == toRetry
AllFailures == terminal \cup toRetry

\* Every remaining orphan goes into one delete commit; listing them may raise.
ComputeOrphans ==
  /\ phase = "sync"
  /\ IF Sync /\ AllFailures = {}
       THEN \/ orphans = {} /\ phase' = "report" /\ UNCHANGED batch
            \/ orphans # {} /\ phase' = "delete" /\ batch' = orphans
            \/ phase' = "raised" /\ UNCHANGED batch
       ELSE phase' = "report" /\ UNCHANGED batch
  /\ UNCHANGED <<serverVars, trackerVars, prepVars, commitVars, recoverVars,
                 resultVars, poolVars, stage, recoverQ>>

\* A failed delete is only logged; it may have landed.
DeleteOrphans ==
  /\ phase = "delete"
  /\ orphans' \in {{}, orphans}
  /\ batch' = {}
  /\ phase' = "report"
  /\ UNCHANGED <<stored, remote, trackerVars, prepVars, commitVars, recoverVars,
                 resultVars, poolVars, stage, recoverQ>>

Report ==
  /\ phase = "report"
  /\ phase' = IF AllFailures = {} THEN "done" ELSE "raised"
  /\ UNCHANGED <<serverVars, trackerVars, prepVars, commitVars, recoverVars,
                 resultVars, poolVars, batch, stage, recoverQ>>

Committer ==
  \/ Scan \/ Presign \/ TakeBatch \/ DeferOrphans \/ BuildBatchFails \/ Commit
  \/ TrackCommitted \/ Abort \/ PipelineDone
  \/ \E e \in Errors, p \in BOOLEAN : CommitFails(e, p)
  \/ RecoverSplit \/ RecoverAttempt \/ RecoverDone
  \/ \E p \in BOOLEAN : RecoverCommitFails(p)
  \/ Triage \/ BeginRound \/ UploadsDone \/ PlanRoundBatch \/ RoundBuildFails
  \/ \E f \in Files : RetryUpload(f)
  \/ \E p \in BOOLEAN : RoundCommitFails(p)
  \/ EndRound \/ RoundsDone \/ ComputeOrphans \/ DeleteOrphans \/ Report

-----------------------------------------------------------------------------
(* Process death, and the next upload of the folder                         *)

\* Everything but the server and the tracker file is gone between runs.
Forget ==
  /\ plan' = [f \in Files |-> 0] /\ hashed' = {}
  /\ answer' = [o \in Oids |-> "unasked"]
  /\ cur' = 1 /\ left' = {} /\ batch' = {} /\ stage' = "pipeline" /\ failures' = 0
  /\ recoverQ' = <<>> /\ results' = {} /\ toRetry' = {} /\ terminal' = {}
  /\ round' = 0 /\ todo' = {} /\ okRound' = {}
  /\ wpc' = [f \in Files |-> "none"] /\ outcome' = [f \in Files |-> "none"]
  /\ ready' = [o \in Oids |-> "none"]

\* The process dies.  A commit request that was under way may still land.
Crash ==
  /\ phase \notin Ended
  /\ phase' = "crashed"
  /\ remote' \in IF phase = "commit" THEN {remote, remote \cup batch} ELSE {remote}
  /\ orphans' \in IF phase = "delete" THEN {orphans, {}} ELSE {orphans}
  /\ mem' = disk
  /\ Forget
  /\ UNCHANGED <<stored, disk, run, recovery>>

\* The tracker file is loaded.
NewRun ==
  /\ phase \in Ended /\ run < MaxRuns
  /\ run' = run + 1 /\ recovery' \in Recoveries /\ phase' = "scan"
  /\ mem' = disk
  /\ Forget
  /\ UNCHANGED <<serverVars, disk>>

\* The system rests once no run is left.
Rest == phase \in Ended /\ run = MaxRuns /\ UNCHANGED vars

Next == Worker \/ Committer \/ Crash \/ NewRun \/ Rest

Spec == Init /\ [][Next]_vars

\* The pool and the calling thread keep running as long as the process lives.
FairSpec ==
  /\ Spec
  /\ WF_vars(Committer)
  /\ \A f \in Files :
       WF_vars(StartUpload(f) \/ FinishUpload(f) \/ PublishBlob(f) \/ RecordUpload(f))
-----------------------------------------------------------------------------
(* Properties                                                               *)

\* Every variable has its type, recovery rounds stay within their number, and a
\* batch held for recovery has at least one file.
TypeOK ==
  /\ stored \subseteq Oids /\ remote \subseteq Files /\ orphans \subseteq Orphans
  /\ mem \in [Files -> Statuses] /\ disk \in [Files -> Statuses]
  /\ run \in 1..MaxRuns /\ recovery \in Recoveries /\ phase \in Phases
  /\ plan \in [Files -> 0..NFiles] /\ hashed \subseteq Lfs
  /\ answer \in [Oids -> {"unasked", "exists", "url", "unanswered"}]
  /\ cur \in Nat /\ left \subseteq Files
  /\ batch \subseteq IF phase = "delete" THEN Orphans ELSE Files
  /\ stage \in {"pipeline", "recover", "round"} /\ failures \in Nat
  /\ recoverQ \in Seq([files : SUBSET Files, split : BOOLEAN])
  /\ results \subseteq Files /\ toRetry \subseteq Files /\ terminal \subseteq Files
  /\ round \in 0..MaxRounds /\ todo \subseteq Files /\ okRound \subseteq Files
  /\ wpc \in [Files -> {"none", "queued", "running", "finished", "recorded"}]
  /\ outcome \in [Files -> {"none", "ok"} \cup Errors]
  /\ ready \in [Oids -> {"none", "yes", "no"}]

\* A committed LFS pointer never refers to a content that is not in object
\* storage, whatever transfer failed, was shared between duplicates, or was cut
\* by a crash ("the commit would reference a blob that was never stored").
PointerHasBlob == \A f \in remote \cap Lfs : Oid[f] \in stored

\* What the tracker calls committed is in the repository, in memory and on disk:
\* a later run never skips a file that was not committed.
CommittedIsRemote ==
  \A f \in Files : mem[f] = "committed" \/ disk[f] = "committed" => f \in remote

\* The places where the main thread holds a pending file between two steps.
Held(i) == CASE i = 1 -> left    [] i = 2 -> IF phase = "delete" THEN {} ELSE batch
             [] i = 3 -> results [] i = 4 -> toRetry
             [] i = 5 -> terminal [] i = 6 -> todo [] i = 7 -> okRound
             [] OTHER -> recoverQ[i - 7].files

\* From planning to the report, every pending file is in exactly one place: it
\* is neither lost between two collections nor reported (or committed) twice.
EachFileInOnePlace ==
  phase \notin {"scan", "crashed"} =>
    /\ Pending = UNION {Held(i) : i \in 1..(7 + Len(recoverQ))}
    /\ \A i, j \in 1..(7 + Len(recoverQ)) : i # j => Held(i) \cap Held(j) = {}

\* A run that returns without raising has every local file in the repository.
DoneMeansCommitted == phase = "done" => Files \subseteq remote

\* When a batch is consumed, a pre-hashed file is deferred only because the file
\* that was to transfer its content has failed, never because it is not known yet.
DeferredFor(f) == \E g \in Files : /\ Owns(g) /\ Oid[g] = Oid[f]
                                   /\ wpc[g] = "recorded" /\ ready[Oid[f]] = "no"
DeferredOnlyAfterOwnerFailed ==
  phase = "defer" => \A f \in Orphaned \cap hashed : DeferredFor(f)

\* The same of every deferred file, as the comment on the check has it: "Its
\* owner is in this batch or an earlier one, both already resolved".
OwnerAlwaysResolved ==
  phase = "defer" => \A f \in Orphaned : DeferredFor(f)

\* No upload commit carries more operations than the planner allows, recovery
\* commits included.
UploadCommitWithinCap == phase = "commit" => Cardinality(batch) <= BatchCap

\* A file is never lost nor handled twice on its way through the pipeline, the recovery and
\* the retry rounds; a duplicate that is set aside has an owner that failed; and no commit
\* of any of them is above the cap.
FilesAccountedFor == EachFileInOnePlace /\ DeferredOnlyAfterOwnerFailed /\ UploadCommitWithinCap

\* Orphans are deleted only when every local file is in the repository.
SyncOnlyWhenComplete ==
  [][orphans' # orphans => Files \subseteq remote]_vars

\* The tracker file never forgets that a file is committed.
CommittedNeverForgotten ==
  [][\A f \in Files : disk[f] = "committed" => disk'[f] = "committed"]_vars

\* Every run comes to an end: no batch waits for ever for a worker, and the
\* recovery rounds and the halving of rejected commits stop.
RunEnds == (phase = "scan") ~> (phase \in Ended)

\* The contract this module implements.
Contract == INSTANCE UploadContract WITH
  recorded <- {f \in Files : disk[f] = "committed"}
ImplementsContract == Contract!Spec
=============================================================================
