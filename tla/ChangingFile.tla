---------------------------- MODULE ChangingFile -----------------------------
(***************************************************************************)
(* A file that is rewritten, removed and made again while it is uploaded    *)
(* (_upload.py): as the one file of a folder, run after run over one        *)
(* tracker, or on its own.  A run looks at the file several times, at its   *)
(* size, its times and its bytes, and what it remembers in the tracker is   *)
(* read by the next.                                                        *)
(*                                                                          *)
(* Each writing gives the file another content and mtime: a key of the      *)
(* tracker (path|mtime|size) is the number of the writing, 0 where there    *)
(* was no file.  A hash is the content it is of.  Pools, batches and        *)
(* duplicates are UploadPipeline's; the servers are external.               *)
(***************************************************************************)
EXTENDS Naturals

CONSTANTS
  Contents,    \* what may be written
  SizeOf,      \* the size of each
  Thresholds,  \* sizes above which a file goes to LFS, one per upload
  Verifies,    \* whether the blob store refuses what does not have its hash
  MaxWrites, MaxRuns,  \* bounds on writings and on uploads (model bounds)
  MaxAttempts, \* UPLOAD_BLOB_MAX_ATTEMPTS
  MaxRounds    \* rounds of recovery

\* A read that a writing overtakes may return some of each content; no two such are alike.
Torn == "torn"
None == "none"

ConstantsOK ==
  /\ {Torn, None} \cap Contents = {}
  /\ SizeOf \in [Contents -> Nat \ {0}] /\ Thresholds \subseteq Nat
  /\ Verifies \in BOOLEAN /\ {MaxWrites, MaxRuns, MaxAttempts, MaxRounds} \subseteq Nat
  /\ MaxWrites # 0

VARIABLES
  made, holds, writes, \* the file: its writing (0: no file) and content; how many there were
  entries, saved,      \* the tracker in memory and on disk
  stored,              \* what the blob store has under each hash
  tree,                \* what the repository has at the path
  pc, kind, limit,     \* where the call is; folder or file; its LFS threshold
  size,                \* a size read before the bytes
  begun,               \* the writing at the beginning of a read
  st, key,             \* the writing of the stat before the hash, and of the result
  info, pre,           \* hash_info; what pre-signing said
  ahead,               \* the hash is taken before the workers start
  attempt, round, recovered,
  calm,                \* history: nothing was written since the call began
  runs, outcome,
  afterward            \* history: keys that were looked up after the bytes were read

file   == <<made, holds, writes>>
server == <<stored, tree>>
locals == <<kind, limit, size, begun, st, key, info, pre, ahead, attempt, round, recovered>>
vars   == <<file, entries, saved, server, pc, locals, calm, runs, outcome, afterward>>

Keys     == 0..MaxWrites
Hashes   == Contents \cup {Torn}
Length(c) == IF c \in Contents THEN SizeOf[c] ELSE 0
NoInfo   == [hash |-> None, size |-> 0]
NoEntry  == [hash |-> None, size |-> 0, status |-> "absent"]

Init ==
  /\ made = 1 /\ holds \in Contents /\ writes = 1
  /\ entries = [k \in Keys |-> NoEntry] /\ saved = entries
  /\ stored = [h \in Hashes |-> None] /\ tree = [type |-> "none", of |-> None]
  /\ pc = "idle" /\ kind = "folder" /\ limit \in Thresholds
  /\ size = 0 /\ begun = 0 /\ st = 0 /\ key = 0 /\ info = NoInfo /\ pre = "none"
  /\ ahead = FALSE /\ attempt = 0 /\ round = 0 /\ recovered = FALSE
  /\ calm = TRUE /\ runs = 0 /\ outcome = None /\ afterward = {}

Go(l)      == pc' = l
Exists     == made # 0
IsLfs(n)   == n > limit
\* What a read returns that began at writing w and ends now.
ReadSince(w) == IF made = w THEN {holds} ELSE {holds, Torn}

-----------------------------------------------------------------------------
(* The program that owns the file.                                          *)

Write ==
  /\ writes < MaxWrites
  /\ writes' = writes + 1 /\ made' = writes + 1 /\ holds' \in Contents \ {holds}
  /\ calm' = FALSE
  /\ UNCHANGED <<entries, saved, server, pc, locals, runs, outcome, afterward>>
Remove ==
  /\ Exists /\ made' = 0 /\ holds' = None /\ calm' = FALSE
  /\ UNCHANGED <<writes, entries, saved, server, pc, locals, runs, outcome, afterward>>

-----------------------------------------------------------------------------
(* The tracker.                                                             *)

Put(k, h, n) ==
  [entries EXCEPT ![k] = [hash |-> h, size |-> n, status |-> IF @.status = "absent" THEN "new" ELSE @.status]]
Marked(k, s) == [entries EXCEPT ![k].status = IF @ = "absent" THEN @ ELSE s]
Failed(k)    == [entries EXCEPT ![k].status = "failed"]
Attempted(k) == [entries EXCEPT ![k].status = IF @ = "failed" THEN "new" ELSE @]
Cached(k)    == k # 0 /\ entries[k].hash # None
InfoOf(k)    == [hash |-> entries[k].hash, size |-> entries[k].size]
\* A save that fails only warns.  Only the last one of a run may here: an earlier one is
\* made good by the next.
LastSave(e)  == saved' \in {saved, e}
Save         == saved' = entries'

\* The call is over: the tracker is what was saved of it.
Return(o) ==
  /\ Go("idle") /\ outcome' = o /\ entries' = saved'
  /\ kind' = "folder" /\ size' = 0 /\ begun' = 0 /\ st' = 0 /\ key' = 0 /\ info' = NoInfo
  /\ pre' = "none" /\ ahead' = FALSE /\ attempt' = 0 /\ round' = 0 /\ recovered' = FALSE
  /\ UNCHANGED limit

-----------------------------------------------------------------------------
(* Uploading a folder: looking at the file, hashing, pre-signing.           *)

Begin(k) ==
  /\ pc = "idle" /\ runs < MaxRuns /\ runs' = runs + 1
  /\ kind' = k /\ calm' = TRUE /\ outcome' = None
  /\ Exists /\ size' = Length(holds)
  /\ ahead' = (k = "folder" /\ IsLfs(size'))
  /\ Go(IF k = "folder" THEN "scan" ELSE "size")
  /\ UNCHANGED <<file, entries, saved, server, limit, begun, st, key, info, pre, attempt, round, recovered,
                 afterward>>

\* What is recorded as committed is skipped.
Scan ==
  /\ pc = "scan"
  /\ IF Exists /\ entries[made].status = "committed"
     THEN UNCHANGED saved /\ Return("skipped")
     ELSE /\ entries' = IF Exists THEN Attempted(made) ELSE entries
          /\ Go(IF ahead THEN "cache" ELSE "single") /\ Save /\ UNCHANGED <<locals, outcome>>
  /\ UNCHANGED <<file, server, calm, runs, afterward>>

LookUpAhead ==
  /\ pc = "cache"
  /\ IF Exists /\ Cached(made) /\ IsLfs(entries[made].size)
     THEN info' = InfoOf(made) /\ Go("presign")
     ELSE Go("stat") /\ UNCHANGED info
  /\ UNCHANGED <<file, entries, saved, server, kind, limit, size, begun, st, key, pre, ahead, attempt,
                 round, recovered, calm, runs, outcome, afterward>>

StatAhead ==
  /\ pc = "stat"
  /\ st' = made
  /\ IF Exists THEN Go("size") /\ UNCHANGED ahead ELSE Go("single") /\ ahead' = FALSE
  /\ UNCHANGED <<file, entries, saved, server, kind, limit, size, begun, key, info, pre, attempt, round,
                 recovered, calm, runs, outcome, afterward>>

\* _compute_file_hash: the size first, then the bytes.
HashSize ==
  /\ pc = "size" /\ Exists
  /\ size' = Length(holds) /\ begun' = made /\ Go("bytes")
  /\ UNCHANGED <<file, entries, saved, server, kind, limit, st, key, info, pre, ahead, attempt, round,
                 recovered, calm, runs, outcome, afterward>>

\* The hash goes to the key the file had before it was read; without one, to a later stat.
\* (Mutant: to the one it has now.)
HashKeyNow == made
HashKey    == st
HashBytes ==
  /\ pc = "bytes" /\ Exists
  /\ \E h \in ReadSince(begun) :
       /\ info' = [hash |-> h, size |-> size]
       /\ entries' = IF kind = "folder" /\ HashKey # 0 THEN Put(HashKey, h, size) ELSE entries
  /\ Go(CASE kind = "file" -> "send" [] ahead -> "presign" [] st = 0 -> "late" [] OTHER -> "restat")
  /\ UNCHANGED <<file, saved, server, kind, limit, size, begun, st, key, pre, ahead, attempt, round,
                 recovered, calm, runs, outcome, afterward>>

\* There was nothing to be read after all: a hash that was taken ahead is left to the worker.
HashMissing ==
  /\ pc \in {"size", "bytes"} /\ ~Exists
  /\ IF ahead THEN Go("single") /\ ahead' = FALSE /\ st' = 0
              ELSE Go("failed") /\ UNCHANGED <<ahead, st>>
  /\ UNCHANGED <<file, entries, saved, server, kind, limit, size, begun, key, info, pre, attempt, round,
                 recovered, calm, runs, outcome, afterward>>

LateStat ==
  /\ pc = "late" /\ Go("restat")
  /\ IF Exists
     THEN st' = made /\ entries' = Put(made, info.hash, info.size) /\ afterward' = afterward \cup {made}
     ELSE UNCHANGED <<st, entries, afterward>>
  /\ UNCHANGED <<file, saved, server, kind, limit, size, begun, key, info, pre, ahead, attempt, round,
                 recovered, calm, runs, outcome>>

Presign ==
  /\ pc = "presign" /\ Go("single") /\ ahead' = FALSE
  /\ \/ pre' = IF stored[info.hash] # None THEN "stored" ELSE "url"
     \/ pre' = "unresolved"
  /\ UNCHANGED <<file, entries, saved, server, kind, limit, size, begun, st, key, info, attempt, round,
                 recovered, calm, runs, outcome, afterward>>

-----------------------------------------------------------------------------
(* _upload_single_file, from the pool and from the recovery rounds.         *)

\* A hash that is given is taken, with the times the file has now.
Single ==
  /\ pc = "single"
  /\ IF info # NoInfo THEN st' = 0 /\ Go("restat") /\ UNCHANGED info
     ELSE IF Exists /\ Cached(made) THEN st' = made /\ info' = InfoOf(made) /\ Go("restat")
     ELSE st' = made /\ Go("size") /\ UNCHANGED info
  /\ UNCHANGED <<file, entries, saved, server, kind, limit, size, begun, key, pre, ahead, attempt, round,
                 recovered, calm, runs, outcome, afterward>>

Restat ==
  /\ pc = "restat" /\ Go("check")
  /\ key' = IF st # 0 THEN st ELSE made
  /\ UNCHANGED <<file, entries, saved, server, kind, limit, size, begun, st, info, pre, ahead, attempt,
                 round, recovered, calm, runs, outcome, afterward>>

\* The size must still be that of the hash; a file that is gone or has another fails for good.
CheckSize ==
  /\ pc = "check"
  /\ Go(IF ~Exists \/ Length(holds) # info.size THEN "failed"
        ELSE IF IsLfs(info.size) THEN "send" ELSE "uploaded")
  /\ UNCHANGED <<file, entries, saved, server, locals, calm, runs, outcome, afterward>>

\* _upload_blob: nothing is sent of a content the server has.
Negotiate ==
  /\ pc = "send"
  /\ IF ~IsLfs(info.size) \/ pre = "stored" \/ (pre # "url" /\ stored[info.hash] # None)
     THEN Go("uploaded") /\ UNCHANGED begun
     ELSE IF Exists THEN Go("sending") /\ begun' = made ELSE Go("failed") /\ UNCHANGED begun
  /\ UNCHANGED <<file, entries, saved, server, kind, limit, size, st, key, info, pre, ahead, attempt, round,
                 recovered, calm, runs, outcome, afterward>>

\* What is sent must have the announced length and, for a store that looks, the hash.
Sends(c) == (c = Torn \/ Length(c) = info.size) /\ (Verifies => c # Torn /\ c = info.hash)
Send ==
  /\ pc = "sending" /\ Exists
  /\ \E c \in ReadSince(begun) :
       Sends(c) /\ stored' = [stored EXCEPT ![info.hash] = c]
  /\ Go("uploaded")
  /\ UNCHANGED <<file, entries, saved, tree, locals, calm, runs, outcome, afterward>>

\* A transfer fails, or its answer is lost: the file is sent again, as often as is allowed,
\* and then left to the next round.  Some failures are for good.
Again ==
  /\ kind = "folder"
  /\ \/ /\ attempt + 1 < MaxAttempts /\ attempt' = attempt + 1 /\ Go("check")
        /\ UNCHANGED <<info, pre, round>>
     \/ /\ attempt + 1 >= MaxAttempts /\ round < MaxRounds /\ round' = round + 1
        /\ attempt' = 0 /\ info' = NoInfo /\ pre' = "none" /\ Go("single")
GiveUp    == Go("failed") /\ UNCHANGED <<attempt, info, pre, round>>
SendFails ==
  /\ pc = "sending" /\ (Again \/ GiveUp)
  /\ \/ UNCHANGED stored
     \/ Exists /\ \E c \in ReadSince(begun) : Sends(c) /\ stored' = [stored EXCEPT ![info.hash] = c]
  /\ UNCHANGED <<file, entries, saved, tree, kind, limit, size, begun, st, key, ahead, recovered, calm,
                 runs, outcome, afterward>>
NegotiateFails ==
  /\ pc = "send" /\ IsLfs(info.size) /\ pre \notin {"stored", "url"} /\ (Again \/ GiveUp)
  /\ UNCHANGED <<file, entries, saved, server, kind, limit, size, begun, st, key, ahead, recovered, calm,
                 runs, outcome, afterward>>

-----------------------------------------------------------------------------
(* Committing.                                                              *)

Uploaded ==
  /\ pc = "uploaded" /\ Go("build")
  /\ IF kind = "folder" THEN entries' = Marked(key, "uploaded") /\ Save ELSE UNCHANGED <<entries, saved>>
  /\ UNCHANGED <<file, server, locals, calm, runs, outcome, afterward>>

\* An LFS operation is the pointer; another one is what the file holds now.
Operation(c) == IF IsLfs(info.size) THEN [type |-> "lfs", of |-> info.hash]
                                    ELSE [type |-> "normal", of |-> c]
CanBuild == IsLfs(info.size) \/ Exists
Commit ==
  /\ pc = "build" /\ CanBuild
  /\ tree' = Operation(holds) /\ UNCHANGED saved
  /\ IF kind = "folder" THEN Go("track") /\ UNCHANGED <<entries, locals, outcome>>
                        ELSE Return("committed")
  /\ UNCHANGED <<file, stored, calm, runs, afterward>>

\* A commit that fails for good, or whose answer is lost, is recovered once, from the file.
CommitFails ==
  /\ pc = "build" /\ CanBuild
  /\ tree' \in {tree, Operation(holds)}
  /\ \/ kind = "folder" /\ ~recovered /\ recovered' = TRUE /\ UNCHANGED <<pc, entries>>
     \/ kind = "folder" /\ entries' = Failed(key) /\ Go("end") /\ UNCHANGED recovered
     \/ kind = "file" /\ Go("end") /\ UNCHANGED <<entries, recovered>>
  /\ UNCHANGED <<file, saved, stored, kind, limit, size, begun, st, key, info, pre, ahead, attempt, round,
                 calm, runs, outcome, afterward>>

\* Nothing to read for the operation: the recovery marks the file, the first commit raises.
BuildFails ==
  /\ pc = "build" /\ ~CanBuild /\ Go("end")
  /\ entries' = IF recovered THEN Failed(key) ELSE entries
  /\ UNCHANGED <<file, saved, server, locals, calm, runs, outcome, afterward>>

Track ==
  /\ pc = "track"
  /\ LastSave(Marked(key, "committed")) /\ Return("committed")
  /\ UNCHANGED <<file, server, calm, runs, afterward>>

\* A file that failed for good is recorded under the times it has now.
Fail ==
  /\ pc = "failed" /\ Go("end")
  /\ entries' = IF kind = "folder" THEN Failed(made) ELSE entries
  /\ UNCHANGED <<file, saved, server, locals, calm, runs, outcome, afterward>>
End ==
  /\ pc = "end"
  /\ LastSave(entries) /\ Return("failed")
  /\ UNCHANGED <<file, server, calm, runs, afterward>>

Crash ==
  /\ pc # "idle" /\ UNCHANGED saved /\ Return(None)
  /\ UNCHANGED <<file, server, calm, runs, afterward>>

Rest == pc = "idle" /\ UNCHANGED vars

Next ==
  \/ Write \/ Remove \/ (\E k \in {"folder", "file"} : Begin(k))
  \/ Scan \/ LookUpAhead \/ StatAhead \/ HashSize \/ HashBytes \/ HashMissing \/ LateStat \/ Presign
  \/ Single \/ Restat \/ CheckSize \/ Negotiate \/ NegotiateFails \/ Send \/ SendFails
  \/ Uploaded \/ Commit \/ CommitFails \/ BuildFails \/ Track \/ Fail \/ End \/ Crash \/ Rest

Spec == Init /\ [][Next]_vars

-----------------------------------------------------------------------------
(* Properties                                                               *)

Entry == [hash : Hashes \cup {None}, size : Nat, status : {"absent", "new", "uploaded", "committed", "failed"}]
TypeOK ==
  /\ made \in Keys /\ writes \in Keys /\ holds \in Contents \cup {None} /\ (Exists <=> holds # None)
  /\ entries \in [Keys -> Entry] /\ saved \in [Keys -> Entry]
  /\ stored \in [Hashes -> Hashes \cup {None}]
  /\ tree \in [type : {"none", "lfs", "normal"}, of : Hashes \cup {None}]
  /\ {begun, st, key} \subseteq Keys /\ afterward \subseteq Keys
  /\ attempt \in 0..MaxAttempts /\ round \in 0..MaxRounds /\ runs \in 0..MaxRuns
  /\ info \in [hash : Hashes \cup {None}, size : Nat]

Published == IF tree.type = "lfs" THEN stored[tree.of] ELSE tree.of

\* A hash the tracker would give for the file as it is, is the file's.
HashIsFiles ==
  Exists /\ made \notin afterward /\ Cached(made) => entries[made].hash = holds

\* What the next run would skip is in the repository as it is here, however often it was
\* written while earlier runs read it.
SkippedIsPublished ==
  Verifies /\ Exists /\ made \notin afterward =>
    \A e \in {entries[made], saved[made]} : e.status = "committed" => Published = holds

\* A run that says committed or skipped, and during which nothing was written, has put the
\* file as it is into the repository.
CalmIsPublished ==
  Verifies /\ Exists /\ made \notin afterward /\ calm /\ outcome \in {"committed", "skipped"}
    => Published = holds

ChangesHold == HashIsFiles /\ SkippedIsPublished /\ CalmIsPublished

\* Also of a key that was looked up after the bytes were read (the file was not there for
\* the first look, was made, read, and written again before the second).
SkippedAlways ==
  Verifies /\ Exists => \A e \in {entries[made], saved[made]} : e.status = "committed" => Published = holds

\* A pointer's blob has the pointer's hash, whatever the store looks at.
PointerIsTrue == tree.type = "lfs" => stored[tree.of] = tree.of
=============================================================================
