---------------------------- MODULE RangeDownload ----------------------------
(***************************************************************************)
(* DownloadManager.download_file of a large file (_download.py): a pool of  *)
(* threads fetches byte ranges into part files, the calling thread waits    *)
(* for them, stops them all when one fails, merges the parts, verifies the  *)
(* result and renames it.  A rejected file is downloaded anew, a stopped or *)
(* killed call is resumed from its parts by a later one.                    *)
(*                                                                          *)
(* A part is a sequence of blocks, each the version of the object it came   *)
(* from; the listing describes "new".  The file lock, which DownloadFile    *)
(* models, lets one call run at a time.                                     *)
(***************************************************************************)
EXTENDS Integers, FiniteSets, Sequences

CONSTANTS
  FileSize,        \* blocks of the file
  PartSize,        \* DOWNLOAD_PART_SIZE
  Versions,        \* what a replica may serve
  MaxWorkers,      \* DOWNLOAD_PARALLELS
  MaxRetries,      \* DOWNLOAD_RETRY_TIMES
  HashTries,       \* DOWNLOAD_HASH_RETRY_TIMES
  SizeTries,       \* DOWNLOAD_SIZE_RETRY_TIMES
  MaxCalls         \* bound on the calls of download_file (model bound)

\* A part for every multiple of PartSize below FileSize, the last one perhaps shorter.
Parts == {i \in 1..FileSize : (i - 1) * PartSize < FileSize}
Bound(i) == IF i * PartSize <= FileSize THEN i * PartSize ELSE FileSize
Expected(i) == Bound(i) - Bound(i - 1)

ASSUME ConstantsOK ==
  /\ FileSize \in Nat \ {0} /\ PartSize \in Nat \ {0}
  /\ "new" \in Versions
  /\ MaxWorkers \in Nat \ {0} /\ MaxRetries \in Nat
  /\ HashTries \in Nat \ {0} /\ SizeTries \in Nat \ {0} /\ MaxCalls \in Nat \ {0}

VARIABLES
  hashed,          \* expected_sha256 was given
  part,            \* what each part file holds
  merged,          \* what .parallel_tmp holds
  target,          \* what the target holds
  \* the calling thread
  call, main,      \* number of the call, and where it is
  next,            \* the part to merge
  why,             \* the exception it has caught
  failures,        \* rejections by kind
  late,            \* the time allowed is over
  fetched,         \* history: blocks of each part received since parts were last discarded
  \* the pool
  worker,          \* where the thread of each part is
  from,            \* the version its response sends
  tries,           \* its retries
  stop             \* part_stop

caller == <<call, main, next, why, failures, late>>
pool   == <<worker, from, tries, stop>>
vars   == <<hashed, part, merged, target, caller, fetched, pool>>

Ended   == {"done", "failed", "stopped", "single", "crashed"}
Running == {"check", "request", "stream"}
Wrong   == {"range", "size"}                        \* _RangeNotHonouredError, FileIntegrityError
Errors  == Wrong \cup {"error", "stopped", "cancelled"}

Good      == [n \in 1..FileSize |-> "new"]
NoParts   == [i \in Parts |-> <<>>]
Nothing   == [i \in Parts |-> 0]
NoFailures == [hash |-> 0, size |-> 0]
Active    == {i \in Parts : worker[i] \in Running}

Init ==
  /\ hashed \in BOOLEAN
  /\ part = NoParts /\ merged = <<>> /\ target = <<>>
  /\ call = 1 /\ main = "attempt" /\ next = 1 /\ why = "none"
  /\ failures = NoFailures /\ late = FALSE /\ fetched = Nothing
  /\ worker = [i \in Parts |-> "idle"] /\ from = [i \in Parts |-> "new"]
  /\ tries = [i \in Parts |-> 0] /\ stop = FALSE

-----------------------------------------------------------------------------
(* _download_part_with_retry                                                *)

\* The thread of i goes on, or ends: then its locals are gone.
Move(i, where) ==
  /\ worker' = [worker EXCEPT ![i] = where]
  /\ from'   = [from EXCEPT ![i] = IF where = "stream" THEN @ ELSE "new"]
  /\ tries'  = [tries EXCEPT ![i] = IF where \in Running THEN @ ELSE 0]

WorkerOnly == UNCHANGED <<hashed, merged, target, caller, stop>>

Start(i) ==
  /\ worker[i] = "queued" /\ Cardinality(Active) < MaxWorkers
  /\ Move(i, "check")
  /\ WorkerOnly /\ UNCHANGED <<part, fetched>>

\* Wherever the thread looks at the control of the call, once its time is over.
WorkerStops(i) ==
  /\ late /\ worker[i] \in Running
  /\ Move(i, "stopped")
  /\ WorkerOnly /\ UNCHANGED <<part, fetched>>

\* The top of the loop: a part that has every block needs no request.
Check(i) ==
  /\ ~late /\ worker[i] = "check"
  /\ Move(i, IF stop THEN "cancelled"
             ELSE IF Len(part[i]) >= Expected(i) THEN "ok" ELSE "request")
  /\ WorkerOnly /\ UNCHANGED <<part, fetched>>

\* _wait_download_retry: the part is resumed, a number of times, or given up at
\* once for an error that is not retried.  (Mutant: not counted.)
RetryUncounted(i) == Move(i, "check")
Retry(i) ==
  \/ Move(i, "error")
  \/ /\ tries[i] < MaxRetries
     /\ worker' = [worker EXCEPT ![i] = "check"] /\ from' = [from EXCEPT ![i] = "new"]
     /\ tries' = [tries EXCEPT ![i] = @ + 1]

RequestFails(i) ==
  /\ ~late /\ worker[i] = "request"
  /\ Retry(i)
  /\ WorkerOnly /\ UNCHANGED <<part, fetched>>

\* An answer: refused when the group has been stopped meanwhile, or when it is not
\* the range that was asked for, of an object of the listed size.
Respond(i) ==
  /\ ~late /\ worker[i] = "request"
  /\ \/ stop /\ Move(i, "cancelled")
     \/ ~stop /\ \E e \in Wrong : Move(i, e)
     \/ /\ ~stop /\ worker' = [worker EXCEPT ![i] = "stream"]
        /\ \E v \in Versions : from' = [from EXCEPT ![i] = v]
        /\ UNCHANGED tries
  /\ WorkerOnly /\ UNCHANGED <<part, fetched>>

\* A block, which may have been under way when the group was stopped.  One beyond
\* the range is refused.  (Mutant: it is written first.)
ChunkUnchecked(i) ==
  /\ ~late /\ worker[i] = "stream" /\ Len(part[i]) <= Expected(i)
  /\ part' = [part EXCEPT ![i] = Append(@, from[i])]
  /\ fetched' = [fetched EXCEPT ![i] = @ + 1] /\ UNCHANGED <<worker, from, tries>>
  /\ WorkerOnly
Chunk(i) ==
  /\ ~late /\ worker[i] = "stream"
  /\ IF Len(part[i]) = Expected(i)
       THEN Move(i, "size") /\ UNCHANGED <<part, fetched>>
       ELSE /\ part' = [part EXCEPT ![i] = Append(@, from[i])]
            /\ fetched' = [fetched EXCEPT ![i] = @ + 1] /\ UNCHANGED <<worker, from, tries>>
  /\ WorkerOnly

\* The body ends or breaks, or abort_responses has shut its socket.
BodyEnds(i) ==
  /\ ~late /\ worker[i] = "stream"
  /\ \/ Len(part[i]) = Expected(i) /\ Move(i, "ok")
     \/ Len(part[i]) < Expected(i) /\ Retry(i)
     \/ stop /\ Move(i, "cancelled")
  /\ WorkerOnly /\ UNCHANGED <<part, fetched>>

Worker(i) == \/ Start(i) \/ WorkerStops(i) \/ Check(i) \/ RequestFails(i) \/ Respond(i)
             \/ Chunk(i) \/ BodyEnds(i)

-----------------------------------------------------------------------------
(* _parallel_download                                                       *)

Submit ==
  /\ ~late /\ main = "attempt"
  /\ worker' = [i \in Parts |-> "queued"] /\ stop' = FALSE /\ main' = "await"
  /\ UNCHANGED <<hashed, part, merged, target, call, next, why, failures, late, fetched,
                 from, tries>>

\* future.result() raises: the group is stopped, what is queued is cancelled.
Caught(i) ==
  /\ main = "await" /\ worker[i] \in Errors
  /\ why' = worker[i] /\ stop' = TRUE /\ main' = "drain"
  /\ worker' = [j \in Parts |-> IF worker[j] = "queued" THEN "cancelled" ELSE worker[j]]
  /\ UNCHANGED <<hashed, part, merged, target, call, next, failures, late, fetched, from, tries>>

\* The call or the attempt ends; what _parallel_download had is gone.
Leave(where) ==
  /\ main' = where /\ why' = "none" /\ next' = 1 /\ stop' = FALSE
  /\ worker' = [i \in Parts |-> IF i \in Active THEN worker[i] ELSE "idle"]
  /\ UNCHANGED <<hashed, call, late, from, tries>>

\* _download_file: a rejected file is downloaded anew, a number of times.
\* (Mutant: its failures are not counted.)
RejectUncounted(kind) == merged' = <<>> /\ fetched' = Nothing /\ Leave("attempt") /\ UNCHANGED failures
Reject(kind) ==
  LET count == failures[kind] + 1 IN
  /\ merged' = <<>> /\ fetched' = Nothing
  /\ failures' = [failures EXCEPT ![kind] = count]
  /\ Leave(IF count >= (IF kind = "hash" THEN HashTries ELSE SizeTries) THEN "failed"
           ELSE IF late THEN "stopped" ELSE "attempt")

\* Every thread has ended.  Parts of another object, or of a whole file, are
\* removed: a single stream follows, or another attempt.  (Mutants: the threads
\* are not waited for; the parts are not removed.)
NotWaited == TRUE
Waited    == Active = {}
KeptParts == part
LeftParts == IF why \in Wrong THEN NoParts ELSE part
Drained ==
  /\ main = "drain" /\ Waited
  /\ part' = LeftParts /\ UNCHANGED target
  /\ CASE why = "size"  -> Reject("size")
       [] why = "range" -> Leave("single") /\ fetched' = Nothing /\ UNCHANGED <<merged, failures>>
       [] why = "error" -> Leave("failed") /\ UNCHANGED <<fetched, merged, failures>>
       [] OTHER         -> Leave("stopped") /\ UNCHANGED <<fetched, merged, failures>>

AllFetched ==
  /\ main = "await" /\ \A i \in Parts : worker[i] = "ok"
  /\ merged' = <<>> /\ main' = "merge"
  /\ UNCHANGED <<hashed, part, target, call, next, why, failures, late, fetched, pool>>

\* A part is copied, and removed.
MergePart ==
  /\ ~late /\ main = "merge" /\ next \in Parts
  /\ merged' = merged \o part[next] /\ part' = [part EXCEPT ![next] = <<>>]
  /\ next' = next + 1
  /\ UNCHANGED <<hashed, target, call, main, why, failures, late, fetched, pool>>

\* (Mutant: the hash is not compared.)
VerifyNothing ==
  /\ ~late /\ main = "merge" /\ next \notin Parts
  /\ target' = merged /\ merged' = <<>> /\ Leave("done")
  /\ UNCHANGED <<part, failures, fetched>>
Misfit == Len(merged) # FileSize
Bad    == main = "merge" /\ next \notin Parts /\ (Misfit \/ (hashed /\ merged # Good))
Verify ==
  /\ main = "merge" /\ next \notin Parts
  /\ \/ Bad /\ Reject(IF Misfit THEN "size" ELSE "hash") /\ UNCHANGED target
     \/ /\ ~Bad /\ ~late
        /\ target' = merged /\ merged' = <<>> /\ Leave("done")
        /\ UNCHANGED <<failures, fetched>>
  /\ UNCHANGED part

\* control.check() raises, or the disk is full.
MainStops ==
  /\ main \in {"attempt", "merge"}
  /\ \/ late /\ ~Bad /\ Leave("stopped")
     \/ main = "merge" /\ next \in Parts /\ Leave("failed")
  /\ UNCHANGED <<part, merged, target, failures, fetched>>

Main == \/ Submit \/ (\E i \in Parts : Caught(i)) \/ Drained \/ AllFetched \/ MergePart
        \/ Verify \/ MainStops

-----------------------------------------------------------------------------
Deadline ==
  /\ ~late /\ main \notin Ended
  /\ late' = TRUE
  /\ UNCHANGED <<hashed, part, merged, target, call, main, next, why, failures, fetched, pool>>

\* The process dies, its threads with it.
Crash ==
  /\ main \notin Ended
  /\ main' = "crashed" /\ why' = "none" /\ next' = 1 /\ stop' = FALSE
  /\ worker' = [i \in Parts |-> "idle"] /\ from' = [i \in Parts |-> "new"]
  /\ tries' = [i \in Parts |-> 0]
  /\ UNCHANGED <<hashed, part, merged, target, call, failures, late, fetched>>

\* The file is asked for again.
NewCall ==
  /\ main \in Ended \ {"done", "single"} /\ call < MaxCalls
  /\ call' = call + 1 /\ main' = "attempt" /\ failures' = NoFailures /\ late' = FALSE
  /\ fetched' = [i \in Parts |-> Len(part[i])]
  /\ UNCHANGED <<hashed, part, merged, target, next, why, pool>>

Rest == main \in Ended /\ UNCHANGED vars

Next == Main \/ (\E i \in Parts : Worker(i)) \/ Deadline \/ Crash \/ NewCall \/ Rest

Spec == Init /\ [][Next]_vars

\* The calling thread and the pool's threads take their steps.
FairSpec == Spec /\ WF_vars(Main) /\ \A i \in Parts : WF_vars(Worker(i))

-----------------------------------------------------------------------------
(* Properties                                                               *)

TypeOK ==
  /\ hashed \in BOOLEAN /\ merged \in Seq(Versions) /\ target \in Seq(Versions)
  /\ part \in [Parts -> Seq(Versions)] /\ \A i \in Parts : Len(part[i]) <= Expected(i)
  /\ call \in 1..MaxCalls /\ main \in {"attempt", "await", "drain", "merge"} \cup Ended
  /\ next \in 1..FileSize + 1 /\ why \in Errors \cup {"none"}
  /\ failures \in [hash : 0..HashTries, size : 0..SizeTries] /\ fetched \in [Parts -> Nat]
  /\ worker \in [Parts -> {"idle", "queued", "ok"} \cup Running \cup Errors]
  /\ late \in BOOLEAN /\ from \in [Parts -> Versions] /\ tries \in [Parts -> 0..MaxRetries] /\ stop \in BOOLEAN

\* Merged parts add up to the listed size before it is compared, and what is put in
\* place has that size and, given its hash, the content, even when its parts come
\* from several responses, calls and replicas.
RangesFit ==
  /\ main = "merge" /\ next \notin Parts => ~Misfit
  /\ main = "done" => Len(target) = FileSize /\ (hashed => target = Good)

\* What was rejected is not resumed: another attempt or the single stream begins
\* with no part, whatever the threads were doing when the group was stopped.
NothingRejectedIsResumed ==
  main = "single" \/ (main = "attempt" /\ failures # NoFailures) =>
    part = NoParts /\ Active = {}

\* The file put in place has every byte in its place, and what a verification rejected is
\* not resumed by a later attempt or call, whatever threads were still writing.
PartsFit == RangesFit /\ NothingRejectedIsResumed

\* A stopped call keeps what it has received ("A file stopped by --total-timeout
\* keeps its partial data").
PartialDataKept == main = "stopped" => \A i \in Parts : Len(part[i]) >= fetched[i]

\* Every call ends.
RangesEnd == (main = "attempt") ~> (main \in Ended)
=============================================================================
