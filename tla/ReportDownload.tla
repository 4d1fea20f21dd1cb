--------------------------- MODULE ReportDownload ---------------------------
(***************************************************************************)
(* download_repo_report (_resilient_download.py) and its durable state      *)
(* (_download_state.py).  A producer thread lists the repository page by    *)
(* page into a bounded queue; the calling thread takes entries from the     *)
(* queue, selects the files to transfer and submits them to a pool; the     *)
(* workers download them, isolate what fails and draw on a recovery budget  *)
(* that is saved with every retry.  A run may be interrupted, or die at any *)
(* step, and the repository may be downloaded again.                        *)
(*                                                                          *)
(* The tracker's file lock admits one run at a time.  A transfer            *)
(* (DownloadManager.download_file) is what a worker sees of it: retries,    *)
(* then the verified file in place or an error.  Each page holds one entry. *)
(***************************************************************************)
EXTENDS Integers, FiniteSets, Sequences

CONSTANTS
  Paths,           \* paths of listed entries
  Listing,         \* the pages: entries [path, kind], kind "file", "skip" or "invalid"
  Workers,         \* max_workers
  QueueCap,        \* maxsize of the queue (workers * 4 in the code)
  FutureCap,       \* futures kept at a time (workers * 2 in the code)
  MaxRetries,      \* DownloadRetryPolicy.max_retries
  SavesFail,       \* whether writing the tracker file may fail
  MaxRuns          \* bound on the number of runs (model bound)

Kinds == {"file", "skip", "invalid"}

ASSUME ConstantsOK ==
  /\ IsFiniteSet(Paths) /\ Listing \in Seq([path : Paths, kind : Kinds])
  /\ Workers \in Nat \ {0} /\ QueueCap \in Nat \ {0} /\ FutureCap \in Nat \ {0}
  /\ MaxRetries \in Nat /\ SavesFail \in BOOLEAN /\ MaxRuns \in Nat \ {0}

VARIABLES
  good,            \* paths whose file is in the output and matches the metadata
  exc, pages,      \* _exceptions and _pages (isolated pages), in memory
  diskExc, diskPages,  \* ... and in the tracker file
  run, retryFailed,
  \* the producer
  page,            \* next page, 0 when the listing is over
  misses,          \* consecutive failed pages
  item,            \* what put() is trying to enqueue, NoItem if nothing
  producerDone,
  queue,           \* incoming
  \* the calling thread
  pc, futures, stop,
  path,            \* the path between select and submit
  listingComplete, globalError,
  seen, active,    \* _seen and _active
  chosen,          \* the status each path was selected with
  verdict, total,  \* status and number of the results spooled
  status,          \* report.status
  job              \* the task of each path

durable   == <<diskExc, diskPages>>
hints     == <<exc, pages, diskExc, diskPages>>
producer  == <<page, misses, item, producerDone>>
results   == <<active, verdict, total>>
flags     == <<listingComplete, globalError>>
vars == <<good, hints, run, retryFailed, producer, queue, pc, futures, stop, path,
          flags, seen, chosen, results, status, job>>

NoHint   == [status |-> "none", retries |-> 0, old |-> FALSE]
NoItem   == [path |-> "none", kind |-> "none"]
ErrItem  == [path |-> "none", kind |-> "error"]
Isolating == {"FAILED", "DEFERRED"}
Verdicts == Isolating \cup {"VERIFIED", "PENDING"}
Ended    == {"reported", "crashed"}
Trying   == {"loop1", "loop2", "fill", "submit", "wait"}
Busy     == {"check", "run", "refused", "publish"}

Isolated(h) == h.status \in Isolating

-----------------------------------------------------------------------------
(* _DownloadState                                                           *)

\* The tracker file is replaced atomically; a write that fails is only warned of.
Save(e, p) ==
  /\ exc' = e /\ pages' = p
  /\ \/ diskExc' = e /\ diskPages' = p
     \/ SavesFail /\ UNCHANGED durable

\* A hint for other metadata is dropped, and the path starts afresh.
Fresh(h) == IF h.status # "none" /\ ~h.old THEN h
            ELSE [status |-> "PENDING", retries |-> 0, old |-> FALSE]

\* select of a path that was not seen in this run.
Select(p) ==
  /\ seen' = seen \cup {p}
  /\ active' = [active EXCEPT ![p] = Fresh(exc[p])]
  /\ chosen' = [chosen EXCEPT ![p] = Fresh(exc[p]).status]
  /\ IF exc[p].old THEN Save([exc EXCEPT ![p] = NoHint], pages) ELSE UNCHANGED hints

\* What finish keeps: isolated files, and what is left of a budget.
\* (Mutant: isolated files only.)
KeepIsolatedOnly(s, r) == s \in Isolating
Keep(s, r) == s \in Isolating \/ (s = "PENDING" /\ r > 0)

Kept(s, r) == IF Keep(s, r) THEN [status |-> s, retries |-> r, old |-> FALSE] ELSE NoHint

Finish(p, s) ==
  /\ active' = [active EXCEPT ![p] = NoHint]
  /\ verdict' = [verdict EXCEPT ![p] = s] /\ total' = total + 1
  /\ Save([exc EXCEPT ![p] = Kept(s, active[p].retries)], pages)

-----------------------------------------------------------------------------
\* What a new run starts from, the tracker file being loaded: an entry that was
\* DOWNLOADING when the process died is DEFERRED.
Loaded(h) == IF h.status = "DOWNLOADING" THEN [h EXCEPT !.status = "DEFERRED"] ELSE h

Forgotten ==
  /\ page = 1 /\ misses = 0 /\ item = NoItem /\ producerDone = FALSE /\ queue = <<>>
  /\ futures = {} /\ stop = FALSE /\ path = "none"
  /\ listingComplete = TRUE /\ globalError = FALSE
  /\ seen = {} /\ active = [p \in Paths |-> NoHint]
  /\ chosen = [p \in Paths |-> "none"]
  /\ verdict = [p \in Paths |-> "none"] /\ total = 0 /\ status = "none"
  /\ job = [p \in Paths |-> "none"]

Init ==
  /\ good \in SUBSET Paths
  /\ exc = [p \in Paths |-> NoHint] /\ pages = {}
  /\ diskExc = exc /\ diskPages = pages
  /\ run = 1 /\ retryFailed \in BOOLEAN /\ pc = "loop1"
  /\ Forgotten

-----------------------------------------------------------------------------
(* The producer                                                             *)

ProducerOnly == UNCHANGED <<good, run, retryFailed, pc, futures, stop, path,
                            listingComplete, seen, chosen, results, status, job>>

\* retry_failed forgets the isolated pages before the first page is read.
Resetting == retryFailed /\ page = 1 /\ pages # {}

ResetPages ==
  /\ ~producerDone /\ item = NoItem /\ Resetting /\ pc \notin Ended
  /\ Save(exc, {})
  /\ UNCHANGED <<producer, queue, globalError>> /\ ProducerOnly

Reading == ~producerDone /\ item = NoItem /\ page > 0 /\ ~stop /\ ~Resetting /\ pc \notin Ended

\* A page is listed: the last one is the first that is not full.
ListPage ==
  /\ Reading /\ page \notin pages
  /\ IF page <= Len(Listing) THEN item' = Listing[page] ELSE UNCHANGED item
  /\ misses' = 0
  /\ page' = IF page < Len(Listing) THEN page + 1 ELSE 0
  /\ UNCHANGED <<hints, producerDone, queue, globalError>> /\ ProducerOnly

\* A page fails, or was isolated before: it is recorded and reported, and the
\* listing goes on with the next one unless two failed in a row.
PageFails ==
  /\ Reading
  /\ Save(exc, pages \cup {page})
  /\ item' = ErrItem
  /\ misses' = misses + 1
  /\ page' = IF misses = 1 \/ page > Len(Listing) THEN 0 ELSE page + 1
  /\ UNCHANGED <<producerDone, queue, globalError>> /\ ProducerOnly

\* Any other error ends the listing; one of authentication is global.
ListingFails ==
  /\ Reading
  /\ item' = ErrItem /\ page' = 0
  /\ globalError' \in {globalError, TRUE}
  /\ UNCHANGED <<hints, misses, producerDone, queue>> /\ ProducerOnly

\* put blocks while the queue is full, and gives up once the run stops.
\* (Mutant: it does not give up.)
PutBlocking ==
  /\ item # NoItem /\ pc \notin Ended
  /\ Len(queue) < QueueCap /\ queue' = Append(queue, item)
  /\ item' = NoItem
  /\ UNCHANGED <<hints, page, misses, producerDone, globalError>> /\ ProducerOnly

Put ==
  /\ item # NoItem /\ pc \notin Ended
  /\ \/ ~stop /\ Len(queue) < QueueCap /\ queue' = Append(queue, item)
     \/ stop /\ UNCHANGED queue
  /\ item' = NoItem
  /\ UNCHANGED <<hints, page, misses, producerDone, globalError>> /\ ProducerOnly

ProducerEnds ==
  /\ ~producerDone /\ item = NoItem /\ (page = 0 \/ stop) /\ pc \notin Ended
  /\ producerDone' = TRUE
  /\ UNCHANGED <<hints, page, misses, item, queue, globalError>> /\ ProducerOnly

Producer == ResetPages \/ ListPage \/ PageFails \/ ListingFails \/ Put \/ ProducerEnds

-----------------------------------------------------------------------------
(* The workers                                                              *)

WorkerOnly == UNCHANGED <<run, retryFailed, producer, queue, pc, futures, stop, path,
                          flags, seen, chosen, status>>

Alive(p) == pc \notin Ended /\ active[p] # NoHint

\* An isolated file is only validated, unless retry_failed asks for a new
\* attempt; any other file is begun.  (Mutant: isolation is not looked at.)
StartAnyway(p) ==
  /\ job[p] = "queued" /\ pc \notin Ended
  /\ Cardinality({q \in Paths : job[q] \in Busy}) < Workers
  /\ job' = [job EXCEPT ![p] = "run"]
  /\ active' = [active EXCEPT ![p].status = "DOWNLOADING"]
  /\ UNCHANGED <<good, hints, verdict, total>> /\ WorkerOnly

Start(p) ==
  /\ job[p] = "queued" /\ pc \notin Ended
  /\ Cardinality({q \in Paths : job[q] \in Busy}) < Workers
  /\ IF Isolated(active[p]) /\ ~retryFailed
       THEN job' = [job EXCEPT ![p] = "check"] /\ UNCHANGED active
       ELSE /\ job' = [job EXCEPT ![p] = "run"]
            /\ active' = [active EXCEPT ![p] =
                 [@ EXCEPT !.status = "DOWNLOADING",
                           !.retries = IF Isolated(active[p]) THEN 0 ELSE active[p].retries]]
  /\ UNCHANGED <<good, hints, verdict, total>> /\ WorkerOnly

\* The task of p ends with a result, and returns or raises to the calling thread.
End(p, s, how) ==
  /\ Finish(p, s)
  /\ job' = [job EXCEPT ![p] = how]
  /\ UNCHANGED good /\ WorkerOnly

\* Validation finds the file valid or not, or fails, or runs out of time.
Validate(p) ==
  /\ job[p] = "check" /\ Alive(p)
  /\ \/ p \in good /\ End(p, "VERIFIED", "returned")
     \/ p \notin good /\ End(p, chosen[p], "returned")
     \/ \E s \in {"FAILED", "PENDING"} : End(p, s, "returned")

\* A retry is saved before it is made.  Its time may be up before its count is.
\* (Mutant: the count is not compared with max_retries.)
RetryUncounted(p) ==
  /\ job[p] = "run" /\ Alive(p)
  /\ active' = [active EXCEPT ![p].retries = @ + 1]
  /\ Save([exc EXCEPT ![p] = active'[p]], pages)
  /\ UNCHANGED <<good, verdict, total, job>> /\ WorkerOnly

Retry(p) ==
  /\ job[p] = "run" /\ Alive(p) /\ active[p].retries < MaxRetries
  /\ active' = [active EXCEPT ![p].retries = @ + 1]
  /\ Save([exc EXCEPT ![p] = active'[p]], pages)
  /\ UNCHANGED <<good, verdict, total, job>> /\ WorkerOnly

RetryRefused(p) ==
  /\ job[p] = "run" /\ Alive(p)
  /\ Save([exc EXCEPT ![p] = active[p]], pages)
  /\ job' = [job EXCEPT ![p] = "refused"]
  /\ UNCHANGED <<good, results>> /\ WorkerOnly

\* The verified file is moved into place, or is found there.
Publish(p) ==
  /\ job[p] = "run" /\ Alive(p)
  /\ good' = good \cup {p}
  /\ job' = [job EXCEPT ![p] = "publish"]
  /\ UNCHANGED <<hints, results>> /\ WorkerOnly

Verified(p) == job[p] = "publish" /\ Alive(p) /\ End(p, "VERIFIED", "returned")

\* An error isolates the file: as FAILED when it is terminal, and a file whose
\* budget is exhausted according to what the last attempt met.
TransferFails(p) ==
  /\ job[p] \in {"run", "refused"} /\ Alive(p)
  /\ \E s \in Isolating : End(p, s, "returned")

\* No credentials, or no space: the error also ends the run.
TransferFatal(p) ==
  /\ job[p] = "run" /\ Alive(p)
  /\ End(p, "FAILED", "raised")

\* The time budget of the file is up: unfinished work.
DeadlineStops(p) ==
  /\ job[p] = "run" /\ Alive(p)
  /\ End(p, "PENDING", "returned")

\* A stopped task leaves an isolated file isolated, and any other unfinished.
Cancelled(p) ==
  /\ job[p] \in {"check", "run"} /\ stop /\ Alive(p)
  /\ End(p, IF chosen[p] \in Isolating THEN chosen[p] ELSE "PENDING", "raised")

Worker(p) == \/ Start(p) \/ Validate(p) \/ Retry(p) \/ RetryRefused(p) \/ Publish(p)
             \/ Verified(p) \/ TransferFails(p) \/ TransferFatal(p)
             \/ DeadlineStops(p) \/ Cancelled(p)

-----------------------------------------------------------------------------
(* The calling thread                                                       *)

MainOnly == UNCHANGED <<good, run, retryFailed, producer, status>>

\* The loop goes on while there are futures, the producer is at work, or the
\* queue holds something, read in this order.  (Mutant: the queue first.)
SeesWorkSwapped(i) == IF i = 1 THEN queue # <<>> ELSE ~producerDone
SeesWork(i)        == IF i = 1 THEN ~producerDone ELSE queue # <<>>

Loop1 ==
  /\ pc = "loop1"
  /\ pc' = IF futures # {} \/ SeesWork(1) THEN "fill" ELSE "loop2"
  /\ UNCHANGED <<hints, queue, futures, stop, path, flags, seen, chosen, results, job>>
  /\ MainOnly

Loop2 ==
  /\ pc = "loop2"
  /\ pc' = IF SeesWork(2) THEN "fill" ELSE "cancel"
  /\ UNCHANGED <<hints, queue, futures, stop, path, flags, seen, chosen, results, job>>
  /\ MainOnly

\* An entry is taken from the queue: an error makes the listing incomplete, a
\* directory or a path seen before is passed over, an entry that is not valid
\* fails, and a file is selected.
Take ==
  /\ pc = "fill" /\ Cardinality(futures) < FutureCap /\ queue # <<>>
  /\ LET entry == Head(queue)
         new   == entry.kind \in {"file", "invalid"} /\ entry.path \notin seen
     IN
       /\ queue' = Tail(queue)
       /\ listingComplete' = (listingComplete /\ entry.kind # "error")
       /\ \/ ~new /\ UNCHANGED <<hints, pc, path, seen, chosen, results>>
          \/ /\ new /\ entry.kind = "file"
             /\ Select(entry.path)
             /\ pc' = "submit" /\ path' = entry.path
             /\ UNCHANGED <<verdict, total>>
          \/ /\ new /\ entry.kind = "invalid"
             /\ seen' = seen \cup {entry.path}
             /\ chosen' = [chosen EXCEPT ![entry.path] = "PENDING"]
             /\ verdict' = [verdict EXCEPT ![entry.path] = "FAILED"] /\ total' = total + 1
             /\ Save([exc EXCEPT ![entry.path] = Kept("FAILED", 0)], pages)
             /\ UNCHANGED <<pc, path, active>>
  /\ UNCHANGED <<futures, stop, globalError, job>> /\ MainOnly

Submit ==
  /\ pc = "submit"
  /\ futures' = futures \cup {path}
  /\ job' = [job EXCEPT ![path] = "queued"]
  /\ pc' = "fill"
  /\ UNCHANGED <<hints, queue, stop, path, flags, seen, chosen, results>> /\ MainOnly

Filled ==
  /\ pc = "fill" /\ (Cardinality(futures) >= FutureCap \/ queue = <<>>)
  /\ pc' = IF futures # {} THEN "wait" ELSE "loop1"
  /\ UNCHANGED <<hints, queue, futures, stop, path, flags, seen, chosen, results, job>>
  /\ MainOnly

\* The futures that are done are dropped; one that raised stops the run.
Reap(p) ==
  /\ pc = "wait" /\ p \in futures /\ job[p] \in {"returned", "raised"}
  /\ futures' = futures \ {p}
  /\ IF job[p] = "raised"
       THEN pc' = "cancel" /\ stop' = TRUE /\ globalError' = TRUE /\ listingComplete' = FALSE
       ELSE UNCHANGED <<pc, stop, flags>>
  /\ UNCHANGED <<hints, queue, path, seen, chosen, results, job>> /\ MainOnly

Waited ==
  /\ pc = "wait" /\ \A p \in futures : job[p] \notin {"returned", "raised"}
  /\ pc' = "loop1"
  /\ UNCHANGED <<hints, queue, futures, stop, path, flags, seen, chosen, results, job>>
  /\ MainOnly

\* An interrupt stops the run; between select and submit it leaves a path active,
\* with a task the loop does not know of or with none.
Interrupt ==
  /\ pc \in Trying
  /\ stop' = TRUE /\ status' = "CANCELLED" /\ pc' = "cancel"
  /\ job' \in {job} \cup IF pc = "submit" THEN {[job EXCEPT ![path] = "queued"]} ELSE {}
  /\ UNCHANGED <<good, run, retryFailed, producer, hints, queue, futures, path, flags,
                 seen, chosen, results>>

\* After a stop, the tasks that have not started are cancelled one by one; they
\* are PENDING whatever they were.
CancelQueued(p) ==
  /\ pc = "cancel" /\ stop /\ p \in futures
  /\ futures' = futures \ {p}
  /\ IF job[p] = "queued"
       THEN Finish(p, "PENDING") /\ job' = [job EXCEPT ![p] = "cancelled"]
       ELSE UNCHANGED <<hints, results, job>>
  /\ UNCHANGED <<queue, pc, stop, path, flags, seen, chosen>> /\ MainOnly

\* pool.shutdown drops what is queued, and waits for what runs.
Shutdown ==
  /\ pc = "cancel" /\ (futures = {} \/ ~stop)
  /\ job' = [p \in Paths |-> IF job[p] = "queued" THEN "cancelled" ELSE job[p]]
  /\ pc' = "shutdown"
  /\ UNCHANGED <<hints, queue, futures, stop, path, flags, seen, chosen, results>>
  /\ MainOnly

\* (Mutant: it does not wait.)
PoolNotAwaited ==
  /\ pc = "shutdown"
  /\ stop' = TRUE /\ pc' = "join"
  /\ UNCHANGED <<hints, queue, futures, path, flags, seen, chosen, results, job>> /\ MainOnly

PoolEnds ==
  /\ pc = "shutdown" /\ \A p \in Paths : job[p] \notin Busy
  /\ stop' = TRUE /\ pc' = "join"
  /\ UNCHANGED <<hints, queue, futures, path, flags, seen, chosen, results, job>> /\ MainOnly

JoinProducer ==
  /\ pc = "join" /\ producerDone
  /\ pc' = "report"
  /\ UNCHANGED <<hints, queue, futures, stop, path, flags, seen, chosen, results, job>>
  /\ MainOnly

\* What is still active is PENDING, and the run is complete when nothing is
\* missing.  (Mutant: the listing is not looked at.)
ReportAnyListing ==
  IF status = "CANCELLED" THEN status
  ELSE IF ~globalError /\ \A p \in seen : verdict[p] = "VERIFIED"
       THEN "COMPLETE" ELSE "PARTIAL"
Outcome ==
  IF status = "CANCELLED" THEN status
  ELSE IF listingComplete /\ ~globalError /\ total' = Cardinality({p \in Paths : verdict'[p] = "VERIFIED"})
       THEN "COMPLETE" ELSE "PARTIAL"

Report ==
  /\ pc = "report"
  /\ LET rest == {p \in Paths : active[p] # NoHint} IN
       /\ verdict' = [p \in Paths |-> IF p \in rest THEN "PENDING" ELSE verdict[p]]
       /\ total' = total + Cardinality(rest)
       /\ Save([p \in Paths |-> IF p \in rest THEN Kept("PENDING", active[p].retries) ELSE exc[p]], pages)
  /\ active' = [p \in Paths |-> NoHint]
  /\ status' = Outcome
  /\ pc' = "reported"
  /\ UNCHANGED <<good, run, retryFailed, producer, queue, futures, stop, path, flags,
                 seen, chosen, job>>

Main == \/ Loop1 \/ Loop2 \/ Take \/ Submit \/ Filled \/ Waited \/ Shutdown \/ PoolEnds
        \/ JoinProducer \/ Report
        \/ \E p \in Paths : Reap(p) \/ CancelQueued(p)

-----------------------------------------------------------------------------
(* Process death, and the next run                                          *)

Forget ==
  /\ page' = 1 /\ misses' = 0 /\ item' = NoItem /\ producerDone' = FALSE /\ queue' = <<>>
  /\ futures' = {} /\ stop' = FALSE /\ path' = "none"
  /\ listingComplete' = TRUE /\ globalError' = FALSE
  /\ seen' = {} /\ active' = [p \in Paths |-> NoHint] /\ chosen' = [p \in Paths |-> "none"]
  /\ verdict' = [p \in Paths |-> "none"] /\ total' = 0 /\ status' = "none"
  /\ job' = [p \in Paths |-> "none"]

Crash ==
  /\ pc \notin Ended
  /\ pc' = "crashed"
  /\ exc' = diskExc /\ pages' = diskPages
  /\ Forget
  /\ UNCHANGED <<good, durable, run, retryFailed>>

\* Between runs the repository may change some files: their hints no longer fit.
NewRun ==
  /\ pc \in Ended /\ run < MaxRuns
  /\ run' = run + 1 /\ retryFailed' \in BOOLEAN /\ pc' = "loop1"
  /\ \E changed \in SUBSET Paths :
       /\ good' = good \ changed
       /\ diskExc' = [p \in Paths |-> IF p \in changed /\ diskExc[p] # NoHint
                                      THEN [diskExc[p] EXCEPT !.old = TRUE] ELSE diskExc[p]]
  /\ exc' = [p \in Paths |-> Loaded(diskExc'[p])]
  /\ pages' = diskPages
  /\ Forget
  /\ UNCHANGED diskPages

Rest == pc \in Ended /\ run = MaxRuns /\ UNCHANGED vars

Next == Main \/ Interrupt \/ Producer \/ (\E p \in Paths : Worker(p)) \/ Crash \/ NewRun \/ Rest

Spec == Init /\ [][Next]_vars

\* The calling thread, the producer and the workers keep running while the
\* process lives; nothing is assumed of interrupts, crashes and later runs.
FairSpec == Spec /\ WF_vars(Main) /\ WF_vars(Producer) /\ \A p \in Paths : WF_vars(Worker(p))

-----------------------------------------------------------------------------
(* Properties                                                               *)

Statuses == Verdicts \cup {"none", "DOWNLOADING"}
Hints    == [status : Statuses, retries : 0..MaxRetries, old : BOOLEAN]

\* Every variable has its type, and no file is retried beyond max_retries.
TypeOK ==
  /\ good \subseteq Paths /\ run \in 1..MaxRuns /\ retryFailed \in BOOLEAN
  /\ exc \in [Paths -> Hints] /\ diskExc \in [Paths -> Hints]
  /\ pages \subseteq 1..(Len(Listing) + 1) /\ diskPages \subseteq 1..(Len(Listing) + 1)
  /\ page \in 0..(Len(Listing) + 1) /\ misses \in 0..2 /\ producerDone \in BOOLEAN
  /\ item.kind \in Kinds \cup {"none", "error"} /\ Len(queue) <= QueueCap
  /\ pc \in Trying \cup {"cancel", "shutdown", "join", "report"} \cup Ended
  /\ futures \subseteq Paths /\ Cardinality(futures) <= FutureCap /\ stop \in BOOLEAN
  /\ path \in Paths \cup {"none"} /\ listingComplete \in BOOLEAN /\ globalError \in BOOLEAN
  /\ seen \subseteq Paths /\ active \in [Paths -> Hints] /\ chosen \in [Paths -> Statuses]
  /\ verdict \in [Paths -> Verdicts \cup {"none"}] /\ total \in 0..Cardinality(Paths)
  /\ status \in {"none", "CANCELLED", "COMPLETE", "PARTIAL"}
  /\ job \in [Paths -> Busy \cup {"none", "queued", "returned", "raised", "cancelled"}]

\* A report that says COMPLETE is true: every entry of every page of the listing
\* is a file in the output that matches its metadata, or is none to download.
CompleteIsComplete ==
  pc = "reported" /\ status = "COMPLETE" =>
    \A i \in 1..Len(Listing) :
      Listing[i].kind = "skip" \/ Listing[i].path \in good

\* A report accounts for every selected file exactly once, and no task is left
\* that could still change a file or the tracker.
EveryFileReportedOnce ==
  pc = "reported" =>
    /\ total = Cardinality(seen) /\ \A p \in seen : verdict[p] # "none"
    /\ \A p \in Paths : job[p] \notin Busy \cup {"queued"}

\* An uninterrupted run whose listing is reported complete has looked at every
\* listed file: none is lost between the producer, the queue and the pool.
NothingListedIsLost ==
  pc = "reported" /\ listingComplete /\ status # "CANCELLED" =>
    \A i \in 1..Len(Listing) : Listing[i].kind = "skip" \/ Listing[i].path \in seen

\* The tracker file never forgets retries that were spent, over crashes,
\* interrupts and runs, unless the file was verified, changed in the
\* repository, or the operator asked for a new attempt.
BudgetIsDurable ==
  [][\A p \in Paths : \/ diskExc'[p].retries >= diskExc[p].retries
                      \/ p \in good' \/ retryFailed \/ diskExc[p].old]_vars

\* While a run is not stopped, an isolated file stays isolated in the tracker file
\* unless it is verified, changed, tried again on request, or out of time.
IsolatedWhileRunning ==
  [][\A p \in Paths : Isolated(diskExc[p]) /\ ~Isolated(diskExc'[p]) =>
       stop \/ p \in good' \/ retryFailed \/ diskExc[p].old \/ verdict'[p] = "PENDING"]_vars

\* "Otherwise failures remain isolated until metadata changes or
\* retry_failed=True" (README.md), whatever ends the run.
IsolatedUntilReset ==
  [][\A p \in Paths : Isolated(diskExc[p]) /\ ~Isolated(diskExc'[p]) =>
       p \in good' \/ retryFailed \/ diskExc[p].old]_vars

\* Every run ends with a report: no thread waits for ever for another.
RunEnds == (pc = "loop1") ~> (pc \in Ended)
=============================================================================
