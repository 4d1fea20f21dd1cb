------------------------- MODULE ReportDownloadProofs -------------------------
(***************************************************************************)
(* Theorems about ReportDownload, for any listing, pool, queue, policy and  *)
(* number of runs.                                                          *)
(*                                                                          *)
(* The invariant has a part for each question.  JobInv and PhaseInv follow  *)
(* one path from select to its result; CountInv counts the results; ListInv *)
(* says where each listed entry is while nothing has gone wrong with the    *)
(* listing; DoneInv what a report rests on; BudgetInv and IsolationInv how  *)
(* far the tracker file is behind what the run knows.                       *)
(***************************************************************************)
EXTENDS ReportDownload, FiniteSetTheorems, SequenceTheorems, TLAPS

Entries == {Listing[i] : i \in 1..Len(Listing)}

HintTypes ==
  /\ exc \in [Paths -> Hints] /\ diskExc \in [Paths -> Hints] /\ active \in [Paths -> Hints]
  /\ pages \subseteq 1..(Len(Listing) + 1) /\ diskPages \subseteq 1..(Len(Listing) + 1)
  /\ chosen \in [Paths -> Statuses]

ListTypes ==
  /\ page \in 0..(Len(Listing) + 1) /\ misses \in 0..2 /\ producerDone \in BOOLEAN
  /\ misses = 2 => page = 0
  /\ item \in Entries \cup {NoItem, ErrItem}
  /\ queue \in Seq(Entries \cup {ErrItem}) /\ Len(queue) <= QueueCap

MainTypes ==
  /\ good \subseteq Paths /\ run \in 1..MaxRuns /\ retryFailed \in BOOLEAN
  /\ pc \in Trying \cup {"cancel", "shutdown", "join", "report"} \cup Ended
  /\ futures \subseteq Paths /\ Cardinality(futures) <= FutureCap /\ stop \in BOOLEAN
  /\ path \in Paths \cup {"none"} /\ listingComplete \in BOOLEAN /\ globalError \in BOOLEAN
  /\ seen \subseteq Paths
  /\ verdict \in [Paths -> Verdicts \cup {"none"}]
  /\ status \in {"none", "CANCELLED", "COMPLETE", "PARTIAL"}
  /\ job \in [Paths -> Busy \cup {"none", "queued", "returned", "raised", "cancelled"}]

\* A path has a result or is active from select on, and a task only while it is active.
PathInv(p) ==
  /\ p \notin seen => /\ active[p] = NoHint /\ verdict[p] = "none"
                      /\ job[p] = "none" /\ p \notin futures
  /\ p \in seen => (active[p] = NoHint <=> verdict[p] # "none")
  /\ job[p] \in Busy \cup {"queued"} => active[p] # NoHint
  /\ job[p] \in {"none", "queued"} /\ active[p] # NoHint => chosen[p] = active[p].status
  /\ job[p] = "check" => chosen[p] \in Isolating
JobInv == \A p \in Paths : PathInv(p)

\* What each phase of the calling thread has behind it.
PhaseInv ==
  /\ pc = "submit" => /\ path \in seen /\ active[path] # NoHint /\ job[path] = "none"
                      /\ path \notin futures /\ Cardinality(futures) < FutureCap
  /\ pc \in {"shutdown", "join", "report", "reported"} => \A p \in Paths : job[p] # "queued"
  /\ pc \in {"join", "report", "reported"} => \A p \in Paths : job[p] \notin Busy
  /\ pc \in Ended => \A p \in Paths : active[p] = NoHint

Resulted == {p \in Paths : verdict[p] # "none"}
CountInv == total = Cardinality(Resulted)

\* As long as the listing has met no error and the run no interrupt, every entry read so far
\* is none to download, or on its way to the calling thread, or was seen by it.
Whole        == listingComplete /\ status # "CANCELLED"
InPipe(e)    == item = e \/ \E k \in 1..Len(queue) : queue[k] = e
Listed(i)    == page = 0 \/ i < page
Accounted(i) == Listing[i].kind = "skip" \/ Listing[i].path \in seen \/ InPipe(Listing[i])
ListInv ==
  Whole =>
    /\ pc \in Trying => ~stop
    /\ pc \in {"cancel", "shutdown", "join", "report", "reported"} => producerDone /\ queue = <<>>
    /\ pc = "loop2" => producerDone
    /\ producerDone => item = NoItem /\ page = 0
    /\ ~InPipe(ErrItem) => \A i \in 1..Len(Listing) : Listed(i) => Accounted(i)

DoneInv ==
  /\ \A p \in Paths : verdict[p] = "VERIFIED" \/ job[p] = "publish" => p \in good
  /\ pc = "reported" /\ status = "COMPLETE" =>
       listingComplete /\ \A p \in seen : verdict[p] = "VERIFIED"

IInv == /\ HintTypes /\ ListTypes /\ MainTypes
        /\ JobInv /\ PhaseInv /\ CountInv /\ ListInv /\ DoneInv

-----------------------------------------------------------------------------
(* The tracker file.                                                        *)

\* A path is not listed with good metadata and with bad ones: other metadata are a changed
\* file, whose hint is dropped.
OneKind == \A d, e \in Entries : d.path = e.path /\ d.kind = "file" => e.kind # "invalid"
Invalid(p) == \E e \in Entries : e.path = p /\ e.kind = "invalid"

\* A hint is marked as outdated on disk first; what a run works with is not.
HintInv ==
  \A p \in Paths :
    /\ exc[p].old => diskExc[p].old
    /\ ~active[p].old /\ (active[p] # NoHint => active[p].status # "none")

\* The hints in memory have all retries that the tracker file has, but for those it may
\* forget; and an active path has those of its hint.
BudgetInv ==
  \A p \in Paths :
    /\ exc[p].status = "none" => exc[p].retries = 0
    /\ diskExc[p].status = "none" => diskExc[p].retries = 0
    /\ exc[p].retries >= diskExc[p].retries \/ p \in good \/ retryFailed \/ diskExc[p].old
    /\ active[p] # NoHint => active[p].retries >= exc[p].retries \/ p \in good \/ retryFailed
    /\ Invalid(p) => exc[p].retries = 0 /\ diskExc[p].retries = 0 /\ active[p] = NoHint

\* The same of isolation.
IsolationInv ==
  \A p \in Paths :
    /\ Isolated(diskExc[p]) /\ ~Isolated(exc[p]) =>
         stop \/ p \in good \/ retryFailed \/ diskExc[p].old \/ verdict[p] = "PENDING"
    /\ active[p] # NoHint /\ Isolated(exc[p]) => Isolated(active[p]) \/ stop \/ retryFailed

\* What a step does with the hint of one path.
Stays(p)   == exc'[p] = exc[p] /\ active'[p] = active[p]
Selects(p) == /\ \E e \in Entries : e.path = p /\ e.kind = "file"
              /\ active'[p] = Fresh(exc[p])
              /\ exc'[p] = IF exc[p].old THEN NoHint ELSE exc[p]
Rejects(p) == Invalid(p) /\ active'[p] = NoHint /\ exc'[p] = Kept("FAILED", 0)
Begins(p)  == /\ active[p] # NoHint /\ (Isolated(active[p]) => retryFailed)
              /\ exc'[p] = exc[p] /\ ~active'[p].old /\ active'[p].status = "DOWNLOADING"
              /\ active'[p].retries = IF Isolated(active[p]) THEN 0 ELSE active[p].retries
Retries(p) == /\ active[p] # NoHint /\ exc'[p] = active'[p] /\ ~active'[p].old
              /\ active'[p].status = active[p].status /\ active'[p].retries >= active[p].retries
Finishes(p) == /\ active[p] # NoHint /\ active'[p] = NoHint
               /\ exc'[p] = Kept(verdict'[p], active[p].retries) /\ verdict'[p] \in Verdicts
               /\ verdict'[p] = "VERIFIED" => p \in good
InRun(p) ==
  /\ Stays(p) \/ Selects(p) \/ Rejects(p) \/ Begins(p) \/ Retries(p) \/ Finishes(p)
  /\ good \subseteq good' /\ retryFailed' = retryFailed /\ (stop => stop')
  /\ diskExc'[p] \in {diskExc[p], exc'[p]}
  /\ verdict[p] = "PENDING" => verdict'[p] = "PENDING"
Restarts(p) ==
  /\ active'[p] = NoHint
  /\ exc'[p] = Loaded(diskExc'[p]) \/ exc'[p] = diskExc'[p]
  /\ diskExc'[p].status = diskExc[p].status /\ diskExc'[p].retries = diskExc[p].retries

-----------------------------------------------------------------------------
(* Initial states, and what the operators return.                           *)

LEMMA EntriesTyped == Entries \subseteq [path : Paths, kind : Kinds]
  <1>1. Listing \in Seq([path : Paths, kind : Kinds])
    BY ConstantsOK
  <1>2. \A i \in 1..Len(Listing) : Listing[i] \in [path : Paths, kind : Kinds]
    BY <1>1, ElementOfSeq
  <1> QED BY <1>2 DEF Entries

LEMMA NoHintTyped == NoHint \in Hints
  BY ConstantsOK DEF NoHint, Hints, Statuses

LEMMA FreshTyped ==
  ASSUME NEW h \in Hints
  PROVE  /\ Fresh(h) \in Hints /\ Fresh(h).status # "none" /\ Fresh(h) # NoHint
         /\ Fresh(h).status \in Statuses
  BY ConstantsOK DEF Fresh, Hints, Statuses, Verdicts, Isolating, NoHint

LEMMA KeptTyped ==
  ASSUME NEW s \in Verdicts, NEW r \in 0..MaxRetries
  PROVE  Kept(s, r) \in Hints
  BY NoHintTyped DEF Kept, Hints, Statuses

\* What memory and the tracker file hold after a save.
LEMMA SaveTyped ==
  ASSUME HintTypes, NEW e \in [Paths -> Hints], NEW q \in SUBSET (1..(Len(Listing) + 1)), Save(e, q)
  PROVE  /\ exc' \in [Paths -> Hints] /\ diskExc' \in [Paths -> Hints]
         /\ pages' \subseteq 1..(Len(Listing) + 1) /\ diskPages' \subseteq 1..(Len(Listing) + 1)
  BY DEF Save, HintTypes, durable

LEMMA SelectTyped ==
  ASSUME HintTypes, NEW p \in Paths, Select(p)
  PROVE  HintTypes'
  <1>1. exc[p] \in Hints /\ exc \in [Paths -> Hints]
    BY DEF HintTypes
  <1>2. active' \in [Paths -> Hints] /\ chosen' \in [Paths -> Statuses]
    BY <1>1, FreshTyped DEF Select, HintTypes
  <1>3. [exc EXCEPT ![p] = NoHint] \in [Paths -> Hints] /\ pages \in SUBSET (1..(Len(Listing) + 1))
    BY <1>1, NoHintTyped DEF HintTypes
  <1>4. CASE exc[p].old
    BY <1>2, <1>3, <1>4, SaveTyped DEF Select, HintTypes
  <1>5. CASE ~exc[p].old
    BY <1>2, <1>5 DEF Select, HintTypes, hints, durable
  <1> QED BY <1>4, <1>5

LEMMA FinishTyped ==
  ASSUME HintTypes, NEW p \in Paths, NEW s \in Verdicts, Finish(p, s), UNCHANGED chosen
  PROVE  HintTypes'
  <1>1. active[p].retries \in 0..MaxRetries /\ active \in [Paths -> Hints]
    BY DEF HintTypes, Hints
  <1>2. [exc EXCEPT ![p] = Kept(s, active[p].retries)] \in [Paths -> Hints]
    BY <1>1, KeptTyped DEF HintTypes
  <1>3. pages \in SUBSET (1..(Len(Listing) + 1))
    BY DEF HintTypes
  <1>4. active' \in [Paths -> Hints]
    BY <1>1, NoHintTyped DEF Finish
  <1> QED BY <1>2, <1>3, <1>4, SaveTyped DEF Finish, HintTypes

LEMMA InitHolds == Init => IInv /\ HintInv /\ BudgetInv /\ IsolationInv
  <1> SUFFICES ASSUME Init PROVE IInv /\ HintInv /\ BudgetInv /\ IsolationInv
    OBVIOUS
  <1> USE DEF Init, Forgotten
  <1>1. HintTypes
    BY NoHintTyped DEF HintTypes, Statuses
  <1>2. ListTypes
    <2>1. Len(Listing) \in Nat
      BY ConstantsOK
    <2>2. queue = <<>> /\ page = 1 /\ misses = 0 /\ item = NoItem /\ producerDone = FALSE
      OBVIOUS
    <2>3. queue \in Seq(Entries \cup {ErrItem}) /\ Len(queue) = 0
      BY <2>2, EmptySeq
    <2>4. Len(queue) <= QueueCap
      BY <2>3, ConstantsOK
    <2>5. page \in 0..(Len(Listing) + 1) /\ misses \in 0..2 /\ (misses = 2 => page = 0)
      BY <2>1, <2>2
    <2>6. item \in Entries \cup {NoItem, ErrItem} /\ producerDone \in BOOLEAN
      BY <2>2
    <2> QED BY <2>3, <2>4, <2>5, <2>6 DEF ListTypes
  <1>3. MainTypes
    <2>1. 1 \in 1..MaxRuns /\ 0 <= FutureCap
      BY ConstantsOK
    <2>2. Cardinality(futures) <= FutureCap
      BY <2>1, FS_EmptySet
    <2>3. verdict \in [Paths -> Verdicts \cup {"none"}]
      OBVIOUS
    <2>4. job \in [Paths -> Busy \cup {"none", "queued", "returned", "raised", "cancelled"}]
      OBVIOUS
    <2> QED BY <2>1, <2>2, <2>3, <2>4 DEF MainTypes, Trying
  <1>4. JobInv /\ PhaseInv
    BY DEF JobInv, PathInv, PhaseInv, Busy, Ended
  <1>5. CountInv
    BY FS_EmptySet DEF CountInv, Resulted
  <1>6. ListInv /\ DoneInv
    BY ConstantsOK DEF ListInv, Whole, Listed, DoneInv, Busy, Trying
  <1>7. HintInv /\ BudgetInv /\ IsolationInv
    BY DEF HintInv, BudgetInv, IsolationInv, NoHint, Isolated, Isolating
  <1> QED BY <1>1, <1>2, <1>3, <1>4, <1>5, <1>6, <1>7 DEF IInv

-----------------------------------------------------------------------------
(* What the steps have in common.                                           *)

LEMMA HeadTyped ==
  ASSUME ListTypes, queue # <<>>
  PROVE  /\ Head(queue) \in Entries \cup {ErrItem} /\ Tail(queue) \in Seq(Entries \cup {ErrItem})
         /\ Len(Tail(queue)) = Len(queue) - 1
         /\ Head(queue) = queue[1]
         /\ \A k \in 1..Len(Tail(queue)) : Tail(queue)[k] = queue[k + 1]
  BY HeadTailProperties DEF ListTypes

\* Only an entry of the listing can be new, and its path is a path.
LEMMA NewEntry ==
  ASSUME ListTypes, queue # <<>>, Head(queue).kind \in {"file", "invalid"}
  PROVE  Head(queue) \in Entries /\ Head(queue).path \in Paths
  <1>1. Head(queue) # ErrItem
    BY DEF ErrItem
  <1> QED BY <1>1, HeadTyped, EntriesTyped

\* The steps that end a task give it a result that fits the file.
Ending(p) == \/ Validate(p) \/ Verified(p) \/ TransferFails(p) \/ TransferFatal(p)
             \/ DeadlineStops(p) \/ Cancelled(p)

LEMMA EndingEnds ==
  ASSUME JobInv, DoneInv, NEW p \in Paths, Ending(p)
  PROVE  /\ job[p] \in Busy /\ Alive(p)
         /\ \E s \in Verdicts, how \in {"returned", "raised"} :
              End(p, s, how) /\ (s = "VERIFIED" => p \in good)
  <1> USE DEF Verdicts, Isolating, Busy
  <1>1. job[p] = "check" => chosen[p] \in Isolating
    BY DEF JobInv, PathInv
  <1>2. job[p] = "publish" => p \in good
    BY DEF DoneInv
  <1>3. CASE Validate(p)
    BY <1>1, <1>3 DEF Validate
  <1>4. CASE Verified(p)
    BY <1>2, <1>4 DEF Verified
  <1>5. CASE TransferFails(p)
    BY <1>5 DEF TransferFails
  <1>6. CASE TransferFatal(p)
    BY <1>6 DEF TransferFatal
  <1>7. CASE DeadlineStops(p)
    BY <1>7 DEF DeadlineStops
  <1>8. CASE Cancelled(p)
    BY <1>1, <1>8 DEF Cancelled
  <1> QED BY <1>3, <1>4, <1>5, <1>6, <1>7, <1>8 DEF Ending

\* The steps of the calling thread that only move on.
Moving == Loop1 \/ Loop2 \/ Filled \/ Waited \/ JoinProducer

\* The steps of the producer leave the rest alone but for the pages it isolates.
LEMMA ProducerLeaves ==
  ASSUME Producer
  PROVE  /\ UNCHANGED <<good, run, retryFailed, pc, futures, stop, path, listingComplete,
                        seen, chosen, active, verdict, total, status, job>>
         /\ pc \notin Ended
  BY DEF Producer, ResetPages, Reading, ListPage, PageFails, ListingFails, Put, ProducerEnds,
         ProducerOnly, results

\* The steps, one by one.
LEMMA Steps ==
  ASSUME [Next]_vars
  PROVE  \/ UNCHANGED vars
         \/ Moving \/ Take \/ Submit \/ Shutdown \/ PoolEnds \/ Report \/ Interrupt
         \/ \E p \in Paths : Reap(p) \/ CancelQueued(p)
         \/ Producer
         \/ \E p \in Paths : Start(p) \/ Retry(p) \/ RetryRefused(p) \/ Publish(p) \/ Ending(p)
         \/ Crash \/ NewRun
  BY DEF Next, Main, Moving, Worker, Ending, Rest

-----------------------------------------------------------------------------
(* Types.                                                                   *)

LEMMA HintTypesStep ==
  ASSUME IInv, [Next]_vars
  PROVE  HintTypes'
  <1> USE DEF IInv
  <1>still. ASSUME UNCHANGED <<exc, diskExc, active, pages, diskPages, chosen>> PROVE HintTypes'
    BY <1>still DEF HintTypes
  <1>1. CASE UNCHANGED vars
    BY <1>1, <1>still DEF vars, hints, results
  <1>2. CASE Moving
    BY <1>2, <1>still DEF Moving, Loop1, Loop2, Filled, Waited, JoinProducer, hints, results
  <1>3. CASE Take
    <2> DEFINE entry == Head(queue)
    <2>1. CASE UNCHANGED <<hints, pc, path, seen, chosen, results>>
      BY <2>1, <1>still DEF hints, results
    <2>2. CASE entry.kind = "file" /\ Select(entry.path)
      BY <1>3, <2>2, NewEntry, SelectTyped DEF Take
    <2>3. CASE /\ entry.kind = "invalid"
               /\ chosen' = [chosen EXCEPT ![entry.path] = "PENDING"]
               /\ Save([exc EXCEPT ![entry.path] = Kept("FAILED", 0)], pages)
               /\ UNCHANGED active
      <3>1. Kept("FAILED", 0) \in Hints
        BY KeptTyped, ConstantsOK DEF Verdicts, Isolating
      <3>2. [exc EXCEPT ![entry.path] = Kept("FAILED", 0)] \in [Paths -> Hints]
        BY <3>1 DEF HintTypes
      <3>3. pages \in SUBSET (1..(Len(Listing) + 1))
        BY DEF HintTypes
      <3>4. chosen' \in [Paths -> Statuses]
        BY <2>3 DEF HintTypes, Statuses, Verdicts
      <3> QED BY <2>3, <3>2, <3>3, <3>4, SaveTyped DEF HintTypes
    <2> QED BY <1>3, <2>1, <2>2, <2>3 DEF Take
  <1>4. CASE Submit \/ Shutdown \/ PoolEnds \/ Interrupt
    BY <1>4, <1>still DEF Submit, Shutdown, PoolEnds, Interrupt, hints, results
  <1>5. CASE Report
    <2> DEFINE rest == {p \in Paths : active[p] # NoHint}
               e    == [p \in Paths |-> IF p \in rest THEN Kept("PENDING", active[p].retries) ELSE exc[p]]
    <2>1. \A p \in Paths : active[p].retries \in 0..MaxRetries
      BY DEF HintTypes, Hints
    <2>2. "PENDING" \in Verdicts
      BY DEF Verdicts
    <2>3. \A p \in Paths : e[p] \in Hints
      <3> TAKE p \in Paths
      <3>1. Kept("PENDING", active[p].retries) \in Hints
        BY <2>1, <2>2, KeptTyped
      <3>2. exc[p] \in Hints
        BY DEF HintTypes
      <3> QED BY <3>1, <3>2
    <2>4. e \in [Paths -> Hints] /\ pages \in SUBSET (1..(Len(Listing) + 1))
      BY <2>3 DEF HintTypes
    <2>5. active' \in [Paths -> Hints]
      BY <1>5, NoHintTyped DEF Report
    <2>6. Save(e, pages) /\ UNCHANGED chosen
      BY <1>5 DEF Report
    <2> HIDE DEF e
    <2> QED BY <2>4, <2>5, <2>6, SaveTyped DEF HintTypes
  <1>6. ASSUME NEW p \in Paths, Reap(p) PROVE HintTypes'
    BY <1>6, <1>still DEF Reap, hints, results
  <1>7. ASSUME NEW p \in Paths, CancelQueued(p) PROVE HintTypes'
    <2>1. CASE UNCHANGED <<hints, results, job>>
      BY <1>7, <2>1, <1>still DEF CancelQueued, hints, results
    <2>2. CASE Finish(p, "PENDING")
      BY <1>7, <2>2, FinishTyped DEF CancelQueued, Verdicts
    <2> QED BY <1>7, <2>1, <2>2 DEF CancelQueued
  <1>8. CASE Producer
    <2>1. CASE ListPage \/ ListingFails \/ Put \/ ProducerEnds
      BY <2>1, <1>still DEF ListPage, ListingFails, Put, ProducerEnds, ProducerOnly, hints, results
    <2>2. UNCHANGED <<active, chosen>>
      BY <1>8, ProducerLeaves
    <2>3. CASE ResetPages \/ PageFails
      <3>1. exc \in [Paths -> Hints] /\ {} \in SUBSET (1..(Len(Listing) + 1))
        BY DEF HintTypes
      <3>2. PageFails => pages \cup {page} \in SUBSET (1..(Len(Listing) + 1))
        BY ConstantsOK DEF PageFails, Reading, HintTypes, ListTypes
      <3>3. PICK q \in SUBSET (1..(Len(Listing) + 1)) : Save(exc, q)
        BY <2>3, <3>1, <3>2 DEF ResetPages, PageFails
      <3>4. active' \in [Paths -> Hints] /\ chosen' \in [Paths -> Statuses]
        BY <2>2 DEF HintTypes
      <3> QED BY <3>1, <3>3, <3>4, SaveTyped DEF HintTypes
    <2> QED BY <1>8, <2>1, <2>3 DEF Producer
  <1>9. ASSUME NEW p \in Paths, Start(p) PROVE HintTypes'
    <2>1. active[p] \in Hints /\ 0 \in 0..MaxRetries
      BY ConstantsOK DEF HintTypes
    <2>2. [active[p] EXCEPT !.status = "DOWNLOADING",
                            !.retries = IF Isolated(active[p]) THEN 0 ELSE active[p].retries] \in Hints
      BY <2>1 DEF Hints, Statuses
    <2>3. active' \in [Paths -> Hints]
      BY <1>9, <2>2 DEF Start, HintTypes
    <2> QED BY <1>9, <2>3 DEF Start, HintTypes, hints, durable, WorkerOnly
  <1>10. ASSUME NEW p \in Paths, Retry(p) PROVE HintTypes'
    <2>1. active[p] \in Hints /\ active[p].retries < MaxRetries /\ MaxRetries \in Nat
      BY <1>10, ConstantsOK DEF HintTypes, Retry
    <2>2. [active[p] EXCEPT !.retries = @ + 1] \in Hints
      BY <2>1 DEF Hints
    <2>3. active' \in [Paths -> Hints]
      BY <1>10, <2>2 DEF Retry, HintTypes
    <2>4. [exc EXCEPT ![p] = active'[p]] \in [Paths -> Hints] /\ pages \in SUBSET (1..(Len(Listing) + 1))
      BY <2>3 DEF HintTypes
    <2> QED BY <1>10, <2>3, <2>4, SaveTyped DEF Retry, HintTypes, WorkerOnly
  <1>11. ASSUME NEW p \in Paths, RetryRefused(p) PROVE HintTypes'
    <2>1. [exc EXCEPT ![p] = active[p]] \in [Paths -> Hints] /\ pages \in SUBSET (1..(Len(Listing) + 1))
      BY DEF HintTypes
    <2> QED BY <1>11, <2>1, SaveTyped DEF RetryRefused, HintTypes, WorkerOnly, results
  <1>12. ASSUME NEW p \in Paths, Publish(p) PROVE HintTypes'
    BY <1>12, <1>still DEF Publish, hints, results, WorkerOnly
  <1>13. ASSUME NEW p \in Paths, Ending(p) PROVE HintTypes'
    <2>1. PICK s \in Verdicts, how \in {"returned", "raised"} : End(p, s, how)
      BY <1>13, EndingEnds
    <2> QED BY <2>1, FinishTyped DEF End, WorkerOnly
  <1>14. CASE Crash
    <2>1. exc' = diskExc /\ diskExc' = diskExc /\ pages' = diskPages /\ diskPages' = diskPages
      BY <1>14 DEF Crash, durable
    <2>2. active' = [p \in Paths |-> NoHint] /\ chosen' = [p \in Paths |-> "none"]
      BY <1>14 DEF Crash, Forget
    <2> QED BY <2>1, <2>2, NoHintTyped DEF HintTypes, Statuses
  <1>15. CASE NewRun
    <2>1. PICK changed \in SUBSET Paths :
            diskExc' = [p \in Paths |-> IF p \in changed /\ diskExc[p] # NoHint
                                       THEN [diskExc[p] EXCEPT !.old = TRUE] ELSE diskExc[p]]
      BY <1>15 DEF NewRun
    <2>2. diskExc' \in [Paths -> Hints]
      BY <2>1 DEF HintTypes, Hints
    <2>3. \A h \in Hints : Loaded(h) \in Hints
      BY DEF Loaded, Hints, Statuses, Verdicts, Isolating
    <2>4. exc' \in [Paths -> Hints]
      BY <1>15, <2>2, <2>3 DEF NewRun
    <2>5. active' = [p \in Paths |-> NoHint] /\ chosen' = [p \in Paths |-> "none"]
      BY <1>15 DEF NewRun, Forget
    <2> QED BY <1>15, <2>2, <2>4, <2>5, NoHintTyped DEF NewRun, HintTypes, Statuses
  <1> QED BY <1>1, <1>2, <1>3, <1>4, <1>5, <1>6, <1>7, <1>8, <1>9, <1>10, <1>11, <1>12, <1>13,
             <1>14, <1>15, Steps

LEMMA ListTypesStep ==
  ASSUME IInv, [Next]_vars
  PROVE  ListTypes'
  <1> USE DEF IInv
  <1>len. Len(Listing) \in Nat /\ QueueCap \in Nat /\ QueueCap >= 1
    BY ConstantsOK
  <1>still. ASSUME UNCHANGED <<page, misses, producerDone, item, queue>> PROVE ListTypes'
    BY <1>still DEF ListTypes
  <1>1. CASE UNCHANGED vars
    BY <1>1, <1>still DEF vars, producer
  <1>2. CASE Moving
    BY <1>2, <1>still DEF Moving, Loop1, Loop2, Filled, Waited, JoinProducer, MainOnly, producer
  <1>3. CASE Take
    <2>1. /\ queue' \in Seq(Entries \cup {ErrItem}) /\ Len(queue') = Len(queue) - 1
          /\ Len(queue) \in Nat
      BY <1>3, HeadTyped DEF Take, ListTypes
    <2>2. Len(queue') <= QueueCap
      BY <1>len, <2>1 DEF ListTypes
    <2> QED BY <1>3, <2>1, <2>2 DEF Take, MainOnly, producer, ListTypes
  <1>4. CASE Submit \/ Shutdown \/ PoolEnds \/ Interrupt \/ Report
    BY <1>4, <1>still DEF Submit, Shutdown, PoolEnds, Interrupt, Report, MainOnly, producer
  <1>5. ASSUME NEW p \in Paths, Reap(p) \/ CancelQueued(p) PROVE ListTypes'
    BY <1>5, <1>still DEF Reap, CancelQueued, MainOnly, producer
  <1>6. ASSUME NEW p \in Paths, Start(p) \/ Retry(p) \/ RetryRefused(p) \/ Publish(p)
        PROVE  ListTypes'
    BY <1>6, <1>still DEF Start, Retry, RetryRefused, Publish, WorkerOnly, producer
  <1>7. ASSUME NEW p \in Paths, Ending(p) PROVE ListTypes'
    <2>1. PICK s \in Verdicts, how \in {"returned", "raised"} : End(p, s, how)
      BY <1>7, EndingEnds
    <2> QED BY <2>1, <1>still DEF End, WorkerOnly, producer
  <1>8. CASE Producer
    <2>1. CASE ResetPages
      BY <2>1, <1>still DEF ResetPages, producer
    <2>2. CASE ListPage
      <3>1. page <= Len(Listing) => Listing[page] \in Entries
        BY <2>2, <1>len DEF ListPage, Reading, ListTypes, Entries
      <3>2. item' \in Entries \cup {NoItem, ErrItem}
        BY <2>2, <3>1 DEF ListPage, ListTypes
      <3>3. page' \in 0..(Len(Listing) + 1) /\ misses' = 0
        BY <2>2, <1>len DEF ListPage, ListTypes
      <3> QED BY <2>2, <3>2, <3>3 DEF ListPage, ListTypes
    <2>3. CASE PageFails
      <3>1. misses \in 0..1
        BY <2>3 DEF PageFails, Reading, ListTypes
      <3>2. /\ page' \in 0..(Len(Listing) + 1) /\ misses' \in 0..2
            /\ misses' = 2 => page' = 0
        BY <2>3, <3>1, <1>len DEF PageFails, Reading, ListTypes
      <3> QED BY <2>3, <3>2 DEF PageFails, ListTypes
    <2>4. CASE ListingFails
      <3>1. page' = 0 /\ 0 \in 0..(Len(Listing) + 1)
        BY <2>4, <1>len DEF ListingFails
      <3> QED BY <2>4, <3>1 DEF ListingFails, ListTypes
    <2>5. CASE Put
      <3>1. CASE UNCHANGED queue
        BY <2>5, <3>1 DEF Put, ListTypes
      <3>2. CASE Len(queue) < QueueCap /\ queue' = Append(queue, item)
        <4>1. item \in Entries \cup {ErrItem}
          BY <2>5 DEF Put, ListTypes
        <4>2. queue' \in Seq(Entries \cup {ErrItem}) /\ Len(queue') = Len(queue) + 1
          BY <3>2, <4>1, AppendProperties DEF ListTypes
        <4>3. Len(queue) \in Nat
          BY LenProperties DEF ListTypes
        <4>4. Len(queue') <= QueueCap
          BY <1>len, <3>2, <4>2, <4>3
        <4> QED BY <2>5, <4>2, <4>4 DEF Put, ListTypes
      <3> QED BY <2>5, <3>1, <3>2 DEF Put
    <2>6. CASE ProducerEnds
      BY <2>6 DEF ProducerEnds, ListTypes
    <2> QED BY <1>8, <2>1, <2>2, <2>3, <2>4, <2>5, <2>6 DEF Producer
  <1>9. CASE Crash \/ NewRun
    <2>1. /\ page' = 1 /\ misses' = 0 /\ item' = NoItem /\ producerDone' = FALSE
          /\ queue' = <<>>
      BY <1>9 DEF Crash, NewRun, Forget
    <2>2. queue' \in Seq(Entries \cup {ErrItem}) /\ Len(queue') <= QueueCap
      BY <2>1, <1>len, EmptySeq
    <2>3. page' \in 0..(Len(Listing) + 1) /\ misses' \in 0..2 /\ (misses' = 2 => page' = 0)
      BY <2>1, <1>len
    <2>4. item' \in Entries \cup {NoItem, ErrItem} /\ producerDone' \in BOOLEAN
      BY <2>1
    <2> QED BY <2>2, <2>3, <2>4 DEF ListTypes
  <1> QED BY <1>1, <1>2, <1>3, <1>4, <1>5, <1>6, <1>7, <1>8, <1>9, Steps

LEMMA MainTypesStep ==
  ASSUME IInv, [Next]_vars
  PROVE  MainTypes'
  <1> USE DEF IInv
  <1>still. ASSUME UNCHANGED <<good, run, retryFailed, pc, futures, stop, path, listingComplete,
                               globalError, seen, verdict, status, job>>
            PROVE  MainTypes'
    BY <1>still DEF MainTypes
  <1>fin. ASSUME NEW p \in Paths, NEW s \in Verdicts, Finish(p, s)
          PROVE  verdict' \in [Paths -> Verdicts \cup {"none"}]
    BY <1>fin DEF Finish, MainTypes
  <1>caps. FutureCap \in Nat /\ FutureCap >= 1 /\ MaxRuns \in Nat /\ IsFiniteSet(Paths)
    BY ConstantsOK
  <1>futs. IsFiniteSet(futures) /\ Cardinality(futures) \in Nat
    BY <1>caps, FS_Subset, FS_CardinalityType DEF MainTypes
  <1>less. ASSUME NEW p \in Paths, futures' = futures \ {p}
           PROVE  futures' \subseteq Paths /\ Cardinality(futures') <= FutureCap
    <2>1. Cardinality(futures') <= Cardinality(futures)
      BY <1>less, <1>futs, FS_Subset
    <2>2. Cardinality(futures') \in Nat
      BY <1>less, <1>futs, FS_Subset, FS_CardinalityType
    <2> QED BY <1>less, <1>futs, <1>caps, <2>1, <2>2 DEF MainTypes
  <1>1. CASE UNCHANGED vars
    BY <1>1, <1>still DEF vars, flags, results
  <1>2. CASE Moving
    BY <1>2 DEF Moving, Loop1, Loop2, Filled, Waited, JoinProducer, MainOnly, flags, results,
                MainTypes, Trying
  <1>3. CASE Take
    <2> DEFINE entry == Head(queue)
    <2>1. /\ UNCHANGED <<good, run, retryFailed, futures, stop, globalError, status, job>>
          /\ listingComplete' \in BOOLEAN
      BY <1>3 DEF Take, MainOnly, MainTypes
    <2>2. CASE UNCHANGED <<hints, pc, path, seen, chosen, results>>
      BY <2>1, <2>2 DEF results, MainTypes
    <2>3. CASE /\ entry.kind = "file" /\ Select(entry.path)
               /\ pc' = "submit" /\ path' = entry.path /\ UNCHANGED <<verdict, total>>
      BY <1>3, <2>1, <2>3, NewEntry DEF Take, Select, MainTypes, Trying
    <2>4. CASE /\ entry.kind = "invalid" /\ seen' = seen \cup {entry.path}
               /\ verdict' = [verdict EXCEPT ![entry.path] = "FAILED"]
               /\ UNCHANGED <<pc, path, active>>
      BY <1>3, <2>1, <2>4, NewEntry DEF Take, MainTypes, Verdicts, Isolating
    <2> QED BY <1>3, <2>2, <2>3, <2>4 DEF Take
  <1>4. CASE Submit
    <2>1. /\ path \in Paths /\ path \notin futures /\ Cardinality(futures) < FutureCap
      BY <1>4 DEF Submit, PhaseInv, MainTypes
    <2>2. Cardinality(futures') = Cardinality(futures) + 1
      BY <1>4, <2>1, <1>futs, FS_AddElement DEF Submit
    <2>3. futures' \subseteq Paths /\ Cardinality(futures') <= FutureCap
      BY <1>4, <2>1, <2>2, <1>futs, <1>caps DEF Submit, MainTypes
    <2> QED BY <1>4, <2>1, <2>3 DEF Submit, MainOnly, flags, results, MainTypes, Trying
  <1>5. CASE Shutdown \/ PoolEnds
    BY <1>5 DEF Shutdown, PoolEnds, MainOnly, flags, results, MainTypes
  <1>6. CASE Interrupt
    <2>1. job' \in [Paths -> Busy \cup {"none", "queued", "returned", "raised", "cancelled"}]
      BY <1>6 DEF Interrupt, PhaseInv, MainTypes
    <2> QED BY <1>6, <2>1 DEF Interrupt, flags, results, MainTypes
  <1>7. CASE Report
    <2>1. status' \in {"CANCELLED", "COMPLETE", "PARTIAL"}
      BY <1>7 DEF Report, Outcome
    <2>2. verdict' \in [Paths -> Verdicts \cup {"none"}]
      BY <1>7 DEF Report, MainTypes, Verdicts
    <2>3. pc' = "reported"
      BY <1>7 DEF Report
    <2> QED BY <1>7, <2>1, <2>2, <2>3 DEF Report, MainTypes, flags, Ended
  <1>8. ASSUME NEW p \in Paths, Reap(p) PROVE MainTypes'
    <2>1. /\ pc' \in Trying \cup {"cancel"} /\ stop' \in BOOLEAN
          /\ listingComplete' \in BOOLEAN /\ globalError' \in BOOLEAN
      BY <1>8 DEF Reap, MainTypes, flags, Trying
    <2> QED BY <1>8, <2>1, <1>less DEF Reap, MainOnly, results, MainTypes
  <1>9. ASSUME NEW p \in Paths, CancelQueued(p) PROVE MainTypes'
    <2>1. verdict' \in [Paths -> Verdicts \cup {"none"}]
      BY <1>9, <1>fin DEF CancelQueued, Verdicts, results, MainTypes
    <2>2. job' \in [Paths -> Busy \cup {"none", "queued", "returned", "raised", "cancelled"}]
      BY <1>9 DEF CancelQueued, MainTypes
    <2> QED BY <1>9, <2>1, <2>2, <1>less DEF CancelQueued, MainOnly, flags, MainTypes
  <1>10. CASE Producer
    <2>1. globalError' \in BOOLEAN
      BY <1>10 DEF Producer, ResetPages, ListPage, PageFails, ListingFails, Put, ProducerEnds, MainTypes
    <2> QED BY <1>10, <2>1, ProducerLeaves DEF MainTypes
  <1>11. ASSUME NEW p \in Paths, Start(p) \/ Retry(p) \/ RetryRefused(p) \/ Publish(p)
         PROVE  MainTypes'
    <2>1. /\ UNCHANGED <<run, retryFailed, pc, futures, stop, path, listingComplete, globalError,
                         seen, verdict, status>>
      BY <1>11 DEF Start, Retry, RetryRefused, Publish, WorkerOnly, flags, results
    <2>2. good' \subseteq Paths
      BY <1>11 DEF Start, Retry, RetryRefused, Publish, MainTypes
    <2>3. job' \in [Paths -> Busy \cup {"none", "queued", "returned", "raised", "cancelled"}]
      BY <1>11 DEF Start, Retry, RetryRefused, Publish, MainTypes, Busy
    <2> QED BY <2>1, <2>2, <2>3 DEF MainTypes
  <1>12. ASSUME NEW p \in Paths, Ending(p) PROVE MainTypes'
    <2>1. PICK s \in Verdicts, how \in {"returned", "raised"} : End(p, s, how)
      BY <1>12, EndingEnds
    <2>2. verdict' \in [Paths -> Verdicts \cup {"none"}]
      BY <2>1, <1>fin DEF End
    <2>3. job' \in [Paths -> Busy \cup {"none", "queued", "returned", "raised", "cancelled"}]
      BY <2>1 DEF End, MainTypes
    <2> QED BY <2>1, <2>2, <2>3 DEF End, WorkerOnly, flags, MainTypes
  <1>13. CASE Crash \/ NewRun
    <2>1. run' \in 1..MaxRuns /\ good' \subseteq Paths /\ retryFailed' \in BOOLEAN
      BY <1>13, <1>caps DEF Crash, NewRun, MainTypes
    <2>2. pc' \in {"crashed", "loop1"}
      BY <1>13 DEF Crash, NewRun
    <2>3. /\ futures' = {} /\ stop' = FALSE /\ path' = "none" /\ listingComplete' = TRUE
          /\ globalError' = FALSE /\ seen' = {} /\ verdict' = [p \in Paths |-> "none"]
          /\ status' = "none" /\ job' = [p \in Paths |-> "none"]
      BY <1>13 DEF Crash, NewRun, Forget
    <2>4. Cardinality(futures') <= FutureCap
      BY <2>3, <1>caps, FS_EmptySet
    <2> QED BY <2>1, <2>2, <2>3, <2>4 DEF MainTypes, Trying, Ended
  <1> QED BY <1>1, <1>2, <1>3, <1>4, <1>5, <1>6, <1>7, <1>8, <1>9, <1>10, <1>11, <1>12, <1>13, Steps

-----------------------------------------------------------------------------
(* From select to a result.                                                 *)

\* A path whose own state is the same keeps its part of JobInv.
LEMMA PathKept ==
  ASSUME JobInv, NEW q \in Paths, q \in seen' <=> q \in seen, q \in futures' => q \in futures,
         active'[q] = active[q], verdict'[q] = verdict[q], job'[q] = job[q], chosen'[q] = chosen[q]
  PROVE  PathInv(q)'
  BY DEF JobInv, PathInv

\* A task that ends leaves a result.
LEMMA FinishPath ==
  ASSUME IInv, NEW p \in Paths, NEW s \in Verdicts, Finish(p, s), active[p] # NoHint,
         NEW how \in {"returned", "raised", "cancelled"}, job' = [job EXCEPT ![p] = how],
         UNCHANGED <<seen, chosen>>, futures' \subseteq futures
  PROVE  JobInv'
  <1> USE DEF IInv
  <1>1. p \in seen /\ verdict[p] = "none"
    BY DEF JobInv, PathInv
  <1>2. active'[p] = NoHint /\ verdict'[p] = s /\ job'[p] = how /\ s # "none"
    BY DEF Finish, HintTypes, MainTypes, Verdicts, Isolating
  <1>3. PathInv(p)'
    BY <1>1, <1>2 DEF PathInv, Busy
  <1>4. ASSUME NEW q \in Paths, q # p PROVE PathInv(q)'
    <2>1. active'[q] = active[q] /\ verdict'[q] = verdict[q] /\ job'[q] = job[q]
      BY <1>4 DEF Finish, HintTypes, MainTypes
    <2> QED BY <2>1, PathKept
  <1> QED BY <1>3, <1>4 DEF JobInv

LEMMA JobStep ==
  ASSUME IInv, [Next]_vars
  PROVE  JobInv'
  <1> USE DEF IInv
  <1>still. ASSUME UNCHANGED <<seen, active, verdict, job, chosen>>, futures' \subseteq futures
            PROVE  JobInv'
    BY <1>still, PathKept DEF JobInv
  <1>1. CASE UNCHANGED vars
    BY <1>1, <1>still DEF vars, results
  <1>2. CASE Moving
    BY <1>2, <1>still DEF Moving, Loop1, Loop2, Filled, Waited, JoinProducer, results
  <1>3. CASE Take
    <2> DEFINE entry == Head(queue)
    <2>1. CASE UNCHANGED <<hints, pc, path, seen, chosen, results>>
      BY <1>3, <2>1, <1>still DEF Take, results
    <2>2. ASSUME NEW p \in Paths, p = entry.path, p \notin seen, entry.kind = "file", Select(p),
                 UNCHANGED <<verdict, total>>
          PROVE  JobInv'
      <3>1. exc[p] \in Hints
        BY DEF HintTypes
      <3>2. active'[p] # NoHint /\ active'[p].status = chosen'[p] /\ p \in seen'
        BY <2>2, <3>1, FreshTyped DEF Select, HintTypes
      <3>3. verdict'[p] = "none" /\ job'[p] = "none"
        BY <1>3, <2>2 DEF Take, JobInv, PathInv
      <3>4. PathInv(p)'
        BY <3>2, <3>3 DEF PathInv, Busy
      <3>5. ASSUME NEW q \in Paths, q # p PROVE PathInv(q)'
        <4>1. active'[q] = active[q] /\ chosen'[q] = chosen[q] /\ seen' = seen \cup {p}
          BY <2>2, <3>5 DEF Select, HintTypes
        <4> QED BY <1>3, <2>2, <3>5, <4>1, PathKept DEF Take
      <3> QED BY <3>4, <3>5 DEF JobInv
    <2>3. ASSUME NEW p \in Paths, p = entry.path, p \notin seen, seen' = seen \cup {p},
                 chosen' = [chosen EXCEPT ![p] = "PENDING"],
                 verdict' = [verdict EXCEPT ![p] = "FAILED"], UNCHANGED active
          PROVE  JobInv'
      <3>1. /\ active'[p] = NoHint /\ job'[p] = "none"
            /\ verdict'[p] = "FAILED" /\ p \in seen'
        BY <1>3, <2>3 DEF Take, JobInv, PathInv, MainTypes
      <3>2. PathInv(p)'
        BY <3>1 DEF PathInv, Busy
      <3>3. ASSUME NEW q \in Paths, q # p PROVE PathInv(q)'
        <4>1. active'[q] = active[q] /\ chosen'[q] = chosen[q] /\ verdict'[q] = verdict[q]
          BY <2>3, <3>3 DEF MainTypes, HintTypes
        <4> QED BY <1>3, <2>3, <3>3, <4>1, PathKept DEF Take
      <3> QED BY <3>2, <3>3 DEF JobInv
    <2>4. entry.kind \in {"file", "invalid"} => entry.path \in Paths
      BY <1>3, NewEntry DEF Take
    <2> QED BY <1>3, <2>1, <2>2, <2>3, <2>4 DEF Take
  <1>4. ASSUME NEW p \in Paths, p = path, pc = "submit", job' = [job EXCEPT ![p] = "queued"],
               futures' \subseteq futures \cup {p}, UNCHANGED <<seen, active, verdict, chosen>>
        PROVE  JobInv'
    <2>1. p \in seen /\ active[p] # NoHint /\ job[p] = "none"
      BY <1>4 DEF PhaseInv
    <2>2. job'[p] = "queued" /\ chosen[p] = active[p].status /\ verdict[p] = "none"
      BY <1>4, <2>1 DEF MainTypes, JobInv, PathInv
    <2>3. PathInv(p)'
      BY <1>4, <2>1, <2>2 DEF PathInv, Busy
    <2>4. ASSUME NEW q \in Paths, q # p PROVE PathInv(q)'
      BY <1>4, <2>4, PathKept DEF MainTypes
    <2> QED BY <2>3, <2>4 DEF JobInv
  <1>path. pc = "submit" => path \in Paths
    BY DEF PhaseInv, MainTypes, JobInv, PathInv
  <1>5. CASE Submit
    BY <1>4, <1>5, <1>path DEF Submit, results
  <1>6. CASE Interrupt
    BY <1>4, <1>6, <1>path, <1>still DEF Interrupt, results
  <1>7. CASE Shutdown
    <2>1. ASSUME NEW q \in Paths PROVE PathInv(q)'
      <3>1. job'[q] = IF job[q] = "queued" THEN "cancelled" ELSE job[q]
        BY <1>7 DEF Shutdown
      <3>2. PathInv(q)
        BY DEF JobInv
      <3>3. CASE job[q] = "queued"
        <4>1. job'[q] = "cancelled" /\ q \in seen
          BY <3>1, <3>2, <3>3 DEF PathInv
        <4> QED BY <1>7, <3>2, <4>1 DEF Shutdown, results, PathInv, Busy
      <3>4. CASE job[q] # "queued"
        BY <1>7, <3>1, <3>4, PathKept DEF Shutdown, results
      <3> QED BY <3>3, <3>4
    <2> QED BY <2>1 DEF JobInv
  <1>8. CASE PoolEnds
    BY <1>8, <1>still DEF PoolEnds, results
  <1>9. CASE Report
    <2>1. ASSUME NEW q \in Paths PROVE PathInv(q)'
      <3>1. PathInv(q) /\ job[q] \notin Busy \cup {"queued"}
        BY <1>9 DEF JobInv, PhaseInv, Report
      <3>2. /\ active'[q] = NoHint /\ job'[q] = job[q]
            /\ verdict'[q] = IF active[q] # NoHint THEN "PENDING" ELSE verdict[q]
        BY <1>9 DEF Report
      <3>3. UNCHANGED <<seen, futures, chosen>>
        BY <1>9 DEF Report
      <3> QED BY <3>1, <3>2, <3>3 DEF PathInv, Busy
    <2> QED BY <2>1 DEF JobInv
  <1>10. ASSUME NEW p \in Paths, Reap(p) PROVE JobInv'
    BY <1>10, <1>still DEF Reap, results
  <1>11. ASSUME NEW p \in Paths, CancelQueued(p) PROVE JobInv'
    <2>1. CASE job[p] # "queued"
      BY <1>11, <2>1, <1>still DEF CancelQueued, results
    <2>2. CASE job[p] = "queued"
      <3>1. active[p] # NoHint
        BY <2>2 DEF JobInv, PathInv
      <3> QED BY <1>11, <2>2, <3>1, FinishPath DEF CancelQueued, Verdicts
    <2> QED BY <2>1, <2>2
  <1>12. CASE Producer
    BY <1>12, <1>still, ProducerLeaves
  <1>13. ASSUME NEW p \in Paths, Start(p) PROVE JobInv'
    <2>1. UNCHANGED <<seen, futures, verdict, chosen>>
      BY <1>13 DEF Start, WorkerOnly
    <2>2. /\ p \in seen /\ active[p] # NoHint /\ verdict[p] = "none"
          /\ chosen[p] = active[p].status
      BY <1>13 DEF Start, JobInv, PathInv
    <2>3. CASE Isolated(active[p]) /\ ~retryFailed
      <3>1. job'[p] = "check" /\ active' = active /\ job' = [job EXCEPT ![p] = "check"]
        BY <1>13, <2>3 DEF Start, MainTypes
      <3>2. PathInv(p)'
        BY <2>1, <2>2, <2>3, <3>1 DEF PathInv, Isolated
      <3>3. ASSUME NEW q \in Paths, q # p PROVE PathInv(q)'
        BY <2>1, <3>1, <3>3, PathKept DEF MainTypes
      <3> QED BY <3>2, <3>3 DEF JobInv
    <2>4. CASE ~(Isolated(active[p]) /\ ~retryFailed)
      <3>1. /\ job'[p] = "run" /\ job' = [job EXCEPT ![p] = "run"]
            /\ active'[p].status = "DOWNLOADING"
            /\ \A q \in Paths \ {p} : active'[q] = active[q]
        <4>1. /\ job' = [job EXCEPT ![p] = "run"]
              /\ active' = [active EXCEPT ![p] =
                   [@ EXCEPT !.status = "DOWNLOADING",
                             !.retries = IF Isolated(active[p]) THEN 0 ELSE active[p].retries]]
          BY <1>13, <2>4 DEF Start
        <4>2. /\ DOMAIN job = Paths /\ active \in [Paths -> Hints]
          BY DEF MainTypes, HintTypes
        <4>3. /\ active'[p] = [active[p] EXCEPT !.status = "DOWNLOADING",
                               !.retries = IF Isolated(active[p]) THEN 0 ELSE active[p].retries]
              /\ \A q \in Paths \ {p} : active'[q] = active[q]
          BY <4>1, <4>2
        <4>4. active'[p].status = "DOWNLOADING"
          BY <4>2, <4>3 DEF Hints
        <4> QED BY <4>1, <4>2, <4>3, <4>4
      <3>2. active'[p] # NoHint
        BY <3>1 DEF NoHint
      <3>3. PathInv(p)'
        BY <2>1, <2>2, <3>1, <3>2 DEF PathInv
      <3>4. ASSUME NEW q \in Paths, q # p PROVE PathInv(q)'
        BY <2>1, <3>1, <3>4, PathKept DEF MainTypes
      <3> QED BY <3>3, <3>4 DEF JobInv
    <2> QED BY <2>3, <2>4
  <1>14. ASSUME NEW p \in Paths, Retry(p) PROVE JobInv'
    <2>1. UNCHANGED <<seen, futures, verdict, chosen, job>>
      BY <1>14 DEF Retry, WorkerOnly
    <2>2. /\ \A q \in Paths \ {p} : active'[q] = active[q]
          /\ active'[p].retries = active[p].retries + 1 /\ active[p].retries \in Nat
      BY <1>14, ConstantsOK DEF Retry, HintTypes, Hints
    <2>3. active'[p] # NoHint
      BY <2>2 DEF NoHint
    <2>4. active[p] # NoHint /\ p \in seen /\ verdict[p] = "none" /\ job[p] = "run"
      BY <1>14 DEF Retry, JobInv, PathInv, Busy
    <2>5. PathInv(p)'
      BY <2>1, <2>3, <2>4 DEF PathInv
    <2>6. ASSUME NEW q \in Paths, q # p PROVE PathInv(q)'
      BY <2>1, <2>2, <2>6, PathKept
    <2> QED BY <2>5, <2>6 DEF JobInv
  <1>15. ASSUME NEW p \in Paths, NEW j \in {"refused", "publish"}, job[p] = "run",
                job' = [job EXCEPT ![p] = j], UNCHANGED <<seen, futures, active, verdict, chosen>>
         PROVE  JobInv'
    <2>1. job'[p] = j /\ PathInv(p)
      BY <1>15 DEF MainTypes, JobInv
    <2>2. active[p] # NoHint /\ p \in seen
      BY <1>15, <2>1 DEF PathInv, Busy
    <2>3. PathInv(p)'
      BY <1>15, <2>1, <2>2 DEF PathInv
    <2>4. ASSUME NEW q \in Paths, q # p PROVE PathInv(q)'
      BY <1>15, <2>4, PathKept DEF MainTypes
    <2> QED BY <2>3, <2>4 DEF JobInv
  <1>16. ASSUME NEW p \in Paths, RetryRefused(p) \/ Publish(p) PROVE JobInv'
    BY <1>15, <1>16 DEF RetryRefused, Publish, WorkerOnly, results
  <1>17. ASSUME NEW p \in Paths, Ending(p) PROVE JobInv'
    <2>1. PICK s \in Verdicts, how \in {"returned", "raised"} : End(p, s, how)
      BY <1>17, EndingEnds
    <2>2. active[p] # NoHint
      BY <1>17, EndingEnds DEF Alive
    <2> QED BY <2>1, <2>2, FinishPath DEF End, WorkerOnly
  <1>18. CASE Crash \/ NewRun
    <2>1. /\ futures' = {} /\ seen' = {} /\ active' = [p \in Paths |-> NoHint]
          /\ verdict' = [p \in Paths |-> "none"] /\ job' = [p \in Paths |-> "none"]
      BY <1>18 DEF Crash, NewRun, Forget
    <2> QED BY <2>1 DEF JobInv, PathInv, Busy
  <1> QED BY <1>1, <1>2, <1>3, <1>5, <1>6, <1>7, <1>8, <1>9, <1>10, <1>11, <1>12, <1>13, <1>14,
             <1>16, <1>17, <1>18, Steps

\* The phases of the calling thread.
LEMMA PhaseStep ==
  ASSUME IInv, [Next]_vars
  PROVE  PhaseInv'
  <1> USE DEF IInv
  <1> DEFINE late == {"shutdown", "join", "report", "reported"}
  \* A step of a worker or the producer leaves the calling thread where it is.
  <1>aside. ASSUME UNCHANGED <<pc, futures, path, seen>>, pc \notin Ended,
                   pc = "submit" => active'[path] # NoHint /\ job'[path] = "none",
                   \A p \in Paths : job'[p] = "queued" => job[p] = "queued",
                   \A p \in Paths : job'[p] \in Busy => job[p] \in Busy \cup {"queued"}
            PROVE  PhaseInv'
    BY <1>aside DEF PhaseInv, Ended
  <1>still. ASSUME UNCHANGED <<active, job, seen, path, futures>>, UNCHANGED pc \/ pc' \notin late \cup Ended,
                   pc' = "submit" => pc = "submit"
            PROVE  PhaseInv'
    BY <1>still DEF PhaseInv
  <1>1. CASE UNCHANGED vars
    BY <1>1, <1>still DEF vars, results
  <1>2. CASE Loop1 \/ Loop2 \/ Filled \/ Waited
    <2>1. pc' \in {"fill", "loop2", "cancel", "wait", "loop1"}
      BY <1>2 DEF Loop1, Loop2, Filled, Waited
    <2> QED BY <1>2, <2>1, <1>still DEF Loop1, Loop2, Filled, Waited, results, Ended
  <1>3. CASE JoinProducer
    BY <1>3 DEF JoinProducer, PhaseInv, Ended
  <1>4. CASE Take
    <2> DEFINE entry == Head(queue)
    <2>1. CASE UNCHANGED <<hints, pc, path, seen, chosen, results>>
      BY <1>4, <2>1, <1>still DEF Take, results
    <2>2. ASSUME NEW p \in Paths, p = entry.path, p \notin seen, Select(p), pc' = "submit", path' = p
          PROVE  PhaseInv'
      <3>1. exc[p] \in Hints
        BY DEF HintTypes
      <3>2. active'[p] # NoHint /\ p \in seen'
        BY <2>2, <3>1, FreshTyped DEF Select, HintTypes
      <3>3. job'[p] = "none" /\ p \notin futures' /\ Cardinality(futures') < FutureCap
        BY <1>4, <2>2 DEF Take, JobInv, PathInv
      <3> QED BY <2>2, <3>2, <3>3 DEF PhaseInv, Ended
    <2>3. CASE UNCHANGED <<pc, path, active>>
      BY <1>4, <2>3 DEF Take, PhaseInv, Ended
    <2>4. entry.kind \in {"file", "invalid"} => entry.path \in Paths
      BY <1>4, NewEntry DEF Take
    <2> QED BY <1>4, <2>1, <2>2, <2>3, <2>4 DEF Take
  <1>5. CASE Submit \/ Interrupt
    BY <1>5 DEF Submit, Interrupt, PhaseInv, Ended
  <1>6. CASE Shutdown
    BY <1>6 DEF Shutdown, PhaseInv, Ended
  <1>7. CASE PoolEnds
    BY <1>7 DEF PoolEnds, PhaseInv, Ended
  <1>8. CASE Report
    BY <1>8 DEF Report, PhaseInv, Ended
  <1>9. ASSUME NEW p \in Paths, Reap(p) PROVE PhaseInv'
    <2>1. pc' \in {"wait", "cancel"}
      BY <1>9 DEF Reap
    <2> QED BY <2>1 DEF PhaseInv, Ended
  <1>10. ASSUME NEW p \in Paths, CancelQueued(p) PROVE PhaseInv'
    BY <1>10 DEF CancelQueued, PhaseInv, Ended
  <1>11. CASE Producer
    BY <1>11, <1>aside, ProducerLeaves DEF PhaseInv
  <1>12. ASSUME NEW p \in Paths, Start(p) PROVE PhaseInv'
    <2>1. job[p] = "queued" /\ pc \notin Ended /\ UNCHANGED <<pc, futures, path, seen>>
      BY <1>12 DEF Start, WorkerOnly
    <2>2. \A q \in Paths \ {p} : active'[q] = active[q] /\ job'[q] = job[q]
      BY <1>12 DEF Start, HintTypes, MainTypes
    <2>3. job'[p] \in Busy
      BY <1>12 DEF Start, MainTypes, Busy
    <2>4. pc = "submit" => path \in Paths \ {p}
      BY <2>1 DEF PhaseInv, MainTypes
    <2> QED BY <2>1, <2>2, <2>3, <2>4, <1>aside DEF PhaseInv, Busy
  <1>13. ASSUME NEW p \in Paths, Retry(p) \/ RetryRefused(p) \/ Publish(p) PROVE PhaseInv'
    <2>1. /\ job[p] = "run" /\ pc \notin Ended /\ UNCHANGED <<pc, futures, path, seen>>
          /\ \A q \in Paths \ {p} : active'[q] = active[q] /\ job'[q] = job[q]
          /\ job'[p] \in Busy
      BY <1>13 DEF Retry, RetryRefused, Publish, Alive, WorkerOnly, results, HintTypes, MainTypes, Busy
    <2>2. pc = "submit" => path \in Paths \ {p}
      BY <2>1 DEF PhaseInv, MainTypes
    <2> QED BY <2>1, <2>2, <1>aside DEF PhaseInv, Busy
  <1>14. ASSUME NEW p \in Paths, Ending(p) PROVE PhaseInv'
    <2>1. PICK s \in Verdicts, how \in {"returned", "raised"} : End(p, s, how)
      BY <1>14, EndingEnds
    <2>2. job[p] \in Busy /\ pc \notin Ended
      BY <1>14, EndingEnds DEF Alive
    <2>3. /\ UNCHANGED <<pc, futures, path, seen>>
          /\ \A q \in Paths \ {p} : active'[q] = active[q] /\ job'[q] = job[q]
          /\ job'[p] \in {"returned", "raised"}
      BY <2>1 DEF End, Finish, WorkerOnly, HintTypes, MainTypes
    <2>4. pc = "submit" => path \in Paths \ {p}
      BY <2>2 DEF PhaseInv, MainTypes, Busy
    <2> QED BY <2>2, <2>3, <2>4, <1>aside DEF PhaseInv, Busy
  <1>15. CASE Crash \/ NewRun
    <2>1. /\ active' = [p \in Paths |-> NoHint] /\ pc' \in {"crashed", "loop1"}
      BY <1>15 DEF Crash, NewRun, Forget
    <2> QED BY <2>1 DEF PhaseInv, Ended
  <1> QED BY <1>1, <1>2, <1>3, <1>4, <1>5, <1>6, <1>7, <1>8, <1>9, <1>10, <1>11, <1>12, <1>13,
             <1>14, <1>15, Steps DEF Moving

-----------------------------------------------------------------------------
(* The results.                                                             *)

LEMMA ResultedFinite ==
  ASSUME IInv
  PROVE  IsFiniteSet(Resulted) /\ Cardinality(Resulted) \in Nat /\ Resulted \subseteq Paths
  BY ConstantsOK, FS_Subset, FS_CardinalityType DEF Resulted

\* One more result, for a path that had none.
LEMMA OneResult ==
  ASSUME IInv, NEW p \in Paths, NEW s \in Verdicts, verdict[p] = "none",
         verdict' = [verdict EXCEPT ![p] = s], total' = total + 1
  PROVE  CountInv'
  <1>1. Resulted' = Resulted \cup {p} /\ p \notin Resulted
    BY DEF Resulted, IInv, MainTypes, Verdicts, Isolating
  <1>2. Cardinality(Resulted') = Cardinality(Resulted) + 1
    BY <1>1, ResultedFinite, FS_AddElement
  <1> QED BY <1>2 DEF IInv, CountInv

LEMMA CountStep ==
  ASSUME IInv, [Next]_vars
  PROVE  CountInv'
  <1> USE DEF IInv
  <1>still. ASSUME UNCHANGED <<verdict, total>> PROVE CountInv'
    BY <1>still DEF CountInv, Resulted
  <1>fin. ASSUME NEW p \in Paths, NEW s \in Verdicts, Finish(p, s), active[p] # NoHint PROVE CountInv'
    <2>1. verdict[p] = "none"
      BY <1>fin DEF JobInv, PathInv
    <2> QED BY <1>fin, <2>1, OneResult DEF Finish
  <1>1. CASE UNCHANGED vars
    BY <1>1, <1>still DEF vars, results
  <1>2. CASE Moving \/ Submit \/ Shutdown \/ PoolEnds \/ Interrupt
    BY <1>2, <1>still DEF Moving, Loop1, Loop2, Filled, Waited, JoinProducer, Submit, Shutdown,
                          PoolEnds, Interrupt, results
  <1>3. CASE Take
    <2> DEFINE entry == Head(queue)
    <2>1. CASE UNCHANGED <<verdict, total>>
      BY <2>1, <1>still
    <2>2. CASE /\ entry.path \notin seen /\ entry.kind = "invalid"
               /\ verdict' = [verdict EXCEPT ![entry.path] = "FAILED"] /\ total' = total + 1
      <3>1. entry.path \in Paths
        BY <1>3, <2>2, NewEntry DEF Take
      <3>2. verdict[entry.path] = "none"
        BY <2>2, <3>1 DEF JobInv, PathInv
      <3> QED BY <2>2, <3>1, <3>2, OneResult DEF Verdicts, Isolating
    <2> QED BY <1>3, <2>1, <2>2 DEF Take, results
  <1>4. CASE Report
    <2> DEFINE rest == {p \in Paths : active[p] # NoHint}
    <2>1. /\ verdict' = [p \in Paths |-> IF p \in rest THEN "PENDING" ELSE verdict[p]]
          /\ total' = total + Cardinality(rest)
      BY <1>4 DEF Report
    <2>2. \A p \in rest : verdict[p] = "none"
      BY DEF JobInv, PathInv
    <2>3. Resulted' = Resulted \cup rest /\ Resulted \cap rest = {}
      BY <2>1, <2>2 DEF Resulted
    <2>4. IsFiniteSet(rest) /\ Cardinality(rest) \in Nat
      BY ConstantsOK, FS_Subset, FS_CardinalityType
    <2>5. Cardinality(Resulted \cup rest) =
            Cardinality(Resulted) + Cardinality(rest) - Cardinality(Resulted \cap rest)
      BY <2>4, ResultedFinite, FS_Union
    <2>6. Cardinality(Resulted \cap rest) = 0
      BY <2>3, FS_EmptySet
    <2> HIDE DEF rest
    <2> QED BY <2>1, <2>3, <2>4, <2>5, <2>6, ResultedFinite DEF CountInv
  <1>5. ASSUME NEW p \in Paths, Reap(p) PROVE CountInv'
    BY <1>5, <1>still DEF Reap, results
  <1>6. ASSUME NEW p \in Paths, CancelQueued(p) PROVE CountInv'
    <2>1. job[p] = "queued" => active[p] # NoHint
      BY DEF JobInv, PathInv
    <2> QED BY <1>6, <2>1, <1>still, <1>fin DEF CancelQueued, results, Verdicts
  <1>7. CASE Producer
    BY <1>7, <1>still, ProducerLeaves
  <1>8. ASSUME NEW p \in Paths, Start(p) \/ Retry(p) \/ RetryRefused(p) \/ Publish(p) PROVE CountInv'
    BY <1>8, <1>still DEF Start, Retry, RetryRefused, Publish, results
  <1>9. ASSUME NEW p \in Paths, Ending(p) PROVE CountInv'
    <2>1. PICK s \in Verdicts, how \in {"returned", "raised"} : End(p, s, how)
      BY <1>9, EndingEnds
    <2> QED BY <1>9, <2>1, <1>fin, EndingEnds DEF End, Alive
  <1>10. CASE Crash \/ NewRun
    <2>1. verdict' = [p \in Paths |-> "none"] /\ total' = 0
      BY <1>10 DEF Crash, NewRun, Forget
    <2>2. Resulted' = {}
      BY <2>1 DEF Resulted
    <2> QED BY <2>1, <2>2, FS_EmptySet DEF CountInv
  <1> QED BY <1>1, <1>2, <1>3, <1>4, <1>5, <1>6, <1>7, <1>8, <1>9, <1>10, Steps

\* A verified path is good, and a complete report verified all it has seen.
LEMMA DoneStep ==
  ASSUME IInv, [Next]_vars, JobInv', CountInv'
  PROVE  DoneInv'
  <1> USE DEF IInv
  <1> DEFINE Sure(p)  == verdict[p] = "VERIFIED" \/ job[p] = "publish" => p \in good
             Complete == pc = "reported" /\ status = "COMPLETE" =>
                           listingComplete /\ \A p \in seen : verdict[p] = "VERIFIED"
  <1>1. ASSUME NEW p \in Paths PROVE Sure(p)'
    <2>0. Sure(p)
      BY DEF DoneInv
    <2>still. ASSUME good \subseteq good', verdict'[p] = "VERIFIED" => verdict[p] = "VERIFIED" \/ p \in good,
                     job'[p] = "publish" => job[p] = "publish"
              PROVE  Sure(p)'
      BY <2>0, <2>still
    <2>fin. ASSUME NEW q \in Paths, NEW s \in Verdicts, Finish(q, s), s = "VERIFIED" => q \in good
            PROVE  verdict'[p] = "VERIFIED" => verdict[p] = "VERIFIED" \/ p \in good
      BY <2>fin DEF Finish, MainTypes
    <2>1. CASE UNCHANGED vars
      BY <2>1, <2>still DEF vars, results
    <2>2. CASE Moving \/ Submit \/ Shutdown \/ PoolEnds \/ Interrupt
      BY <2>2, <2>still DEF Moving, Loop1, Loop2, Filled, Waited, JoinProducer, Submit, Shutdown,
                            PoolEnds, Interrupt, results, MainOnly, MainTypes
    <2>3. CASE Take
      BY <2>3, <2>still DEF Take, results, MainOnly, MainTypes
    <2>4. CASE Report
      BY <2>4, <2>still DEF Report
    <2>5. ASSUME NEW q \in Paths, Reap(q) PROVE Sure(p)'
      BY <2>5, <2>still DEF Reap, results, MainOnly
    <2>6. ASSUME NEW q \in Paths, CancelQueued(q) PROVE Sure(p)'
      <3>1. verdict'[p] = "VERIFIED" => verdict[p] = "VERIFIED" \/ p \in good
        BY <2>6, <2>fin DEF CancelQueued, results, Verdicts
      <3>2. job'[p] = "publish" => job[p] = "publish"
        BY <2>6 DEF CancelQueued, MainTypes
      <3> QED BY <2>6, <2>still, <3>1, <3>2 DEF CancelQueued, MainOnly
    <2>7. CASE Producer
      BY <2>7, <2>still, ProducerLeaves
    <2>8. ASSUME NEW q \in Paths, Start(q) \/ Retry(q) \/ RetryRefused(q) PROVE Sure(p)'
      BY <2>8, <2>still DEF Start, Retry, RetryRefused, results, MainTypes
    <2>9. ASSUME NEW q \in Paths, Publish(q) PROVE Sure(p)'
      BY <2>0, <2>9 DEF Publish, results, MainTypes
    <2>10. ASSUME NEW q \in Paths, Ending(q) PROVE Sure(p)'
      <3>1. PICK s \in Verdicts, how \in {"returned", "raised"} :
              End(q, s, how) /\ (s = "VERIFIED" => q \in good)
        BY <2>10, EndingEnds
      <3>2. verdict'[p] = "VERIFIED" => verdict[p] = "VERIFIED" \/ p \in good
        BY <3>1, <2>fin DEF End
      <3>3. job'[p] = "publish" => job[p] = "publish"
        BY <3>1 DEF End, MainTypes
      <3> QED BY <2>still, <3>1, <3>2, <3>3 DEF End
    <2>11. CASE Crash \/ NewRun
      BY <2>11 DEF Crash, NewRun, Forget
    <2> QED BY <2>1, <2>2, <2>3, <2>4, <2>5, <2>6, <2>7, <2>8, <2>9, <2>10, <2>11, Steps
  <1>2. Complete'
    <2>1. CASE Report
      <3> DEFINE rest == {p \in Paths : active[p] # NoHint}
                 sure == {p \in Paths : verdict'[p] = "VERIFIED"}
      <3> SUFFICES ASSUME status' = "COMPLETE"
                   PROVE  listingComplete' /\ \A p \in seen' : verdict'[p] = "VERIFIED"
        OBVIOUS
      <3>1. listingComplete /\ total' = Cardinality(sure) /\ UNCHANGED <<listingComplete, seen>>
        BY <2>1 DEF Report, Outcome, flags
      <3>2. sure \subseteq Resulted' /\ Resulted' \subseteq Paths
        BY DEF Resulted
      <3>3. Cardinality(Resulted') = Cardinality(sure) /\ IsFiniteSet(Resulted')
        BY <3>1, <3>2, ConstantsOK, FS_Subset DEF CountInv
      <3>4. Resulted' = sure
        BY <3>2, <3>3, FS_Subset
      <3>5. \A p \in seen : verdict'[p] # "none"
        BY <2>1, <3>1 DEF Report, JobInv, PathInv, MainTypes
      <3>6. seen \subseteq Resulted'
        BY <3>5 DEF Resulted, MainTypes
      <3> QED BY <3>1, <3>4, <3>6
    <2>2. CASE pc' # "reported"
      BY <2>2
    <2>3. CASE pc' = "reported" /\ ~Report
      <3>1. UNCHANGED <<pc, status, listingComplete, seen, verdict>>
        <4>1. pc = "reported" \/ UNCHANGED vars
          <5>1. ASSUME NEW q \in Paths, Ending(q) \/ Reap(q) \/ CancelQueued(q) \/ Start(q)
                                         \/ Retry(q) \/ RetryRefused(q) \/ Publish(q)
                PROVE  UNCHANGED pc
            <6>1. CASE Ending(q)
              BY <6>1, EndingEnds DEF End, WorkerOnly
            <6>2. CASE Reap(q)
              BY <6>2, <2>3 DEF Reap
            <6> QED BY <5>1, <6>1, <6>2 DEF CancelQueued, Start, Retry, RetryRefused, Publish, WorkerOnly
          <5>2. ~(Moving \/ Submit \/ Shutdown \/ PoolEnds \/ Interrupt \/ Crash \/ NewRun)
            BY <2>3 DEF Moving, Loop1, Loop2, Filled, Waited, JoinProducer, Submit, Shutdown, PoolEnds,
                        Interrupt, Crash, NewRun
          <5>3. ~Take
            BY <2>3 DEF Take
          <5> QED BY <2>3, <5>1, <5>2, <5>3, ProducerLeaves, Steps
        <4>2. ASSUME pc = "reported" PROVE UNCHANGED vars
          <5>1. \A q \in Paths : ~Reap(q) /\ ~CancelQueued(q) /\ ~Start(q) /\ ~Retry(q)
                                 /\ ~RetryRefused(q) /\ ~Publish(q) /\ ~Ending(q)
            BY <4>2, EndingEnds DEF Reap, CancelQueued, Start, Retry, RetryRefused, Publish, Alive, Ended
          <5>2. ~(Moving \/ Take \/ Submit \/ Shutdown \/ PoolEnds \/ Interrupt \/ Crash \/ NewRun)
            BY <2>3, <4>2 DEF Moving, Loop1, Loop2, Filled, Waited, JoinProducer, Take, Submit, Shutdown,
                        PoolEnds, Interrupt, Crash, NewRun, Trying, Ended
          <5> QED BY <2>3, <4>2, <5>1, <5>2, ProducerLeaves, Steps DEF Ended
        <4> QED BY <4>1, <4>2 DEF vars, flags, results
      <3> QED BY <3>1 DEF DoneInv
    <2> QED BY <2>1, <2>2, <2>3
  <1> QED BY <1>1, <1>2 DEF DoneInv

-----------------------------------------------------------------------------
(* The listing.                                                             *)

\* While the listing is whole, nothing is produced any more once the calling thread is done.
LEMMA WholeStop ==
  ASSUME IInv, Whole, pc \notin Ended, stop
  PROVE  producerDone /\ item = NoItem /\ page = 0
  <1>1. pc \in {"cancel", "shutdown", "join", "report", "reported"}
    BY DEF IInv, ListInv, MainTypes, Ended
  <1> QED BY <1>1 DEF IInv, ListInv

LEMMA ListStep ==
  ASSUME IInv, [Next]_vars
  PROVE  ListInv'
  <1> USE DEF IInv
  <1> DEFINE Past == {"cancel", "shutdown", "join", "report", "reported"}
  <1>lens. Len(Listing) \in Nat /\ queue \in Seq(Entries \cup {ErrItem})
    BY ConstantsOK DEF ListTypes
  \* A step that leaves the producer and the queue, and makes the calling thread go its way.
  <1>still. ASSUME UNCHANGED <<page, item, producerDone, queue>>, seen \subseteq seen',
                   Whole' => Whole,
                   Whole => /\ pc' \in Trying => ~stop'
                            /\ pc' \in Past => producerDone /\ queue = <<>>
                            /\ pc' = "loop2" => producerDone
            PROVE  ListInv'
    <2>1. \A i \in 1..Len(Listing) : Listed(i)' <=> Listed(i)
      BY <1>still DEF Listed
    <2>2. \A i \in 1..Len(Listing) : Accounted(i) => Accounted(i)'
      BY <1>still DEF Accounted, InPipe
    <2>3. InPipe(ErrItem)' <=> InPipe(ErrItem)
      BY <1>still DEF InPipe
    <2> QED BY <1>still, <2>1, <2>2, <2>3 DEF ListInv
  <1>1. CASE UNCHANGED vars
    BY <1>1, <1>still DEF vars, producer, flags, Whole, ListInv
  <1>2. CASE Moving
    <2>1. UNCHANGED <<page, item, producerDone, queue, seen, stop, listingComplete, status>>
      BY <1>2 DEF Moving, Loop1, Loop2, Filled, Waited, JoinProducer, MainOnly, producer, flags
    <2>2. Whole => /\ pc' \in Trying => ~stop'
                   /\ pc' \in Past => producerDone /\ queue = <<>>
                   /\ pc' = "loop2" => producerDone
      BY <1>2, <2>1 DEF Moving, Loop1, Loop2, Filled, Waited, JoinProducer, SeesWork, ListInv, Trying
    <2> QED BY <2>1, <2>2, <1>still DEF Whole
  <1>3. CASE Take
    <2> DEFINE entry == Head(queue)
    <2> SUFFICES ASSUME Whole' PROVE ListInv'
      BY DEF ListInv
    <2>1. /\ UNCHANGED <<page, item, producerDone, stop, status>> /\ queue' = Tail(queue)
          /\ listingComplete /\ entry.kind # "error" /\ queue # <<>>
          /\ pc = "fill" /\ pc' \in {"fill", "submit"}
      BY <1>3 DEF Take, MainOnly, producer, Whole
    <2>2. Whole /\ ListInv
      BY <2>1 DEF Whole
    <2>3. entry \in Entries /\ entry.kind \in {"file", "skip", "invalid"} /\ entry # ErrItem
      BY <2>1, HeadTyped, EntriesTyped DEF ErrItem, Kinds
    <2>4. \A e : (\E k \in 1..Len(queue) : queue[k] = e) =>
                    e = entry \/ \E k \in 1..Len(queue') : queue'[k] = e
      <3> SUFFICES ASSUME NEW e, NEW k \in 1..Len(queue), queue[k] = e, k # 1
                   PROVE  \E j \in 1..Len(queue') : queue'[j] = e
        BY <2>1, HeadTyped
      <3>1. k - 1 \in 1..Len(queue') /\ queue'[k - 1] = queue[k]
        BY <2>1, HeadTyped, <1>lens, LenProperties
      <3> QED BY <3>1
    <2>5. InPipe(ErrItem) => InPipe(ErrItem)'
      BY <2>1, <2>3, <2>4 DEF InPipe
    <2>6. entry.kind = "skip" \/ entry.path \in seen'
      BY <1>3, <2>3 DEF Take, Select
    <2>7. seen \subseteq seen'
      BY <1>3 DEF Take, Select
    <2>8. ASSUME NEW i \in 1..Len(Listing), Listed(i)', ~InPipe(ErrItem)' PROVE Accounted(i)'
      <3>1. Accounted(i)
        BY <2>1, <2>2, <2>5, <2>8 DEF ListInv, Listed
      <3>2. CASE InPipe(Listing[i])
        <4>1. Listing[i] = entry \/ InPipe(Listing[i])'
          BY <2>1, <2>4, <3>2 DEF InPipe
        <4> QED BY <2>6, <4>1 DEF Accounted
      <3> QED BY <2>7, <3>1, <3>2 DEF Accounted
    <2> QED BY <2>1, <2>2, <2>8 DEF ListInv, Trying
  <1>4. CASE Submit \/ Shutdown \/ PoolEnds \/ Interrupt \/ Report
    <2>1. UNCHANGED <<page, item, producerDone, queue, seen, listingComplete>>
      BY <1>4 DEF Submit, Shutdown, PoolEnds, Interrupt, Report, MainOnly, producer, flags
    <2>2. Whole' => Whole
      BY <1>4 DEF Submit, Shutdown, PoolEnds, Interrupt, Report, MainOnly, flags, Whole, Outcome
    <2>3. CASE Submit \/ Shutdown \/ PoolEnds \/ Report
      BY <2>1, <2>2, <2>3, <1>still DEF Submit, Shutdown, PoolEnds, Report, ListInv, Trying
    <2>4. CASE Interrupt
      BY <2>4 DEF Interrupt, ListInv, Whole
    <2> QED BY <1>4, <2>3, <2>4
  <1>5. ASSUME NEW p \in Paths, Reap(p) PROVE ListInv'
    <2>1. CASE job[p] = "raised"
      BY <1>5, <2>1 DEF Reap, ListInv, Whole
    <2>2. CASE job[p] # "raised"
      BY <1>5, <2>2, <1>still DEF Reap, MainOnly, producer, flags, Whole, ListInv
    <2> QED BY <2>1, <2>2
  <1>6. ASSUME NEW p \in Paths, CancelQueued(p) PROVE ListInv'
    BY <1>6, <1>still DEF CancelQueued, MainOnly, producer, flags, Whole, ListInv
  <1>7. CASE Producer
    <2> SUFFICES ASSUME Whole' PROVE ListInv'
      BY DEF ListInv
    <2>1. UNCHANGED <<pc, stop, listingComplete, seen, status>> /\ Whole /\ pc \notin Ended
      BY <1>7, ProducerLeaves DEF Whole
    <2>2. ListInv /\ ~producerDone
      <3>1. CASE item # NoItem
        BY <2>1, <3>1 DEF ListInv
      <3>2. CASE item = NoItem
        BY <1>7, <3>2 DEF Producer, ResetPages, Reading, ListPage, PageFails, ListingFails, Put, ProducerEnds
      <3> QED BY <3>1, <3>2
    <2>3. ~stop /\ pc \in Trying
      BY <2>1, <2>2, WholeStop DEF ListInv, MainTypes, Ended
    <2>4. CASE ResetPages
      BY <2>1, <2>4, <1>still DEF ResetPages, producer, ListInv
    <2>5. CASE PageFails \/ ListingFails
      BY <2>1, <2>2, <2>3, <2>5 DEF PageFails, ListingFails, Reading, ListInv, InPipe, Trying
    <2>6. CASE ProducerEnds
      <3>1. UNCHANGED <<page, item, queue>> /\ producerDone' /\ item = NoItem /\ page = 0
        BY <2>3, <2>6 DEF ProducerEnds
      <3>2. \A i \in 1..Len(Listing) : Accounted(i) => Accounted(i)'
        BY <2>1, <3>1 DEF Accounted, InPipe
      <3>3. InPipe(ErrItem)' <=> InPipe(ErrItem)
        BY <3>1 DEF InPipe
      <3> QED BY <2>1, <2>2, <2>3, <3>1, <3>2, <3>3 DEF ListInv, Listed, Trying
    <2>7. CASE ListPage
      <3>1. /\ item = NoItem /\ UNCHANGED <<queue, producerDone>> /\ page \in Nat \ {0}
            /\ page <= Len(Listing) => item' = Listing[page]
            /\ page' = IF page < Len(Listing) THEN page + 1 ELSE 0
        BY <2>7, <1>lens DEF ListPage, Reading, ListTypes
      <3>2. InPipe(ErrItem) => InPipe(ErrItem)'
        BY <3>1 DEF InPipe, NoItem, ErrItem
      <3>3. ASSUME NEW i \in 1..Len(Listing), Listed(i)', ~InPipe(ErrItem)' PROVE Accounted(i)'
        <4>1. i < page \/ i = page
          BY <3>1, <3>3, <1>lens DEF Listed
        <4>2. CASE i = page
          BY <3>1, <4>2 DEF Accounted, InPipe
        <4>3. CASE i < page
          <5>1. Accounted(i)
            BY <2>1, <2>2, <3>2, <3>3, <4>3 DEF ListInv, Listed
          <5>2. Listing[i].kind = "skip" \/ Listing[i] # NoItem
            <6>1. Listing[i] \in Entries
              BY DEF Entries
            <6> QED BY <6>1, EntriesTyped DEF NoItem, Kinds
          <5> QED BY <2>1, <3>1, <5>1, <5>2 DEF Accounted, InPipe
        <4> QED BY <4>1, <4>2, <4>3
      <3> QED BY <2>1, <2>2, <2>3, <3>1, <3>3 DEF ListInv, Trying
    <2>8. CASE Put
      <3>1. /\ item # NoItem /\ item' = NoItem /\ queue' = Append(queue, item)
            /\ UNCHANGED <<page, producerDone>> /\ item \in Entries \cup {ErrItem}
        BY <2>3, <2>8 DEF Put, ListTypes
      <3>2. /\ Len(queue') = Len(queue) + 1 /\ queue'[Len(queue) + 1] = item
            /\ \A k \in 1..Len(queue) : queue'[k] = queue[k]
            /\ Len(queue) \in Nat
        BY <3>1, <1>lens, AppendProperties, LenProperties
      <3>3. \A e : InPipe(e) => \E k \in 1..Len(queue') : queue'[k] = e
        BY <3>1, <3>2 DEF InPipe
      <3>4. InPipe(ErrItem) => InPipe(ErrItem)'
        BY <3>3 DEF InPipe
      <3>5. ASSUME NEW i \in 1..Len(Listing), Accounted(i) PROVE Accounted(i)'
        BY <2>1, <3>3, <3>5 DEF Accounted, InPipe
      <3> QED BY <2>1, <2>2, <2>3, <3>1, <3>4, <3>5 DEF ListInv, Listed, Trying
    <2> QED BY <1>7, <2>4, <2>5, <2>6, <2>7, <2>8 DEF Producer
  <1>8. ASSUME NEW p \in Paths, Start(p) \/ Retry(p) \/ RetryRefused(p) \/ Publish(p) PROVE ListInv'
    <2>1. UNCHANGED <<page, item, producerDone, queue, seen, stop, pc, listingComplete, status>>
      BY <1>8 DEF Start, Retry, RetryRefused, Publish, WorkerOnly, producer, flags
    <2> QED BY <2>1, <1>still DEF Whole, ListInv
  <1>9. ASSUME NEW p \in Paths, Ending(p) PROVE ListInv'
    <2>1. PICK s \in Verdicts, how \in {"returned", "raised"} : End(p, s, how)
      BY <1>9, EndingEnds
    <2> QED BY <2>1, <1>still DEF End, WorkerOnly, producer, flags, Whole, ListInv
  <1>10. CASE Crash \/ NewRun
    <2>1. /\ page' = 1 /\ stop' = FALSE /\ producerDone' = FALSE /\ pc' \in {"crashed", "loop1"}
      BY <1>10 DEF Crash, NewRun, Forget
    <2>2. \A i \in 1..Len(Listing) : ~Listed(i)'
      BY <2>1 DEF Listed
    <2> QED BY <2>1, <2>2 DEF ListInv
  <1> QED BY <1>1, <1>2, <1>3, <1>4, <1>5, <1>6, <1>7, <1>8, <1>9, <1>10, Steps

-----------------------------------------------------------------------------
(* The theorems.                                                            *)

LEMMA IInvStep == IInv /\ [Next]_vars => IInv'
  BY HintTypesStep, ListTypesStep, MainTypesStep, JobStep, PhaseStep, CountStep, DoneStep, ListStep
     DEF IInv

\* IInv holds in every reachable state.
THEOREM Invariance == Spec => []IInv
  BY InitHolds, IInvStep, PTL DEF Spec

\* Every variable has its type in every reachable state: no file is retried beyond
\* max_retries, no more futures are kept than workers * 2, the queue keeps its bound, and no
\* more results are spooled than there are paths.
THEOREM TypeCorrect == Spec => []TypeOK
  <1>1. IInv => TypeOK
    <2> SUFFICES ASSUME IInv PROVE TypeOK
      OBVIOUS
    <2>1. Cardinality(Resulted) <= Cardinality(Paths) /\ Cardinality(Paths) \in Nat
      BY ConstantsOK, FS_Subset, FS_CardinalityType DEF Resulted
    <2>2. total \in 0..Cardinality(Paths)
      BY <2>1, ResultedFinite DEF IInv, CountInv
    <2>3. item.kind \in Kinds \cup {"none", "error"}
      BY EntriesTyped DEF IInv, ListTypes, NoItem, ErrItem
    <2> QED BY <2>2, <2>3 DEF TypeOK, IInv, HintTypes, ListTypes, MainTypes
  <1> QED BY <1>1, Invariance, PTL

\* A report accounts for every selected file exactly once, and leaves no task that could still
\* change a file or the tracker: finish is called once for each path that select returned.
THEOREM EachIsReportedOnce == Spec => []EveryFileReportedOnce
  <1>1. IInv => EveryFileReportedOnce
    <2> SUFFICES ASSUME IInv, pc = "reported" PROVE EveryFileReportedOnce
      BY DEF EveryFileReportedOnce
    <2>1. Resulted = seen
      BY DEF IInv, JobInv, PathInv, PhaseInv, Ended, Resulted, MainTypes
    <2> QED BY <2>1 DEF EveryFileReportedOnce, IInv, CountInv, PhaseInv, Resulted
  <1> QED BY <1>1, Invariance, PTL

\* Once the run is over and its listing is reported complete, all that was listed was seen.
LEMMA AllSeen ==
  ASSUME IInv, pc = "reported", listingComplete, status # "CANCELLED", NEW i \in 1..Len(Listing)
  PROVE  Listing[i].kind = "skip" \/ Listing[i].path \in seen
  <1>1. producerDone /\ queue = <<>> /\ item = NoItem /\ page = 0
    BY DEF IInv, ListInv, Whole
  <1>2. \A e : InPipe(e) => e = NoItem
    BY <1>1 DEF InPipe
  <1>3. ~InPipe(ErrItem)
    BY <1>2 DEF NoItem, ErrItem
  <1>4. Accounted(i)
    BY <1>1, <1>3 DEF IInv, ListInv, Whole, Listed
  <1>5. Listing[i] # NoItem
    <2>1. Listing[i] \in Entries
      BY DEF Entries
    <2> QED BY <2>1, EntriesTyped DEF NoItem, Kinds
  <1> QED BY <1>2, <1>4, <1>5 DEF Accounted

\* An uninterrupted run that reports its listing as complete has looked at every listed entry:
\* none is lost between the pages, the bounded queue, the two readings of the loop's condition
\* and the pool.
THEOREM NothingIsLost == Spec => []NothingListedIsLost
  <1>1. IInv => NothingListedIsLost
    BY AllSeen DEF NothingListedIsLost
  <1> QED BY <1>1, Invariance, PTL

\* A report that says COMPLETE is true: every file of the listing is in the output and matches
\* its metadata, though the report only compares two counts.
THEOREM CompleteIsTrue == Spec => []CompleteIsComplete
  <1>1. IInv => CompleteIsComplete
    <2> SUFFICES ASSUME IInv, pc = "reported", status = "COMPLETE", NEW i \in 1..Len(Listing)
                 PROVE  Listing[i].kind = "skip" \/ Listing[i].path \in good
      BY DEF CompleteIsComplete
    <2>1. listingComplete /\ \A p \in seen : verdict[p] = "VERIFIED"
      BY DEF IInv, DoneInv
    <2>2. Listing[i].kind = "skip" \/ Listing[i].path \in seen
      BY <2>1, AllSeen
    <2> QED BY <2>1, <2>2 DEF IInv, DoneInv, MainTypes
  <1> QED BY <1>1, Invariance, PTL

-----------------------------------------------------------------------------
(* What a step does with the tracker file.                                  *)

LEMMA SavedHint ==
  ASSUME NEW p \in Paths, NEW e, NEW q, Save(e, q)
  PROVE  exc'[p] = e[p] /\ diskExc'[p] \in {diskExc[p], exc'[p]}
  BY DEF Save, durable

LEMMA FinishedHint ==
  ASSUME IInv, NEW p \in Paths, NEW q \in Paths, NEW s \in Verdicts, Finish(q, s),
         active[q] # NoHint, s = "VERIFIED" => q \in good
  PROVE  /\ Stays(p) \/ Finishes(p)
         /\ diskExc'[p] \in {diskExc[p], exc'[p]}
         /\ verdict[p] = "PENDING" => verdict'[p] = "PENDING"
  <1> USE DEF IInv
  <1>1. diskExc'[p] \in {diskExc[p], exc'[p]}
    BY SavedHint DEF Finish
  <1>2. CASE p = q
    <2>1. /\ active'[p] = NoHint /\ verdict'[p] = s /\ exc'[p] = Kept(s, active[p].retries)
      BY <1>2 DEF Finish, Save, HintTypes, MainTypes
    <2>2. verdict[p] = "none"
      BY <1>2 DEF JobInv, PathInv
    <2> QED BY <1>1, <1>2, <2>1, <2>2 DEF Finishes
  <1>3. CASE p # q
    <2>1. active'[p] = active[p] /\ verdict'[p] = verdict[p] /\ exc'[p] = exc[p]
      BY <1>3 DEF Finish, Save, HintTypes, MainTypes
    <2> QED BY <1>1, <2>1 DEF Stays
  <1> QED BY <1>2, <1>3

LEMMA HintStep ==
  ASSUME IInv, HintInv, [Next]_vars, NEW p \in Paths
  PROVE  InRun(p) \/ Restarts(p)
  <1> USE DEF IInv
  <1>still. ASSUME UNCHANGED <<exc, diskExc, active, retryFailed>>, good \subseteq good', stop => stop',
                   verdict[p] = "PENDING" => verdict'[p] = "PENDING"
            PROVE  InRun(p)
    BY <1>still DEF InRun, Stays
  <1>1. CASE UNCHANGED vars
    BY <1>1, <1>still DEF vars, hints, results
  <1>2. CASE Moving \/ Submit \/ Shutdown \/ PoolEnds \/ Interrupt
    BY <1>2, <1>still DEF Moving, Loop1, Loop2, Filled, Waited, JoinProducer, Submit, Shutdown,
                          PoolEnds, Interrupt, results, hints, MainOnly
  <1>3. CASE Take
    <2> DEFINE entry == Head(queue)
    <2>0. UNCHANGED <<good, retryFailed, stop>>
      BY <1>3 DEF Take, MainOnly
    <2>1. CASE UNCHANGED <<hints, pc, path, seen, chosen, results>>
      BY <2>0, <2>1, <1>still DEF results, hints
    <2>2. CASE entry.kind = "file" /\ Select(entry.path) /\ UNCHANGED <<verdict, total>>
      <3>1. entry \in Entries /\ entry.path \in Paths
        BY <1>3, <2>2, NewEntry DEF Take
      <3>2. CASE p = entry.path
        <4>1. active'[p] = Fresh(exc[p])
          BY <2>2, <3>2 DEF Select, HintTypes
        <4>2. /\ exc'[p] = IF exc[p].old THEN NoHint ELSE exc[p]
              /\ diskExc'[p] \in {diskExc[p], exc'[p]}
          <5>1. CASE exc[p].old
            BY <2>2, <3>2, <5>1 DEF Select, Save, durable, HintTypes
          <5>2. CASE ~exc[p].old
            BY <2>2, <3>2, <5>2 DEF Select, hints
          <5> QED BY <5>1, <5>2
        <4> QED BY <2>0, <2>2, <3>1, <3>2, <4>1, <4>2 DEF InRun, Selects
      <3>3. CASE p # entry.path
        <4>1. active'[p] = active[p]
          BY <2>2, <3>3 DEF Select, HintTypes
        <4>2. exc'[p] = exc[p] /\ diskExc'[p] \in {diskExc[p], exc'[p]}
          <5>1. CASE exc[entry.path].old
            BY <2>2, <3>3, <5>1 DEF Select, Save, durable, HintTypes
          <5>2. CASE ~exc[entry.path].old
            BY <2>2, <3>3, <5>2 DEF Select, hints
          <5> QED BY <5>1, <5>2
        <4> QED BY <2>0, <2>2, <4>1, <4>2 DEF InRun, Stays
      <3> QED BY <3>2, <3>3
    <2>3. CASE /\ entry.path \notin seen /\ entry.kind = "invalid"
               /\ verdict' = [verdict EXCEPT ![entry.path] = "FAILED"]
               /\ Save([exc EXCEPT ![entry.path] = Kept("FAILED", 0)], pages)
               /\ UNCHANGED active
      <3>1. entry \in Entries /\ entry.path \in Paths
        BY <1>3, <2>3, NewEntry DEF Take
      <3>2. diskExc'[p] \in {diskExc[p], exc'[p]}
        BY <2>3, SavedHint
      <3>3. CASE p = entry.path
        <4>1. exc'[p] = Kept("FAILED", 0)
          BY <2>3, <3>3 DEF Save, HintTypes
        <4>2. active'[p] = NoHint /\ verdict[p] = "none"
          BY <2>3, <3>3 DEF JobInv, PathInv
        <4>3. Invalid(p)
          BY <2>3, <3>1, <3>3 DEF Invalid
        <4> QED BY <2>0, <3>2, <4>1, <4>2, <4>3 DEF InRun, Rejects
      <3>4. CASE p # entry.path
        <4>1. exc'[p] = exc[p] /\ active'[p] = active[p] /\ verdict'[p] = verdict[p]
          BY <2>3, <3>4 DEF Save, HintTypes, MainTypes
        <4> QED BY <2>0, <3>2, <4>1 DEF InRun, Stays
      <3> QED BY <3>3, <3>4
    <2> QED BY <1>3, <2>1, <2>2, <2>3 DEF Take
  <1>4. CASE Report
    <2>1. /\ active'[p] = NoHint /\ UNCHANGED <<good, retryFailed, stop>>
          /\ verdict'[p] = IF active[p] # NoHint THEN "PENDING" ELSE verdict[p]
          /\ diskExc'[p] \in {diskExc[p], exc'[p]}
      BY <1>4, SavedHint DEF Report
    <2>2. exc'[p] = IF active[p] # NoHint THEN Kept("PENDING", active[p].retries) ELSE exc[p]
      BY <1>4 DEF Report, Save
    <2> QED BY <2>1, <2>2 DEF InRun, Stays, Finishes, Verdicts
  <1>5. ASSUME NEW q \in Paths, Reap(q) PROVE InRun(p)
    BY <1>5, <1>still DEF Reap, results, hints, MainOnly
  <1>6. ASSUME NEW q \in Paths, CancelQueued(q) PROVE InRun(p)
    <2>1. UNCHANGED <<good, retryFailed, stop>>
      BY <1>6 DEF CancelQueued, MainOnly
    <2>2. CASE job[q] = "queued"
      <3>1. active[q] # NoHint
        BY <2>2 DEF JobInv, PathInv
      <3> QED BY <1>6, <2>1, <2>2, <3>1, FinishedHint DEF CancelQueued, InRun, Verdicts
    <2>3. CASE job[q] # "queued"
      BY <1>6, <2>1, <2>3, <1>still DEF CancelQueued, hints, results
    <2> QED BY <2>2, <2>3
  <1>7. CASE Producer
    <2>1. UNCHANGED <<active, verdict, good, stop, retryFailed>>
      BY <1>7, ProducerLeaves
    <2>2. exc'[p] = exc[p] /\ diskExc'[p] \in {diskExc[p], exc'[p]}
      BY <1>7 DEF Producer, ResetPages, ListPage, PageFails, ListingFails, Put, ProducerEnds, Save,
                  hints, durable
    <2> QED BY <2>1, <2>2 DEF InRun, Stays
  <1>8. ASSUME NEW q \in Paths, Start(q) PROVE InRun(p)
    <2>1. UNCHANGED <<good, retryFailed, stop, exc, diskExc, verdict>>
      BY <1>8 DEF Start, WorkerOnly, hints
    <2>2. CASE UNCHANGED active
      BY <2>1, <2>2, <1>still
    <2>3. CASE /\ ~(Isolated(active[q]) /\ ~retryFailed)
               /\ active' = [active EXCEPT ![q] =
                    [@ EXCEPT !.status = "DOWNLOADING",
                              !.retries = IF Isolated(active[q]) THEN 0 ELSE active[q].retries]]
      <3>1. CASE p # q
        BY <2>1, <2>3, <3>1 DEF InRun, Stays, HintTypes
      <3>2. CASE p = q
        <4>1. active[p] # NoHint
          BY <1>8, <3>2 DEF Start, JobInv, PathInv
        <4>2. active'[p] = [active[p] EXCEPT !.status = "DOWNLOADING",
                              !.retries = IF Isolated(active[p]) THEN 0 ELSE active[p].retries]
          BY <2>3, <3>2 DEF HintTypes
        <4>3. active[p] \in Hints /\ ~active[p].old
          BY DEF HintTypes, HintInv
        <4>4. /\ active'[p].status = "DOWNLOADING" /\ ~active'[p].old
              /\ active'[p].retries = IF Isolated(active[p]) THEN 0 ELSE active[p].retries
          BY <4>2, <4>3 DEF Hints
        <4> QED BY <2>1, <2>3, <3>2, <4>1, <4>4 DEF InRun, Begins
      <3> QED BY <3>1, <3>2
    <2> QED BY <1>8, <2>2, <2>3 DEF Start
  <1>9. ASSUME NEW q \in Paths, Retry(q) \/ RetryRefused(q) PROVE InRun(p)
    <2>1. UNCHANGED <<good, retryFailed, stop, verdict>> /\ active[q] # NoHint
      BY <1>9 DEF Retry, RetryRefused, WorkerOnly, results, Alive
    <2>2. diskExc'[p] \in {diskExc[p], exc'[p]}
      BY <1>9, SavedHint DEF Retry, RetryRefused
    <2>3. CASE p # q
      <3>1. exc'[p] = exc[p] /\ active'[p] = active[p]
        BY <1>9, <2>3 DEF Retry, RetryRefused, Save, HintTypes, results
      <3> QED BY <2>1, <2>2, <3>1 DEF InRun, Stays
    <2>4. CASE p = q
      <3>1. active[p] \in Hints /\ ~active[p].old /\ active[p].retries \in Nat
        BY ConstantsOK DEF HintTypes, HintInv, Hints
      <3>2. exc'[p] = active'[p]
        BY <1>9, <2>4 DEF Retry, RetryRefused, Save, HintTypes, results
      <3>3. active'[p] = active[p] \/ active'[p] = [active[p] EXCEPT !.retries = @ + 1]
        BY <1>9, <2>4 DEF Retry, RetryRefused, HintTypes, results
      <3>4. /\ ~active'[p].old /\ active'[p].status = active[p].status
            /\ active'[p].retries >= active[p].retries
        BY <3>1, <3>3 DEF Hints
      <3> QED BY <2>1, <2>2, <2>4, <3>2, <3>4 DEF InRun, Retries
    <2> QED BY <2>3, <2>4
  <1>10. ASSUME NEW q \in Paths, Publish(q) PROVE InRun(p)
    BY <1>10, <1>still DEF Publish, WorkerOnly, hints, results
  <1>11. ASSUME NEW q \in Paths, Ending(q) PROVE InRun(p)
    <2>1. PICK s \in Verdicts, how \in {"returned", "raised"} :
            End(q, s, how) /\ (s = "VERIFIED" => q \in good)
      BY <1>11, EndingEnds
    <2>2. active[q] # NoHint
      BY <1>11, EndingEnds DEF Alive
    <2> QED BY <2>1, <2>2, FinishedHint DEF End, WorkerOnly, InRun
  <1>12. CASE Crash
    BY <1>12 DEF Crash, Forget, durable, Restarts
  <1>13. CASE NewRun
    <2>1. PICK changed \in SUBSET Paths :
            diskExc' = [q \in Paths |-> IF q \in changed /\ diskExc[q] # NoHint
                                       THEN [diskExc[q] EXCEPT !.old = TRUE] ELSE diskExc[q]]
      BY <1>13 DEF NewRun
    <2>2. diskExc'[p].status = diskExc[p].status /\ diskExc'[p].retries = diskExc[p].retries
      BY <2>1 DEF HintTypes, Hints
    <2>3. active'[p] = NoHint /\ exc'[p] = Loaded(diskExc'[p])
      BY <1>13 DEF NewRun, Forget
    <2> QED BY <2>2, <2>3 DEF Restarts
  <1> QED BY <1>1, <1>2, <1>3, <1>4, <1>5, <1>6, <1>7, <1>8, <1>9, <1>10, <1>11, <1>12, <1>13, Steps

\* A run works with hints that fit, and knows which on disk do not.
LEMMA HintInvStep == ASSUME IInv, HintInv, [Next]_vars PROVE HintInv'
  <1> SUFFICES ASSUME NEW p \in Paths
               PROVE  /\ exc'[p].old => diskExc'[p].old
                      /\ ~active'[p].old /\ (active'[p] # NoHint => active'[p].status # "none")
    BY DEF HintInv
  <1> USE DEF HintInv, NoHint
  <1>1. exc[p] \in Hints /\ active[p] \in Hints
    BY DEF IInv, HintTypes
  <1>2. CASE InRun(p)
    <2>1. ~active'[p].old /\ (active'[p] # NoHint => active'[p].status # "none")
      BY <1>1, <1>2 DEF InRun, Stays, Selects, Rejects, Begins, Retries, Finishes, Fresh
    <2>2. exc'[p] = exc[p] \/ ~exc'[p].old
      BY <1>2, <2>1 DEF InRun, Stays, Selects, Rejects, Begins, Retries, Finishes, Kept
    <2> QED BY <1>2, <2>1, <2>2 DEF InRun
  <1>3. CASE Restarts(p)
    <2>1. diskExc' [p] \in Hints
      BY HintTypesStep DEF HintTypes
    <2>2. exc'[p].old => diskExc'[p].old
      BY <1>3, <2>1 DEF Restarts, Loaded, Hints
    <2> QED BY <1>3, <2>2 DEF Restarts
  <1> QED BY <1>2, <1>3, HintStep

LEMMA Durability == Spec => [](IInv /\ HintInv)
  BY InitHolds, IInvStep, HintInvStep, PTL DEF Spec

-----------------------------------------------------------------------------
(* The budget.                                                              *)

\* The retries that memory and the tracker file may disagree on.
Spent(p) == exc'[p].retries >= diskExc[p].retries \/ p \in good' \/ retryFailed \/ diskExc[p].old

LEMMA BudgetStep ==
  ASSUME OneKind, IInv, HintInv, BudgetInv, [Next]_vars, NEW p \in Paths
  PROVE  /\ InRun(p) => Spent(p)
         /\ exc'[p].status = "none" => exc'[p].retries = 0
         /\ diskExc'[p].status = "none" => diskExc'[p].retries = 0
         /\ exc'[p].retries >= diskExc'[p].retries \/ p \in good' \/ retryFailed' \/ diskExc'[p].old
         /\ active'[p] # NoHint => active'[p].retries >= exc'[p].retries \/ p \in good' \/ retryFailed'
         /\ Invalid(p) => exc'[p].retries = 0 /\ diskExc'[p].retries = 0 /\ active'[p] = NoHint
  <1>types. /\ exc[p].retries \in Nat /\ diskExc[p].retries \in Nat /\ active[p].retries \in Nat
            /\ exc'[p].retries \in Nat /\ diskExc'[p].retries \in Nat /\ active'[p].retries \in Nat
            /\ exc[p] \in Hints /\ active[p] \in Hints /\ diskExc'[p] \in Hints
    <2>1. HintTypes /\ HintTypes'
      BY HintTypesStep DEF IInv
    <2>2. \A h \in Hints : h.retries \in Nat
      BY ConstantsOK DEF Hints
    <2> QED BY <2>1, <2>2 DEF HintTypes
  <1>now. /\ exc[p].status = "none" => exc[p].retries = 0
          /\ diskExc[p].status = "none" => diskExc[p].retries = 0
          /\ exc[p].old => diskExc[p].old
          /\ exc[p].retries >= diskExc[p].retries \/ p \in good \/ retryFailed \/ diskExc[p].old
          /\ active[p] # NoHint => active[p].retries >= exc[p].retries \/ p \in good \/ retryFailed
          /\ Invalid(p) => exc[p].retries = 0 /\ diskExc[p].retries = 0 /\ active[p] = NoHint
          /\ active[p] # NoHint => active[p].status # "none"
    BY DEF BudgetInv, HintInv
  <1>1. CASE InRun(p)
    <2>1. good \subseteq good' /\ retryFailed' = retryFailed /\ diskExc'[p] \in {diskExc[p], exc'[p]}
      BY <1>1 DEF InRun
    \* It is enough to look at memory: the tracker file is as it was or follows it.
    <2>2. ASSUME Spent(p), exc'[p].status = "none" => exc'[p].retries = 0,
                 active'[p] # NoHint => active'[p].retries >= exc'[p].retries \/ p \in good' \/ retryFailed,
                 Invalid(p) => exc'[p].retries = 0 /\ active'[p] = NoHint
          PROVE  /\ Spent(p)
                 /\ exc'[p].status = "none" => exc'[p].retries = 0
                 /\ diskExc'[p].status = "none" => diskExc'[p].retries = 0
                 /\ exc'[p].retries >= diskExc'[p].retries \/ p \in good' \/ retryFailed' \/ diskExc'[p].old
                 /\ active'[p] # NoHint => active'[p].retries >= exc'[p].retries \/ p \in good' \/ retryFailed'
                 /\ Invalid(p) => exc'[p].retries = 0 /\ diskExc'[p].retries = 0 /\ active'[p] = NoHint
      <3>1. CASE diskExc'[p] = diskExc[p]
        BY <1>now, <2>1, <2>2, <3>1 DEF Spent
      <3>2. CASE diskExc'[p] = exc'[p]
        BY <1>types, <2>1, <2>2, <3>2
      <3> QED BY <2>1, <3>1, <3>2
    <2>3. CASE Stays(p)
      BY <1>now, <2>1, <2>2, <2>3 DEF Stays, Spent
    <2>4. CASE Selects(p)
      <3>1. ~Invalid(p)
        BY <2>4 DEF Selects, Invalid, OneKind
      <3>2. exc'[p].status = "none" => exc'[p].retries = 0
        BY <1>now, <2>4 DEF Selects, NoHint
      <3>3. Spent(p)
        BY <1>now, <2>1, <2>4 DEF Selects, Spent
      <3>4. active'[p].retries >= exc'[p].retries
        <4>1. CASE exc[p].old
          BY <1>types, <2>4, <4>1 DEF Selects, NoHint, Fresh
        <4>2. CASE ~exc[p].old /\ exc[p].status = "none"
          BY <1>types, <1>now, <2>4, <4>2 DEF Selects, Fresh
        <4>3. CASE ~exc[p].old /\ exc[p].status # "none"
          BY <1>types, <2>4, <4>3 DEF Selects, Fresh
        <4> QED BY <4>1, <4>2, <4>3
      <3> QED BY <2>2, <3>1, <3>2, <3>3, <3>4
    <2>5. CASE Rejects(p)
      <3>1. exc'[p].retries = 0 /\ diskExc[p].retries = 0
        BY <1>now, <2>5 DEF Rejects, Kept, NoHint
      <3> QED BY <2>2, <2>5, <3>1 DEF Rejects, Spent
    <2>6. CASE Begins(p)
      <3>1. active'[p].retries = active[p].retries \/ retryFailed
        BY <2>6 DEF Begins
      <3> QED BY <1>now, <2>1, <2>2, <2>6, <3>1 DEF Begins, Spent
    <2>7. CASE Retries(p)
      <3>1. ~Invalid(p)
        BY <1>now, <2>7 DEF Retries
      <3>2. exc'[p].status # "none"
        BY <1>now, <2>7 DEF Retries
      <3>3. Spent(p)
        BY <1>types, <1>now, <2>1, <2>7 DEF Retries, Spent
      <3>4. active'[p].retries >= exc'[p].retries
        BY <1>types, <2>7 DEF Retries
      <3> QED BY <2>2, <3>1, <3>2, <3>3, <3>4
    <2>8. CASE Finishes(p)
      <3>1. ~Invalid(p) /\ active'[p] = NoHint
        BY <1>now, <2>8 DEF Finishes
      <3>2. exc'[p].status = "none" => exc'[p].retries = 0
        BY <2>8 DEF Finishes, Kept, NoHint, Verdicts, Isolating
      <3>3. verdict'[p] = "VERIFIED" \/ exc'[p].retries = active[p].retries
        BY <1>types, <2>8 DEF Finishes, Kept, Keep, NoHint, Verdicts
      <3>4. Spent(p)
        BY <1>types, <1>now, <2>1, <2>8, <3>3 DEF Finishes, Spent
      <3> QED BY <2>2, <3>1, <3>2, <3>4
    <2> QED BY <1>1, <2>3, <2>4, <2>5, <2>6, <2>7, <2>8 DEF InRun
  <1>2. CASE Restarts(p)
    <2>1. /\ exc'[p].retries = diskExc'[p].retries
          /\ exc'[p].status = "none" => diskExc'[p].status = "none"
      BY <1>2, <1>types DEF Restarts, Loaded, Hints
    <2>2. active'[p] = NoHint /\ diskExc'[p].retries = diskExc[p].retries
          /\ diskExc'[p].status = diskExc[p].status
      BY <1>2 DEF Restarts
    <2>3. InRun(p) => Spent(p)
      BY <1>types, <2>1, <2>2 DEF Spent
    <2> QED BY <1>types, <1>now, <2>1, <2>2, <2>3
  <1> QED BY <1>1, <1>2, HintStep

\* The tracker file never forgets retries that were spent, over interrupts, crashes and runs,
\* whether or not each save succeeds, unless the file was verified, changed in the repository,
\* or the operator asked for a new attempt.
THEOREM BudgetIsKept == ASSUME OneKind PROVE Spec => BudgetIsDurable
  <1>1. IInv /\ HintInv /\ BudgetInv /\ [Next]_vars => BudgetInv'
    BY BudgetStep DEF BudgetInv
  <1>2. ASSUME IInv, HintInv, BudgetInv, [Next]_vars
        PROVE  [\A p \in Paths : \/ diskExc'[p].retries >= diskExc[p].retries
                                 \/ p \in good' \/ retryFailed \/ diskExc[p].old]_vars
    <2> SUFFICES ASSUME NEW p \in Paths
                 PROVE  \/ diskExc'[p].retries >= diskExc[p].retries
                        \/ p \in good' \/ retryFailed \/ diskExc[p].old
      OBVIOUS
    <2>1. diskExc[p].retries \in Nat
      BY <1>2, ConstantsOK DEF IInv, HintTypes, Hints
    <2>2. CASE InRun(p)
      BY <1>2, <2>1, <2>2, BudgetStep DEF InRun, Spent
    <2>3. CASE Restarts(p)
      BY <2>1, <2>3 DEF Restarts
    <2> QED BY <1>2, <2>2, <2>3, HintStep
  <1>3. Init => BudgetInv
    BY InitHolds
  <1> QED BY <1>1, <1>2, <1>3, Durability, PTL DEF Spec, BudgetIsDurable

-----------------------------------------------------------------------------
(* Isolation.                                                               *)

\* How isolation may end.
Excused(p) == stop \/ p \in good' \/ retryFailed \/ diskExc[p].old \/ verdict'[p] = "PENDING"

LEMMA IsolationStep ==
  ASSUME IInv, HintInv, IsolationInv, [Next]_vars, NEW p \in Paths
  PROVE  /\ InRun(p) => (Isolated(diskExc[p]) /\ ~Isolated(exc'[p]) => Excused(p))
         /\ Isolated(diskExc'[p]) /\ ~Isolated(exc'[p]) =>
              stop' \/ p \in good' \/ retryFailed' \/ diskExc'[p].old \/ verdict'[p] = "PENDING"
         /\ active'[p] # NoHint /\ Isolated(exc'[p]) => Isolated(active'[p]) \/ stop' \/ retryFailed'
  <1>now. /\ exc[p].old => diskExc[p].old
          /\ Isolated(diskExc[p]) /\ ~Isolated(exc[p]) =>
               stop \/ p \in good \/ retryFailed \/ diskExc[p].old \/ verdict[p] = "PENDING"
          /\ active[p] # NoHint /\ Isolated(exc[p]) => Isolated(active[p]) \/ stop \/ retryFailed
    BY DEF IsolationInv, HintInv
  <1>1. CASE InRun(p)
    <2>1. /\ good \subseteq good' /\ retryFailed' = retryFailed /\ (stop => stop')
          /\ diskExc'[p] \in {diskExc[p], exc'[p]} /\ (verdict[p] = "PENDING" => verdict'[p] = "PENDING")
      BY <1>1 DEF InRun
    <2>2. /\ Isolated(diskExc[p]) /\ ~Isolated(exc'[p]) => Excused(p)
          /\ active'[p] # NoHint /\ Isolated(exc'[p]) => Isolated(active'[p]) \/ stop \/ retryFailed
      <3>1. CASE Stays(p)
        BY <1>now, <2>1, <3>1 DEF Stays, Excused
      <3>2. CASE Selects(p)
        BY <1>now, <2>1, <3>2 DEF Selects, Excused, Fresh, Isolated, Isolating, NoHint
      <3>3. CASE Rejects(p)
        BY <3>3 DEF Rejects, Kept, Keep, Isolated, Isolating
      <3>4. CASE Begins(p)
        <4>1. Isolated(exc[p]) <=> Isolated(exc'[p])
          BY <3>4 DEF Begins
        <4>2. Isolated(exc[p]) => stop \/ retryFailed
          BY <1>now, <3>4 DEF Begins
        <4> QED BY <1>now, <2>1, <4>1, <4>2 DEF Excused
      <3>5. CASE Retries(p)
        <4>1. Isolated(exc'[p]) <=> Isolated(active[p])
          BY <3>5 DEF Retries, Isolated
        <4> QED BY <1>now, <2>1, <3>5, <4>1 DEF Retries, Excused
      <3>6. CASE Finishes(p)
        <4>1. Isolated(exc'[p]) \/ p \in good \/ verdict'[p] = "PENDING"
          BY <3>6 DEF Finishes, Kept, Keep, Isolated, Verdicts
        <4> QED BY <2>1, <3>6, <4>1 DEF Finishes, Excused
      <3> QED BY <1>1, <3>1, <3>2, <3>3, <3>4, <3>5, <3>6 DEF InRun
    <2>3. CASE diskExc'[p] = diskExc[p]
      BY <2>1, <2>2, <2>3 DEF Excused
    <2>4. CASE diskExc'[p] = exc'[p]
      BY <2>1, <2>2, <2>4
    <2> QED BY <2>1, <2>3, <2>4
  <1>2. CASE Restarts(p)
    <2>1. diskExc'[p] \in Hints
      BY HintTypesStep DEF IInv, HintTypes
    <2>2. Isolated(diskExc'[p]) => Isolated(exc'[p])
      BY <1>2, <2>1 DEF Restarts, Loaded, Hints, Isolated, Isolating
    <2>3. (Isolated(diskExc'[p]) <=> Isolated(diskExc[p])) /\ active'[p] = NoHint
      BY <1>2 DEF Restarts, Isolated
    <2> QED BY <2>2, <2>3
  <1> QED BY <1>1, <1>2, HintStep

\* While a run is not stopped, an isolated file stays isolated in the tracker file unless it is
\* verified, changed, tried again on request, or out of time: no other step of the run, and no
\* later run, takes it off the list.
THEOREM IsolationIsKept == Spec => IsolatedWhileRunning
  <1>1. IInv /\ HintInv /\ IsolationInv /\ [Next]_vars => IsolationInv'
    BY IsolationStep DEF IsolationInv
  <1>2. ASSUME IInv, HintInv, IsolationInv, [Next]_vars
        PROVE  [\A p \in Paths : Isolated(diskExc[p]) /\ ~Isolated(diskExc'[p]) =>
                  stop \/ p \in good' \/ retryFailed \/ diskExc[p].old \/ verdict'[p] = "PENDING"]_vars
    <2> SUFFICES ASSUME NEW p \in Paths, Isolated(diskExc[p]), ~Isolated(diskExc'[p])
                 PROVE  stop \/ p \in good' \/ retryFailed \/ diskExc[p].old \/ verdict'[p] = "PENDING"
      OBVIOUS
    <2>1. CASE InRun(p)
      BY <1>2, <2>1, IsolationStep DEF InRun, Excused
    <2>2. CASE Restarts(p)
      BY <2>2 DEF Restarts, Isolated
    <2> QED BY <1>2, <2>1, <2>2, HintStep
  <1>3. Init => IsolationInv
    BY InitHolds
  <1> QED BY <1>1, <1>2, <1>3, Durability, PTL DEF Spec, IsolatedWhileRunning
===============================================================================
