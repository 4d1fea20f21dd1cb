---------------------------- MODULE WireProgress ----------------------------
(***************************************************************************)
(* The progress events of upload_folder (_upload.py).  The upload workers   *)
(* count the bytes that moved and emit an event when the throttle allows    *)
(* one; the committing thread flushes what the throttle holds before it     *)
(* reports a batch.  The counters are kept under wire_lock, the callback is *)
(* called outside of it.  Every transfer here succeeds.                     *)
(***************************************************************************)
EXTENDS Integers, Sequences, FiniteSets, SequencesExt

CONSTANTS
  Files,       \* files to upload
  BatchOf,     \* [Files -> 1..NumBatches]
  NumBatches,
  Moved,       \* [Files -> Nat], bytes that go to object storage
  Throttles    \* FALSE: UPLOAD_PROGRESS_MIN_INTERVAL_SECONDS is 0; TRUE: it is not

ConstantsOK ==
  /\ IsFiniteSet(Files) /\ NumBatches \in Nat
  /\ BatchOf \in [Files -> 1..NumBatches] /\ Moved \in [Files -> Nat]
  /\ Throttles \subseteq BOOLEAN

VARIABLES
  throttled,   \* whether events may be held back
  job,         \* of each file: "upload", "recorded", "emit", "done"
  held,        \* of each file: the event its worker is about to emit
  recorded,    \* files in BatchTracker's results
  bytes, files, reported,  \* wire_state
  pc, batch,   \* the committing thread, and the batch it works on
  flush,       \* the event it is about to emit
  events       \* what the callback received

wire == <<bytes, files, reported>>
vars == <<throttled, job, held, recorded, wire, pc, batch, flush, events>>

NoEvent == [event |-> "none", bytes |-> 0, files |-> 0, delta |-> 0]
Progress(b, n, d) == [event |-> "upload_progress", bytes |-> b, files |-> n, delta |-> d]
Committed(b, n)   == [event |-> "batch_committed", bytes |-> b, files |-> n, delta |-> 0]

Init ==
  /\ throttled \in Throttles
  /\ job = [f \in Files |-> "upload"] /\ held = [f \in Files |-> NoEvent]
  /\ recorded = {} /\ bytes = 0 /\ files = 0 /\ reported = 0
  /\ pc = "wait" /\ batch = 1 /\ flush = NoEvent /\ events = <<>>

\* The transfer of f ends: its batch may be complete from here on.
Record(f) ==
  /\ job[f] = "upload"
  /\ job' = [job EXCEPT ![f] = "recorded"]
  /\ recorded' = recorded \cup {f}
  /\ UNCHANGED <<throttled, held, wire, pc, batch, flush, events>>

\* _report_wire under the lock: the file is counted, and the event taken if it is due.
\* (Mutant: what the event reports is not marked as reported.)
CountUnmarked(f) ==
  /\ job[f] = "recorded"
  /\ bytes' = bytes + Moved[f] /\ files' = files + 1
  /\ \/ /\ throttled
        /\ job' = [job EXCEPT ![f] = "done"] /\ UNCHANGED <<held, reported>>
     \/ /\ job' = [job EXCEPT ![f] = "emit"]
        /\ held' = [held EXCEPT ![f] = Progress(bytes', files', bytes' - reported)]
        /\ UNCHANGED reported
  /\ UNCHANGED <<throttled, recorded, pc, batch, flush, events>>

Count(f) ==
  /\ job[f] = "recorded"
  /\ bytes' = bytes + Moved[f] /\ files' = files + 1
  /\ \/ /\ throttled
        /\ job' = [job EXCEPT ![f] = "done"] /\ UNCHANGED <<held, reported>>
     \/ /\ job' = [job EXCEPT ![f] = "emit"]
        /\ held' = [held EXCEPT ![f] = Progress(bytes', files', bytes' - reported)]
        /\ reported' = bytes'
  /\ UNCHANGED <<throttled, recorded, pc, batch, flush, events>>

Emit(f) ==
  /\ job[f] = "emit"
  /\ events' = Append(events, held[f])
  /\ job' = [job EXCEPT ![f] = "done"] /\ held' = [held EXCEPT ![f] = NoEvent]
  /\ UNCHANGED <<throttled, recorded, wire, pc, batch, flush>>

Worker(f) == Record(f) \/ Count(f) \/ Emit(f)

-----------------------------------------------------------------------------
\* wait_for_batch, then _flush_wire under the lock.
Flush ==
  /\ pc = "wait" /\ batch <= NumBatches
  /\ {f \in Files : BatchOf[f] = batch} \subseteq recorded
  /\ IF bytes > reported
       THEN /\ flush' = Progress(bytes, files, bytes - reported)
            /\ reported' = bytes /\ pc' = "flush"
       ELSE UNCHANGED <<flush, reported>> /\ pc' = "commit"
  /\ UNCHANGED <<throttled, job, held, recorded, bytes, files, batch, events>>

EmitFlush ==
  /\ pc = "flush"
  /\ events' = Append(events, flush) /\ flush' = NoEvent /\ pc' = "commit"
  /\ UNCHANGED <<throttled, job, held, recorded, wire, batch>>

\* The batch is committed and reported, with the counters read under the lock.
ReportBatch ==
  /\ pc = "commit"
  /\ events' = Append(events, Committed(bytes, files))
  /\ batch' = batch + 1 /\ pc' = "wait"
  /\ UNCHANGED <<throttled, job, held, recorded, wire, flush>>

\* The pool is shut down once every batch is committed, and the upload returns.
Finish ==
  /\ pc = "wait" /\ batch > NumBatches /\ \A f \in Files : job[f] = "done"
  /\ pc' = "done"
  /\ UNCHANGED <<throttled, job, held, recorded, wire, batch, flush, events>>

Rest == pc = "done" /\ UNCHANGED vars

Next == (\E f \in Files : Worker(f)) \/ Flush \/ EmitFlush \/ ReportBatch \/ Finish \/ Rest

Spec == Init /\ [][Next]_vars

-----------------------------------------------------------------------------
(* Properties                                                               *)

Sum(of, S) == FoldSet(LAMBDA x, sum : of[x] + sum, 0, S)

Delivered == FoldSeq(LAMBDA e, sum : e.delta + sum, 0, events)

\* No byte is announced twice, and none that did not move: what was announced and
\* what is about to be is what the counters say is reported, whoever emits it.
DeltasPartition ==
  /\ reported <= bytes /\ bytes <= Sum(Moved, recorded)
  /\ Delivered + flush.delta + Sum([f \in Files |-> held[f].delta], Files) = reported

\* With no throttle a consumer that sums the deltas has the total at the end,
\* "Deltas partition the total exactly" (tests/test_upload_batching.py).
TotalAnnounced == pc = "done" /\ ~throttled => Delivered = Sum(Moved, Files)

\* "publish the bytes the throttle may still be holding before the commit event
\* reports the batch as done": the bytes of a committed batch were announced.
BatchAnnounced ==
  \A i \in 1..Len(events) : events[i].event = "batch_committed" =>
    LET b == Cardinality({j \in 1..i : events[j].event = "batch_committed"}) IN
    FoldSeq(LAMBDA e, sum : e.delta + sum, 0, SubSeq(events, 1, i)) >=
      Sum(Moved, {f \in Files : BatchOf[f] <= b})
=============================================================================
