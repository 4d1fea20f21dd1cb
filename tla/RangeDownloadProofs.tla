------------------------- MODULE RangeDownloadProofs -------------------------
(* Theorems about RangeDownload, for every size of the file and of its      *)
(* parts, any number of threads, retries, replicas and calls.               *)
EXTENDS RangeDownload, SequenceTheorems, TLAPS

-----------------------------------------------------------------------------
(* The bounds of the parts                                                  *)

\* A product grows with its first factor.
LEMMA Grows ==
  ASSUME NEW a \in Nat, NEW b \in Nat, a <= b, NEW p \in Nat
  PROVE  a * p \in Nat /\ b * p \in Nat /\ a * p <= b * p
<1>1. (b - a) \in Nat
  OBVIOUS
<1>2. (b - a) * p \in Nat /\ a * p \in Nat /\ b * p \in Nat
  BY <1>1
<1>3. b * p = a * p + (b - a) * p
  OBVIOUS
<1>. QED  BY <1>2, <1>3

LEMMA PartsType == Parts \subseteq Nat \ {0}
BY DEF Parts

\* The end of a part is within the file and not before the end of the one before it.
LEMMA BoundType ==
  ASSUME NEW i \in Nat \ {0}
  PROVE  /\ Bound(i) \in Nat /\ Bound(i - 1) \in Nat /\ Bound(i - 1) <= Bound(i)
         /\ Expected(i) \in Nat
         /\ Bound(i - 1) + Expected(i) = Bound(i)
<1>1. FileSize \in Nat /\ PartSize \in Nat
  BY ConstantsOK
<1>2. /\ (i - 1) * PartSize \in Nat /\ i * PartSize \in Nat
      /\ (i - 1) * PartSize <= i * PartSize
  <2>1. i - 1 \in Nat /\ i \in Nat /\ i - 1 <= i
    OBVIOUS
  <2>. QED  BY <1>1, <2>1, Grows
<1>3. Bound(i) \in Nat /\ Bound(i - 1) \in Nat /\ Bound(i - 1) <= Bound(i)
  BY <1>1, <1>2 DEF Bound
<1>. QED  BY <1>3 DEF Expected

LEMMA BoundZero == Bound(0) = 0
BY ConstantsOK DEF Bound

\* The parts end with the file: what follows the last one is no part, every part comes
\* before it, and the end of the last one is the size of the file.
LEMMA LastPart ==
  ASSUME NEW n \in 1..FileSize + 1, n = 1 \/ n - 1 \in Parts, n \notin Parts
  PROVE  /\ Bound(n - 1) = FileSize
         /\ \A i \in Parts : i < n
<1>1. FileSize \in Nat \ {0} /\ PartSize \in Nat \ {0}
  BY ConstantsOK
<1>2. n # 1
  <2>1. 1 \in Parts
    BY <1>1 DEF Parts
  <2>. QED  BY <2>1
<1>3. n - 1 \in 1..FileSize
  BY <1>1, <1>2
<1>4. (n - 1) * PartSize \in Nat /\ FileSize <= (n - 1) * PartSize
  <2>1. CASE n \in 1..FileSize
    <3>1. ~((n - 1) * PartSize < FileSize)
      BY <2>1 DEF Parts
    <3>2. (n - 1) * PartSize \in Nat
      BY <1>1, <1>3, Grows
    <3>. QED  BY <1>1, <3>1, <3>2
  <2>2. CASE n = FileSize + 1
    <3>1. 1 * FileSize <= PartSize * FileSize /\ PartSize * FileSize \in Nat
      BY <1>1, Grows
    <3>2. (n - 1) * PartSize = PartSize * FileSize
      BY <1>1, <2>2
    <3>. QED  BY <1>1, <3>1, <3>2
  <2>. QED  BY <1>1, <2>1, <2>2
<1>5. Bound(n - 1) = FileSize
  BY <1>1, <1>4 DEF Bound
<1>6. ASSUME NEW i \in Parts, n <= i PROVE FALSE
  <2>1. (i - 1) * PartSize < FileSize /\ i \in Nat \ {0}
    BY DEF Parts
  <2>2. (n - 1) * PartSize <= (i - 1) * PartSize /\ (i - 1) * PartSize \in Nat
    <3>1. n - 1 \in Nat /\ i - 1 \in Nat /\ n - 1 <= i - 1
      BY <1>1, <1>6, <2>1
    <3>. QED  BY <1>1, <3>1, Grows
  <2>. QED  BY <1>1, <1>4, <2>1, <2>2
<1>7. \A i \in Parts : i < n
  BY <1>1, <1>6, PartsType
<1>. QED  BY <1>5, <1>7

-----------------------------------------------------------------------------
(* Types                                                                    *)

\* A rejection is counted below its limit as long as the call goes on.
TriesLeft ==
  main \notin Ended => failures.hash < HashTries /\ failures.size < SizeTries

\* The merge has come to a part, or past the last one.
NextInv == next = 1 \/ next - 1 \in Parts

Typed == TypeOK /\ TriesLeft /\ NextInv

LEMMA InitTyped == ASSUME Init PROVE Typed
<1>. USE ConstantsOK DEF ConstantsOK
<1>1. \A i \in Parts : Len(NoParts[i]) <= Expected(i) /\ Expected(i) \in Nat
  BY PartsType, BoundType DEF NoParts
<1>2. NoParts \in [Parts -> Seq(Versions)] /\ Nothing \in [Parts -> Nat]
  BY DEF NoParts, Nothing
<1>3. failures \in [hash : 0..HashTries, size : 0..SizeTries]
  BY DEF Init, NoFailures
<1>4. part \in [Parts -> Seq(Versions)] /\ \A i \in Parts : Len(part[i]) <= Expected(i)
  BY <1>1, <1>2 DEF Init
<1>5. /\ fetched \in [Parts -> Nat] /\ next = 1 /\ next \in 1..FileSize + 1
      /\ main = "attempt" /\ why = "none" /\ call \in 1..MaxCalls
  BY <1>2 DEF Init
<1>6. TriesLeft
  BY DEF Init, TriesLeft, NoFailures
<1>7. /\ hashed \in BOOLEAN /\ late \in BOOLEAN /\ stop \in BOOLEAN
      /\ merged \in Seq(Versions) /\ target \in Seq(Versions)
  <2>1. hashed \in BOOLEAN /\ late \in BOOLEAN /\ stop \in BOOLEAN
    BY Zenon DEF Init
  <2>2. merged = <<>> /\ target = <<>>
    BY DEF Init
  <2>3. <<>> \in Seq(Versions)
    OBVIOUS
  <2>. QED  BY <2>1, <2>2, <2>3
<1>8. /\ worker \in [Parts -> {"idle", "queued", "ok"} \cup Running \cup Errors]
      /\ from \in [Parts -> Versions] /\ tries \in [Parts -> 0..MaxRetries]
  BY DEF Init
<1>. QED  BY <1>3, <1>4, <1>5, <1>6, <1>7, <1>8 DEF Typed, TypeOK, NextInv

\* A step of a thread keeps the types of what it moves.
LEMMA MoveType ==
  ASSUME TypeOK, NEW i \in Parts,
         NEW w \in {"idle", "queued", "ok"} \cup Running \cup Errors, Move(i, w)
  PROVE  /\ worker' \in [Parts -> {"idle", "queued", "ok"} \cup Running \cup Errors]
         /\ from' \in [Parts -> Versions] /\ tries' \in [Parts -> 0..MaxRetries]
BY ConstantsOK DEF TypeOK, Move, Running

LEMMA RetryType ==
  ASSUME TypeOK, NEW i \in Parts, Retry(i)
  PROVE  /\ worker' \in [Parts -> {"idle", "queued", "ok"} \cup Running \cup Errors]
         /\ from' \in [Parts -> Versions] /\ tries' \in [Parts -> 0..MaxRetries]
<1>1. CASE Move(i, "error")
  BY <1>1, MoveType DEF Errors
<1>2. CASE /\ tries[i] < MaxRetries
           /\ worker' = [worker EXCEPT ![i] = "check"] /\ from' = [from EXCEPT ![i] = "new"]
           /\ tries' = [tries EXCEPT ![i] = @ + 1]
  BY <1>2, ConstantsOK DEF TypeOK, Running
<1>. QED  BY <1>1, <1>2 DEF Retry

LEMMA WorkerTyped ==
  ASSUME Typed, NEW i \in Parts, Worker(i)
  PROVE  Typed'
<1>0. /\ UNCHANGED <<hashed, merged, target, call, main, next, why, failures, late, stop>>
  BY DEF Worker, Start, WorkerStops, Check, RequestFails, Respond, Chunk, BodyEnds,
         WorkerOnly, caller
<1>. USE DEF Typed, TriesLeft, NextInv
<1>pool. ASSUME worker' \in [Parts -> {"idle", "queued", "ok"} \cup Running \cup Errors],
                from' \in [Parts -> Versions], tries' \in [Parts -> 0..MaxRetries],
                UNCHANGED <<part, fetched>>
         PROVE  Typed'
  BY <1>0, <1>pool DEF TypeOK
<1>move. ASSUME NEW w \in {"idle", "queued", "ok"} \cup Running \cup Errors, Move(i, w),
                UNCHANGED <<part, fetched>>
         PROVE  Typed'
  BY <1>pool, <1>move, MoveType
<1>retry. ASSUME Retry(i), UNCHANGED <<part, fetched>>
          PROVE  Typed'
  BY <1>pool, <1>retry, RetryType
<1>1. CASE Start(i)
  <2>1. Move(i, "check") /\ UNCHANGED <<part, fetched>>
    BY <1>1 DEF Start
  <2>. QED  BY <1>move, <2>1 DEF Running
<1>2. CASE WorkerStops(i)
  <2>1. Move(i, "stopped") /\ UNCHANGED <<part, fetched>>
    BY <1>2 DEF WorkerStops
  <2>. QED  BY <1>move, <2>1 DEF Errors
<1>3. CASE Check(i)
  <2>1. PICK w \in {"cancelled", "ok", "request"} : Move(i, w)
    BY <1>3 DEF Check
  <2>2. UNCHANGED <<part, fetched>>
    BY <1>3 DEF Check
  <2>. QED  BY <1>move, <2>1, <2>2 DEF Errors, Running
<1>4. CASE RequestFails(i)
  BY <1>4, <1>retry DEF RequestFails
<1>5. CASE Respond(i)
  <2>1. UNCHANGED <<part, fetched>>
    BY <1>5 DEF Respond
  <2>2. CASE \E e \in Wrong \cup {"cancelled"} : Move(i, e)
    BY <1>move, <2>1, <2>2 DEF Errors
  <2>3. CASE /\ worker' = [worker EXCEPT ![i] = "stream"]
             /\ \E v \in Versions : from' = [from EXCEPT ![i] = v]
             /\ UNCHANGED tries
    <3>1. worker' \in [Parts -> {"idle", "queued", "ok"} \cup Running \cup Errors]
      BY <2>3 DEF TypeOK, Running
    <3>2. from' \in [Parts -> Versions] /\ tries' \in [Parts -> 0..MaxRetries]
      BY <2>3 DEF TypeOK
    <3>. QED  BY <1>pool, <2>1, <3>1, <3>2
  <2>. QED  BY <1>5, <2>2, <2>3 DEF Respond
<1>6. CASE Chunk(i)
  <2>1. CASE Len(part[i]) = Expected(i)
    <3>1. Move(i, "size") /\ UNCHANGED <<part, fetched>>
      BY <1>6, <2>1 DEF Chunk
    <3>. QED  BY <1>move, <3>1 DEF Errors, Wrong
  <2>2. CASE Len(part[i]) # Expected(i)
    <3>1. /\ part' = [part EXCEPT ![i] = Append(part[i], from[i])]
          /\ fetched' = [fetched EXCEPT ![i] = fetched[i] + 1]
          /\ UNCHANGED <<worker, from, tries>>
      BY <1>6, <2>2 DEF Chunk
    <3>2. part[i] \in Seq(Versions) /\ from[i] \in Versions /\ Expected(i) \in Nat
      BY PartsType, BoundType DEF TypeOK
    <3>3. /\ Append(part[i], from[i]) \in Seq(Versions)
          /\ Len(Append(part[i], from[i])) = Len(part[i]) + 1 /\ Len(part[i]) \in Nat
      BY <3>2
    <3>4. part' \in [Parts -> Seq(Versions)] /\ fetched' \in [Parts -> Nat]
      BY <3>1, <3>3 DEF TypeOK
    <3>5. \A j \in Parts : Len(part'[j]) <= Expected(j)
      BY <2>2, <3>1, <3>2, <3>3 DEF TypeOK
    <3>. QED  BY <1>0, <3>1, <3>4, <3>5 DEF TypeOK
  <2>. QED  BY <2>1, <2>2
<1>7. CASE BodyEnds(i)
  <2>1. UNCHANGED <<part, fetched>>
    BY <1>7 DEF BodyEnds
  <2>2. CASE Retry(i)
    BY <1>retry, <2>1, <2>2
  <2>3. CASE Move(i, "ok") \/ Move(i, "cancelled")
    BY <1>move, <2>1, <2>3 DEF Errors
  <2>. QED  BY <1>7, <2>2, <2>3 DEF BodyEnds
<1>. QED  BY <1>1, <1>2, <1>3, <1>4, <1>5, <1>6, <1>7 DEF Worker

\* Where a call may go when it leaves an attempt.
LEMMA LeaveTyped ==
  ASSUME Typed, NEW where \in {"attempt"} \cup Ended, Leave(where),
         part' \in {part, NoParts}, fetched' \in {fetched, Nothing},
         merged' \in Seq(Versions), target' \in Seq(Versions),
         failures' \in [hash : 0..HashTries, size : 0..SizeTries],
         where \notin Ended => failures'.hash < HashTries /\ failures'.size < SizeTries
  PROVE  Typed'
<1>1. /\ main' = where /\ why' = "none" /\ next' = 1 /\ stop' = FALSE
      /\ UNCHANGED <<hashed, call, late, from, tries>>
  BY DEF Leave
<1>2. worker' \in [Parts -> {"idle", "queued", "ok"} \cup Running \cup Errors]
  BY DEF Leave, Typed, TypeOK
<1>3. part' \in [Parts -> Seq(Versions)] /\ \A i \in Parts : Len(part'[i]) <= Expected(i)
  <2>1. NoParts \in [Parts -> Seq(Versions)] /\ \A i \in Parts : Len(NoParts[i]) <= Expected(i)
    BY PartsType, BoundType DEF NoParts
  <2>. QED  BY <2>1 DEF Typed, TypeOK
<1>4. fetched' \in [Parts -> Nat]
  <2>1. fetched \in [Parts -> Nat]
    BY Zenon DEF Typed, TypeOK
  <2>2. Nothing \in [Parts -> Nat]
    BY DEF Nothing
  <2>. QED  BY <2>1, <2>2, Zenon
<1>5. next' \in 1..FileSize + 1
  BY <1>1, ConstantsOK
<1>. QED  BY <1>1, <1>2, <1>3, <1>4, <1>5 DEF Typed, TypeOK, TriesLeft, NextInv

LEMMA RejectTyped ==
  ASSUME Typed, main \notin Ended, NEW kind \in {"hash", "size"}, Reject(kind),
         part' \in {part, NoParts}, target' \in Seq(Versions)
  PROVE  Typed'
<1>. DEFINE count == failures[kind] + 1
            limit == IF kind = "hash" THEN HashTries ELSE SizeTries
            where == IF count >= limit THEN "failed" ELSE IF late THEN "stopped" ELSE "attempt"
<1>1. /\ merged' = <<>> /\ fetched' = Nothing
      /\ failures' = [failures EXCEPT ![kind] = count]
      /\ Leave(where)
  BY DEF Reject
<1>2. /\ failures \in [hash : 0..HashTries, size : 0..SizeTries]
      /\ failures.hash < HashTries /\ failures.size < SizeTries
      /\ HashTries \in Nat /\ SizeTries \in Nat
  BY ConstantsOK DEF Typed, TypeOK, TriesLeft
<1>3. failures' \in [hash : 0..HashTries, size : 0..SizeTries]
  BY <1>1, <1>2
<1>4. where \notin Ended => failures'.hash < HashTries /\ failures'.size < SizeTries
  BY <1>1, <1>2 DEF Ended
<1>5. where \in {"attempt"} \cup Ended
  BY DEF Ended
<1>6. merged' \in Seq(Versions)
  BY <1>1
<1>. HIDE DEF where
<1>. QED  BY <1>1, <1>3, <1>4, <1>5, <1>6, LeaveTyped

LEMMA NextTyped ==
  ASSUME Typed, [Next]_vars
  PROVE  Typed'
<1>0. /\ Typed /\ merged \in Seq(Versions) /\ target \in Seq(Versions)
      /\ failures \in [hash : 0..HashTries, size : 0..SizeTries]
  BY DEF Typed, TypeOK
<1>Submit. CASE Submit
  BY <1>Submit DEF Submit, Typed, TypeOK, TriesLeft, NextInv, Ended
<1>Caught. ASSUME NEW i \in Parts, Caught(i) PROVE Typed'
  <2>1. worker' \in [Parts -> {"idle", "queued", "ok"} \cup Running \cup Errors]
    BY <1>Caught DEF Caught, Typed, TypeOK, Errors
  <2>. QED  BY <1>Caught, <2>1 DEF Caught, Typed, TypeOK, TriesLeft, NextInv, Ended
<1>Drained. CASE Drained
  <2>1. /\ main = "drain" /\ part' \in {part, NoParts} /\ UNCHANGED target
    BY <1>Drained DEF Drained, LeftParts
  <2>2. CASE why = "size"
    <3>1. Reject("size")
      BY <1>Drained, <2>2 DEF Drained
    <3>. QED  BY <1>0, <2>1, <3>1, RejectTyped DEF Ended
  <2>3. CASE why # "size"
    <3>1. PICK where \in {"single", "failed", "stopped"} : Leave(where)
      BY <1>Drained, <2>3 DEF Drained
    <3>2. fetched' \in {fetched, Nothing} /\ UNCHANGED <<merged, failures>>
      BY <1>Drained, <2>3 DEF Drained
    <3>3. where \in Ended
      BY DEF Ended
    <3>. QED  BY <1>0, <2>1, <3>1, <3>2, <3>3, LeaveTyped
  <2>. QED  BY <2>2, <2>3
<1>AllFetched. CASE AllFetched
  BY <1>AllFetched DEF AllFetched, Typed, TypeOK, TriesLeft, NextInv, Ended, pool
<1>MergePart. CASE MergePart
  <2>1. /\ main = "merge" /\ next \in Parts
        /\ merged' = merged \o part[next] /\ part' = [part EXCEPT ![next] = <<>>]
        /\ next' = next + 1
        /\ UNCHANGED <<hashed, target, call, main, why, failures, late, fetched,
                       worker, from, tries, stop>>
    BY <1>MergePart DEF MergePart, pool
  <2>2. merged' \in Seq(Versions)
    <3>1. part[next] \in Seq(Versions)
      BY <2>1 DEF Typed, TypeOK
    <3>. QED  BY <1>0, <2>1, <3>1, ConcatProperties
  <2>3. part' \in [Parts -> Seq(Versions)] /\ \A i \in Parts : Len(part'[i]) <= Expected(i)
    <3>1. \A i \in Parts : 0 <= Expected(i)
      BY PartsType, BoundType
    <3>. QED  BY <2>1, <3>1 DEF Typed, TypeOK
  <2>4. next' \in 1..FileSize + 1 /\ next' - 1 \in Parts
    BY <2>1, ConstantsOK DEF Parts
  <2>. QED  BY <2>1, <2>2, <2>3, <2>4 DEF Typed, TypeOK, TriesLeft, NextInv
<1>Verify. CASE Verify
  <2>1. main = "merge" /\ UNCHANGED part
    BY <1>Verify DEF Verify
  <2>2. CASE Bad
    <3>1. PICK kind \in {"hash", "size"} : Reject(kind)
      BY <1>Verify, <2>2 DEF Verify
    <3>2. UNCHANGED target
      BY <1>Verify, <2>2 DEF Verify
    <3>. QED  BY <1>0, <2>1, <3>1, <3>2, RejectTyped DEF Ended
  <2>3. CASE ~Bad
    <3>1. /\ target' = merged /\ merged' = <<>> /\ Leave("done")
          /\ UNCHANGED <<failures, fetched>>
      BY <1>Verify, <2>3 DEF Verify
    <3>2. target' \in Seq(Versions) /\ merged' \in Seq(Versions) /\ "done" \in Ended
      BY <1>0, <3>1 DEF Ended
    <3>. QED  BY <1>0, <2>1, <3>1, <3>2, LeaveTyped
  <2>. QED  BY <2>2, <2>3
<1>MainStops. CASE MainStops
  <2>1. PICK where \in {"stopped", "failed"} : Leave(where)
    BY <1>MainStops DEF MainStops
  <2>2. UNCHANGED <<part, merged, target, failures, fetched>>
    BY <1>MainStops DEF MainStops
  <2>3. where \in Ended
    BY DEF Ended
  <2>. QED  BY <1>0, <2>1, <2>2, <2>3, LeaveTyped
<1>Worker. ASSUME NEW i \in Parts, Worker(i) PROVE Typed'
  BY <1>0, <1>Worker, WorkerTyped
<1>Deadline. CASE Deadline
  BY <1>Deadline DEF Deadline, Typed, TypeOK, TriesLeft, NextInv, pool
<1>Crash. CASE Crash
  <2>1. tries' \in [Parts -> 0..MaxRetries] /\ from' \in [Parts -> Versions]
    BY <1>Crash, ConstantsOK DEF Crash
  <2>2. worker' \in [Parts -> {"idle", "queued", "ok"} \cup Running \cup Errors]
    BY <1>Crash DEF Crash
  <2>3. next' = 1 /\ next' \in 1..FileSize + 1
    BY <1>Crash, ConstantsOK DEF Crash
  <2>. QED  BY <1>Crash, <2>1, <2>2, <2>3
            DEF Crash, Typed, TypeOK, TriesLeft, NextInv, Ended
<1>NewCall. CASE NewCall
  <2>1. fetched' \in [Parts -> Nat]
    BY <1>NewCall DEF NewCall, Typed, TypeOK
  <2>2. /\ failures' \in [hash : 0..HashTries, size : 0..SizeTries]
        /\ failures'.hash < HashTries /\ failures'.size < SizeTries
    BY <1>NewCall, ConstantsOK DEF NewCall, NoFailures
  <2>3. call' \in 1..MaxCalls /\ main' = "attempt" /\ late' = FALSE
    BY <1>NewCall, ConstantsOK DEF NewCall, Typed, TypeOK
  <2>4. UNCHANGED <<hashed, part, merged, target, next, why, worker, from, tries, stop>>
    BY <1>NewCall DEF NewCall, pool
  <2>. QED  BY <2>1, <2>2, <2>3, <2>4 DEF Typed, TypeOK, TriesLeft, NextInv
<1>same. CASE UNCHANGED vars
  BY <1>same DEF vars, caller, pool, Typed, TypeOK, TriesLeft, NextInv
<1>. QED
  BY <1>Submit, <1>Caught, <1>Drained, <1>AllFetched, <1>MergePart, <1>Verify,
     <1>MainStops, <1>Worker, <1>Deadline, <1>Crash, <1>NewCall, <1>same
     DEF Next, Main, Rest

\* Every variable keeps its type: no part outgrows its range and no limit on the
\* retries or on the rejections is passed.
THEOREM TypeCorrect == Spec => []TypeOK
<1>1. Init => Typed
  BY InitTyped
<1>2. Typed /\ [Next]_vars => Typed'
  BY NextTyped
<1>3. Typed => TypeOK
  BY DEF Typed
<1>. QED  BY <1>1, <1>2, <1>3, PTL DEF Spec

-----------------------------------------------------------------------------
(* What the parts hold                                                      *)

\* RangesFit and NothingRejectedIsResumed are not inductive.  They need to know that
\* threads run only while the calling thread waits for them, that a thread that has
\* ended well leaves a full part, and how far the merge has come.
PoolInv ==
  /\ main \notin {"await", "drain"} => Active = {}
  /\ main # "await" => \A i \in Parts : worker[i] # "queued"
  /\ main \in {"await", "drain", "merge"} =>
       \A i \in Parts : worker[i] = "ok" =>
         Len(part[i]) = Expected(i) \/ (main = "merge" /\ i < next)
  /\ main = "merge" => \A i \in Parts : worker[i] = "ok"

MergeInv ==
  IF main = "merge"
    THEN Len(merged) = Bound(next - 1) /\ \A i \in Parts : i < next => part[i] = <<>>
    ELSE next = 1

PartsInv == PoolInv /\ MergeInv /\ PartsFit

\* Once the last part is copied, no part is left and the size is that of the file.
LEMMA Merged ==
  ASSUME Typed, MergeInv, main = "merge", next \notin Parts
  PROVE  Len(merged) = FileSize /\ part = NoParts
<1>1. Bound(next - 1) = FileSize /\ \A i \in Parts : i < next
  BY LastPart DEF Typed, TypeOK, NextInv
<1>2. part = [i \in Parts |-> part[i]]
  BY DEF Typed, TypeOK
<1>3. \A i \in Parts : part[i] = <<>>
  BY <1>1 DEF MergeInv
<1>. QED  BY <1>1, <1>2, <1>3 DEF MergeInv, NoParts

LEMMA InitPartsInv == ASSUME Init PROVE PartsInv
BY DEF Init, PartsInv, PoolInv, MergeInv, PartsFit, RangesFit, NothingRejectedIsResumed,
       Active, Running, NoParts, NoFailures

\* A step of a thread touches its own part only, and only while it runs.
LEMMA WorkerPartsInv ==
  ASSUME Typed, PartsInv, NEW i \in Parts, Worker(i)
  PROVE  PartsInv'
<1>1. UNCHANGED <<hashed, merged, target, main, next, failures>>
  BY DEF Worker, Start, WorkerStops, Check, RequestFails, Respond, Chunk, BodyEnds,
         WorkerOnly, caller
<1>2. /\ worker[i] \in {"queued"} \cup Running
      /\ worker' = [worker EXCEPT ![i] = worker'[i]]
      /\ worker'[i] # "queued"
  BY DEF Worker, Start, WorkerStops, Check, RequestFails, Respond, Chunk, BodyEnds, Retry,
         Move, Running, Typed, TypeOK, Wrong
<1>3. /\ \A j \in Parts \ {i} : part'[j] = part[j]
      /\ worker'[i] = "ok" => part'[i] = part[i] /\ Len(part[i]) = Expected(i)
  <2>1. CASE Chunk(i)
    BY <2>1 DEF Chunk, Move, Typed, TypeOK, Running
  <2>2. CASE Check(i)
    <3>1. Len(part[i]) \in Nat /\ Len(part[i]) <= Expected(i) /\ Expected(i) \in Nat
      BY PartsType, BoundType DEF Typed, TypeOK
    <3>. QED  BY <2>2, <3>1 DEF Check, Move, Typed, TypeOK, Running
  <2>3. CASE Start(i) \/ WorkerStops(i) \/ RequestFails(i) \/ Respond(i) \/ BodyEnds(i)
    BY <2>3 DEF Start, WorkerStops, RequestFails, Respond, BodyEnds, Retry, Move, Typed,
       TypeOK, Running, Wrong
  <2>. QED  BY <2>1, <2>2, <2>3 DEF Worker
<1>4. main \in {"await", "drain"}
  BY <1>2 DEF PartsInv, PoolInv, Active
<1>5. PoolInv'
  BY <1>1, <1>2, <1>3, <1>4 DEF PartsInv, PoolInv, Typed, TypeOK
<1>6. MergeInv' /\ PartsFit'
  BY <1>1, <1>4 DEF PartsInv, MergeInv, PartsFit, RangesFit, NothingRejectedIsResumed
<1>. QED  BY <1>5, <1>6 DEF PartsInv

\* An attempt is left with no thread running; another one or the single stream follows
\* only when no part is left.
LEMMA LeavePartsInv ==
  ASSUME Typed, NEW where \in {"attempt"} \cup Ended, Leave(where), Active = {},
         where = "single" \/ (where = "attempt" /\ failures' # NoFailures) => part' = NoParts,
         where = "done" => Len(target') = FileSize /\ (hashed => target' = Good)
  PROVE  PartsInv'
<1>1. /\ main' = where /\ next' = 1 /\ UNCHANGED hashed
      /\ worker' = [j \in Parts |-> "idle"]
  BY DEF Leave
<1>2. main' \notin {"await", "drain", "merge"}
  BY <1>1 DEF Ended
<1>3. Active' = {}
  BY <1>1 DEF Active, Running
<1>4. PoolInv'
  BY <1>1, <1>2, <1>3 DEF PoolInv
<1>5. MergeInv' /\ RangesFit'
  BY <1>1, <1>2 DEF MergeInv, RangesFit
<1>6. NothingRejectedIsResumed'
  BY <1>1, <1>3 DEF NothingRejectedIsResumed
<1>. QED  BY <1>4, <1>5, <1>6 DEF PartsInv, PartsFit

LEMMA RejectPartsInv ==
  ASSUME Typed, NEW kind \in {"hash", "size"}, Reject(kind), Active = {}, part' = NoParts
  PROVE  PartsInv'
<1>1. PICK where \in {"failed", "stopped", "attempt"} : Leave(where)
  BY DEF Reject
<1>2. where \in {"attempt"} \cup Ended /\ where # "done"
  BY DEF Ended
<1>. QED  BY <1>1, <1>2, LeavePartsInv

LEMMA NextPartsInv ==
  ASSUME Typed, PartsInv, [Next]_vars
  PROVE  PartsInv'
<1>Submit. CASE Submit
  <2>1. /\ main = "attempt" /\ main' = "await" /\ UNCHANGED next
        /\ worker' = [i \in Parts |-> "queued"]
    BY <1>Submit DEF Submit
  <2>. QED  BY <2>1 DEF PartsInv, PoolInv, MergeInv, PartsFit, RangesFit,
            NothingRejectedIsResumed, Active, Running
<1>Caught. ASSUME NEW i \in Parts, Caught(i) PROVE PartsInv'
  <2>1. /\ main = "await" /\ main' = "drain" /\ UNCHANGED <<part, next>>
        /\ worker' = [j \in Parts |-> IF worker[j] = "queued" THEN "cancelled" ELSE worker[j]]
    BY <1>Caught DEF Caught
  <2>. QED  BY <2>1 DEF PartsInv, PoolInv, MergeInv, PartsFit, RangesFit,
            NothingRejectedIsResumed
<1>Drained. CASE Drained
  <2>1. /\ Active = {} /\ part' = LeftParts
    BY <1>Drained DEF Drained, Waited
  <2>2. CASE why = "size"
    <3>1. Reject("size") /\ part' = NoParts
      BY <1>Drained, <2>1, <2>2 DEF Drained, LeftParts, Wrong
    <3>. QED  BY <2>1, <3>1, RejectPartsInv
  <2>3. CASE why = "range"
    <3>1. Leave("single") /\ part' = NoParts
      BY <1>Drained, <2>1, <2>3 DEF Drained, LeftParts, Wrong
    <3>. QED  BY <2>1, <3>1, LeavePartsInv DEF Ended
  <2>4. CASE why \notin {"size", "range"}
    <3>1. PICK where \in {"failed", "stopped"} : Leave(where)
      BY <1>Drained, <2>4 DEF Drained
    <3>2. where \in {"attempt"} \cup Ended /\ where \notin {"single", "attempt", "done"}
      BY DEF Ended
    <3>. QED  BY <2>1, <3>1, <3>2, LeavePartsInv
  <2>. QED  BY <2>2, <2>3, <2>4
<1>AllFetched. CASE AllFetched
  <2>1. /\ main = "await" /\ main' = "merge" /\ merged' = <<>>
        /\ \A i \in Parts : worker[i] = "ok"
        /\ UNCHANGED <<hashed, part, target, next, worker>>
    BY <1>AllFetched DEF AllFetched, pool
  <2>2. next = 1 /\ next - 1 = 0
    BY <2>1 DEF PartsInv, MergeInv
  <2>3. MergeInv'
    <3>1. \A i \in Parts : ~(i < 1)
      BY PartsType
    <3>. QED  BY <2>1, <2>2, <3>1, BoundZero DEF MergeInv
  <2>4. PoolInv'
    <3>1. Active = {}
      BY <2>1 DEF Active, Running
    <3>. QED  BY <2>1, <3>1 DEF PartsInv, PoolInv, Active
  <2>5. PartsFit'
    <3>1. 1 \in Parts
      BY ConstantsOK DEF Parts
    <3>. QED  BY <2>1, <2>2, <3>1 DEF PartsFit, RangesFit, NothingRejectedIsResumed
  <2>. QED  BY <2>3, <2>4, <2>5 DEF PartsInv
<1>MergePart. CASE MergePart
  <2>1. /\ main = "merge" /\ main' = "merge" /\ next \in Parts
        /\ merged' = merged \o part[next] /\ part' = [part EXCEPT ![next] = <<>>]
        /\ next' = next + 1 /\ UNCHANGED worker
    BY <1>MergePart DEF MergePart, pool
  <2>2. /\ Len(merged) = Bound(next - 1) /\ \A i \in Parts : i < next => part[i] = <<>>
        /\ Len(part[next]) = Expected(next) /\ next \in Nat \ {0}
    BY <2>1, PartsType DEF PartsInv, PoolInv, MergeInv
  <2>3. Len(merged') = Bound(next)
    <3>1. merged \in Seq(Versions) /\ part[next] \in Seq(Versions)
      BY <2>1 DEF Typed, TypeOK
    <3>2. Len(merged') = Len(merged) + Len(part[next])
      BY <2>1, <3>1, ConcatProperties
    <3>. QED  BY <2>2, <3>2, BoundType
  <2>4. MergeInv'
    <3>1. next' - 1 = next
      BY <2>1, <2>2
    <3>2. \A i \in Parts : i < next + 1 => part'[i] = <<>>
      BY <2>1, <2>2, PartsType DEF Typed, TypeOK
    <3>. QED  BY <2>1, <2>3, <3>1, <3>2 DEF MergeInv
  <2>5. PoolInv'
    <3>1. ASSUME NEW i \in Parts PROVE Len(part'[i]) = Expected(i) \/ i < next + 1
      BY <2>1, <2>2, PartsType DEF Typed, TypeOK, PartsInv, PoolInv
    <3>. QED  BY <2>1, <3>1 DEF PartsInv, PoolInv, Active
  <2>6. RangesFit'
    <3>1. Typed'
      BY NextTyped
    <3>2. next' \in 1..FileSize + 1 /\ (next' = 1 \/ next' - 1 \in Parts)
      BY <3>1 DEF Typed, TypeOK, NextInv
    <3>3. next' \notin Parts => Bound(next' - 1) = FileSize
      BY <3>2, LastPart
    <3>. QED  BY <2>1, <2>2, <2>3, <3>3 DEF RangesFit, Misfit
  <2>7. NothingRejectedIsResumed'
    BY <2>1 DEF NothingRejectedIsResumed
  <2>. QED  BY <2>4, <2>5, <2>6, <2>7 DEF PartsInv, PartsFit
<1>Verify. CASE Verify
  <2>1. main = "merge" /\ next \notin Parts /\ UNCHANGED part
    BY <1>Verify DEF Verify
  <2>2. Len(merged) = FileSize /\ part = NoParts /\ Active = {}
    BY <2>1, Merged DEF PartsInv, PoolInv
  <2>3. CASE Bad
    <3>1. PICK kind \in {"hash", "size"} : Reject(kind)
      BY <1>Verify, <2>3 DEF Verify
    <3>. QED  BY <2>1, <2>2, <3>1, RejectPartsInv
  <2>4. CASE ~Bad
    <3>1. target' = merged /\ Leave("done")
      BY <1>Verify, <2>4 DEF Verify
    <3>2. hashed => target' = Good
      BY <2>1, <2>4, <3>1 DEF Bad
    <3>. QED  BY <2>2, <3>1, <3>2, LeavePartsInv DEF Ended
  <2>. QED  BY <2>3, <2>4
<1>MainStops. CASE MainStops
  <2>1. PICK where \in {"stopped", "failed"} : Leave(where)
    BY <1>MainStops DEF MainStops
  <2>2. Active = {}
    BY <1>MainStops DEF MainStops, PartsInv, PoolInv
  <2>3. where \in {"attempt"} \cup Ended /\ where \notin {"single", "attempt", "done"}
    BY DEF Ended
  <2>. QED  BY <2>1, <2>2, <2>3, LeavePartsInv
<1>Worker. ASSUME NEW i \in Parts, Worker(i) PROVE PartsInv'
  BY <1>Worker, WorkerPartsInv
<1>Deadline. CASE Deadline
  BY <1>Deadline DEF Deadline, pool, PartsInv, PoolInv, MergeInv, PartsFit, RangesFit,
     NothingRejectedIsResumed, Active, Misfit
<1>Crash. CASE Crash
  <2>1. /\ main' = "crashed" /\ next' = 1 /\ worker' = [j \in Parts |-> "idle"]
    BY <1>Crash DEF Crash
  <2>. QED  BY <2>1 DEF PartsInv, PoolInv, MergeInv, PartsFit, RangesFit,
            NothingRejectedIsResumed, Active, Running
<1>NewCall. CASE NewCall
  <2>1. /\ main \in Ended /\ main' = "attempt" /\ failures' = NoFailures
        /\ UNCHANGED <<next, part, worker>>
    BY <1>NewCall DEF NewCall, pool
  <2>2. /\ next = 1 /\ Active = {} /\ \A i \in Parts : worker[i] # "queued"
    BY <2>1 DEF PartsInv, PoolInv, MergeInv, Ended
  <2>. QED  BY <2>1, <2>2 DEF PartsInv, PoolInv, MergeInv, PartsFit, RangesFit,
            NothingRejectedIsResumed, Active
<1>same. CASE UNCHANGED vars
  BY <1>same DEF vars, caller, pool, PartsInv, PoolInv, MergeInv, PartsFit, RangesFit,
     NothingRejectedIsResumed, Active, Misfit
<1>. QED
  BY <1>Submit, <1>Caught, <1>Drained, <1>AllFetched, <1>MergePart, <1>Verify,
     <1>MainStops, <1>Worker, <1>Deadline, <1>Crash, <1>NewCall, <1>same
     DEF Next, Main, Rest

\* For every size of the file and of its parts: the merged parts have the size of the
\* file before it is compared, what is put in place has that size and the content of the
\* hash, and what was rejected is never resumed, whatever the threads were doing.
THEOREM PartsAlwaysFit == Spec => []PartsFit
<1>1. Init => Typed /\ PartsInv
  BY InitTyped, InitPartsInv
<1>2. Typed /\ PartsInv /\ [Next]_vars => Typed' /\ PartsInv'
  BY NextTyped, NextPartsInv
<1>3. PartsInv => PartsFit
  BY DEF PartsInv
<1>. QED  BY <1>1, <1>2, <1>3, PTL DEF Spec
=============================================================================
