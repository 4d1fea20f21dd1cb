-------------------------- MODULE DownloadFileProofs --------------------------
(***************************************************************************)
(* Theorems about DownloadFile, for any number of processes, any versions   *)
(* and sizes, any leftovers and any number of tries, when the lock of every *)
(* process is the same file (SameLock).  The run DownloadTwoCaches shows    *)
(* that without it the returned file may not be what was asked for.         *)
(*                                                                          *)
(* At most one process is past the lock, so whatever one of them has learnt *)
(* about the partial file stays true until its own next step (Sound): where *)
(* it writes is the end of the file, what it has hashed is what is stored,  *)
(* and what it is about to rename has been compared.                        *)
(***************************************************************************)
EXTENDS DownloadFile, SequenceTheorems, TLAPS

SameLock == \A p, q \in Procs : LockOf[p] = LockOf[q]

HasLock(p)     == pc[p] \in UnderLock => holder[LockOf[p]] = p
NoHandle(p)    == pc[p] # "stream" => call[p].inode = None
NothingRead(p) == pc[p] \in {"attempt", "request"} => call[p].digest = Unread
AtEnd(p) ==
  /\ pc[p] = "request" => call[p].offset = Len(Stored(tmp))
  /\ pc[p] = "stream" => /\ call[p].inode = tmp
                         /\ Len(Stored(tmp)) = call[p].offset + call[p].got
HasFile(p)     == pc[p] \in {"stream", "finish", "publish"} => tmp # None
HasHash(p)     == pc[p] \in UnderLock \ {"recheck"} /\ profile.hashed => call[p].expects = "new"
DigestTrue(p)  == pc[p] \in {"stream", "finish"} /\ call[p].digest # Unread =>
                    Stored(tmp) = call[p].digest
SizeTrue(p)    == pc[p] \in {"finish", "publish"} /\ profile.sized => Len(Stored(tmp)) = Size
HashTrue(p)    == pc[p] = "publish" /\ profile.hashed => Stored(tmp) = Object("new")

Sound(p) == /\ HasLock(p) /\ NoHandle(p) /\ NothingRead(p) /\ AtEnd(p) /\ HasFile(p)
            /\ HasHash(p) /\ DigestTrue(p) /\ SizeTrue(p) /\ HashTrue(p)

\* The target and the partial file are two files.
Apart == target = None \/ target # tmp

FilesOK ==
  /\ profile \in Profiles /\ data \in [Inodes -> Seq(Blocks)]
  /\ target \in Names /\ tmp \in Names /\ before \in Seq(Blocks)
  /\ restarts \in 0..MaxRestarts
  /\ Apart /\ OnlyGoodInPlace /\ ForcedNeverMissing

ControlOK ==
  /\ holder \in [Locks -> Procs \cup {None}]
  /\ pc \in [Procs -> {"start", "lock"} \cup UnderLock \cup Ended]
  /\ call \in [Procs -> Calls]
  /\ \A p \in Procs : Sound(p)

IInv == FilesOK /\ ControlOK

-----------------------------------------------------------------------------
(* Blocks and files                                                         *)

\* An object is a sequence of blocks as long as its version says.
LEMMA ObjectTyped ==
  ASSUME NEW v \in Versions
  PROVE  Object(v) \in Seq(Blocks) /\ Len(Object(v)) = Length[v]
  <1>1. Length[v] \in Nat
    BY ConstantsOK DEF Versions
  <1>2. \A i \in 1..Length[v] : <<v, i>> \in Blocks
    BY DEF Blocks
  <1> QED BY <1>1, <1>2 DEF Object

LEMMA UnreadTyped == Unread \in Seq(Blocks)
  <1>1. <<"unread">> \in Blocks
    BY DEF Blocks
  <1> QED BY <1>1 DEF Unread

\* A write keeps a file a sequence of blocks; at the end of the file it appends.
LEMMA WrittenTyped ==
  ASSUME NEW s \in Seq(Blocks), NEW at \in Nat \ {0}, NEW b \in Blocks
  PROVE  Written(s, at, b) \in Seq(Blocks)
  <1> DEFINE n == IF at > Len(s) THEN at ELSE Len(s)
  <1>1. n \in Nat
    OBVIOUS
  <1>2. <<"zero">> \in Blocks
    BY DEF Blocks
  <1>3. \A i \in 1..n : (IF i = at THEN b ELSE IF i <= Len(s) THEN s[i] ELSE <<"zero">>) \in Blocks
    BY <1>2
  <1> QED BY <1>1, <1>3 DEF Written

LEMMA WrittenAtEnd ==
  ASSUME NEW s \in Seq(Blocks), NEW b \in Blocks
  PROVE  Written(s, Len(s) + 1, b) = Append(s, b)
  <1> DEFINE w == Written(s, Len(s) + 1, b)
  <1>1. w = [i \in 1..Len(s) + 1 |-> IF i = Len(s) + 1 THEN b ELSE s[i]]
    BY DEF Written
  <1>2. w \in Seq(Blocks) /\ Len(w) = Len(s) + 1
    <2>1. Len(s) + 1 \in Nat \ {0}
      OBVIOUS
    <2> QED BY <1>1, <2>1, WrittenTyped
  <1>3. /\ Append(s, b) \in Seq(Blocks) /\ Len(Append(s, b)) = Len(s) + 1
        /\ \A i \in 1..Len(s) : Append(s, b)[i] = s[i]
        /\ Append(s, b)[Len(s) + 1] = b
    BY AppendProperties
  <1>4. \A i \in 1..Len(s) + 1 : w[i] = Append(s, b)[i]
    BY <1>1, <1>3
  <1> QED BY <1>2, <1>3, <1>4, SeqEqual

\* What a call holds before its first request, after a rejection and after a retry.
LEMMA FreshTyped == Fresh \in Calls
  <1>1. "new" \in Versions /\ HashTries \in Nat \ {0} /\ SizeTries \in Nat \ {0} /\ MaxRetries \in Nat
    BY ConstantsOK
  <1> QED BY <1>1, UnreadTyped DEF Fresh, Calls, Names

LEMMA NewCallTyped ==
  ASSUME NEW hash \in 0..HashTries - 1, NEW size \in 0..SizeTries - 1
  PROVE  [NewCall EXCEPT !.hash = hash, !.size = size] \in Calls /\ NewCall \in Calls
  <1>1. "new" \in Versions
    BY ConstantsOK
  <1> QED BY <1>1, FreshTyped DEF NewCall, Calls, Fresh

LEMMA ClosedTyped ==
  ASSUME ControlOK, NEW p \in Procs, NEW tries \in 0..MaxRetries,
         NEW expects \in Versions \cup {None}
  PROVE  /\ [Closed(p) EXCEPT !.tries = tries, !.expects = expects] \in Calls
         /\ \A d \in Seq(Blocks) : [Closed(p) EXCEPT !.digest = d] \in Calls
  <1>1. call[p] \in Calls
    BY DEF ControlOK
  <1>2. /\ call[p].expects \in Versions \cup {None} /\ call[p].tries \in 0..MaxRetries
        /\ call[p].hash \in 0..HashTries - 1 /\ call[p].size \in 0..SizeTries - 1
    BY <1>1 DEF Calls
  <1> QED BY <1>2, FreshTyped DEF Closed, Calls, Fresh

\* Without an open partial file, some inode is free.
LEMMA FreeInode ==
  ASSUME IInv, tmp = None
  PROVE  NewInode \in Inodes /\ NewInode # target
  <1>1. \A p \in Procs : call[p].inode = None
    <2> SUFFICES ASSUME NEW p \in Procs, call[p].inode # None PROVE FALSE
      OBVIOUS
    <2>1. Sound(p)
      BY DEF IInv, ControlOK
    <2> QED BY <2>1 DEF Sound, NoHandle, AtEnd
  <1>2. target \in Names /\ None \in Names
    BY DEF IInv, FilesOK, Names
  <1>3. PICK k \in Inodes : k \notin {target, None}
    BY <1>2, ConstantsOK
  <1>4. ~Used(k)
    BY <1>1, <1>3 DEF Used
  <1>5. NewInode \in Inodes /\ ~Used(NewInode)
    BY <1>4 DEF NewInode
  <1> QED BY <1>5 DEF Used

-----------------------------------------------------------------------------
(* What one process does, the others keep                                   *)

\* Two processes are never past the lock at once.
LEMMA Exclusive ==
  ASSUME SameLock, ControlOK, NEW p \in Procs, NEW q \in Procs,
         pc[p] \in UnderLock, pc[q] \in UnderLock
  PROVE  p = q
  BY DEF SameLock, ControlOK, Sound, HasLock

LEMMA Others ==
  ASSUME SameLock, ControlOK, NEW p \in Procs, pc[p] \in UnderLock,
         NEW q \in Procs, q # p, pc'[q] = pc[q], call'[q] = call[q]
  PROVE  Sound(q)'
  <1>1. pc[q] \notin UnderLock
    BY Exclusive
  <1>2. call[q].inode = None
    <2>1. NoHandle(q)
      BY DEF ControlOK, Sound
    <2> QED BY <1>1, <2>1 DEF NoHandle, UnderLock
  <1> QED BY <1>1, <1>2 DEF Sound, HasLock, NoHandle, NothingRead, AtEnd, HasFile, HasHash,
            DigestTrue, SizeTrue, HashTrue, UnderLock

\* A process that has left, and one about to look at the partial file, claim nothing of it.
LEMMA LeftSound ==
  ASSUME NEW p \in Procs, pc'[p] \notin UnderLock, call'[p].inode = None
  PROVE  Sound(p)'
  BY DEF Sound, HasLock, NoHandle, NothingRead, AtEnd, HasFile, HasHash, DigestTrue,
         SizeTrue, HashTrue, UnderLock

LEMMA AttemptSound ==
  ASSUME NEW p \in Procs, pc'[p] = "attempt", call'[p].inode = None,
         call'[p].digest = Unread, profile'.hashed => call'[p].expects = "new",
         holder'[LockOf[p]] = p
  PROVE  Sound(p)'
  BY DEF Sound, HasLock, NoHandle, NothingRead, AtEnd, HasFile, HasHash, DigestTrue,
         SizeTrue, HashTrue, UnderLock

\* The call of p ends.
LEMMA LeaveStep ==
  ASSUME SameLock, ControlOK, NEW p \in Procs, NEW how \in Ended, Leave(p, how),
         (tmp' = tmp /\ data' = data /\ profile' = profile) \/ pc[p] \in UnderLock
  PROVE  ControlOK'
  <1>1. /\ pc' = [pc EXCEPT ![p] = how] /\ call' = [call EXCEPT ![p] = Fresh]
        /\ holder' = [l \in Locks |-> IF holder[l] = p THEN None ELSE holder[l]]
    BY DEF Leave, Goto, Update
  <1>2. /\ holder \in [Locks -> Procs \cup {None}] /\ call \in [Procs -> Calls]
        /\ pc \in [Procs -> {"start", "lock"} \cup UnderLock \cup Ended]
    BY DEF ControlOK
  <1>3. holder' \in [Locks -> Procs \cup {None}]
    BY <1>1, <1>2
  <1>4. call' \in [Procs -> Calls]
    BY <1>1, <1>2, FreshTyped
  <1>5. pc' \in [Procs -> {"start", "lock"} \cup UnderLock \cup Ended]
    BY <1>1, <1>2
  <1>6. ASSUME NEW q \in Procs PROVE Sound(q)'
    <2>1. CASE q = p
      <3>1. pc'[p] = how /\ call'[p] = Fresh
        BY <1>1, <1>2
      <3>2. how \notin UnderLock /\ Fresh.inode = None
        BY DEF Ended, UnderLock, Fresh
      <3> QED BY <2>1, <3>1, <3>2, LeftSound
    <2>2. CASE q # p
      <3>1. pc'[q] = pc[q] /\ call'[q] = call[q]
        BY <1>1, <1>2, <2>2
      <3>2. CASE pc[p] \in UnderLock
        BY <2>2, <3>1, <3>2, Others
      <3>3. CASE tmp' = tmp /\ data' = data /\ profile' = profile
        <4>1. holder[LockOf[q]] = q => holder'[LockOf[q]] = q
          BY <1>1, <2>2, ConstantsOK
        <4>2. Sound(q)
          BY DEF ControlOK
        <4> QED BY <3>1, <3>3, <4>1, <4>2 DEF Sound, HasLock, NoHandle, NothingRead, AtEnd,
                  HasFile, HasHash, DigestTrue, SizeTrue, HashTrue, Stored
      <3> QED BY <3>2, <3>3
    <2> QED BY <2>1, <2>2
  <1> QED BY <1>3, <1>4, <1>5, <1>6 DEF ControlOK

\* p goes on under the lock: its own claims are all there is to show.
LEMMA MoveStep ==
  ASSUME SameLock, ControlOK, NEW p \in Procs, pc[p] \in UnderLock,
         NEW where \in UnderLock, NEW c \in Calls, holder' = holder,
         pc' = [pc EXCEPT ![p] = where], call' = [call EXCEPT ![p] = c],
         HasLock(p)' => Sound(p)'
  PROVE  ControlOK'
  <1>1. /\ holder \in [Locks -> Procs \cup {None}] /\ call \in [Procs -> Calls]
        /\ pc \in [Procs -> {"start", "lock"} \cup UnderLock \cup Ended]
    BY DEF ControlOK
  <1>2. /\ holder' \in [Locks -> Procs \cup {None}] /\ call' \in [Procs -> Calls]
        /\ pc' \in [Procs -> {"start", "lock"} \cup UnderLock \cup Ended]
    BY <1>1
  <1>3. HasLock(p)'
    BY DEF ControlOK, Sound, HasLock
  <1>4. ASSUME NEW q \in Procs, q # p PROVE Sound(q)'
    <2>1. pc'[q] = pc[q] /\ call'[q] = call[q]
      BY <1>1, <1>4
    <2> QED BY <1>4, <2>1, Others
  <1>5. \A q \in Procs : Sound(q)'
    BY <1>3, <1>4
  <1> QED BY <1>2, <1>5 DEF ControlOK

\* p begins anew, with the counts and the expected hash of c.
LEMMA AttemptStep ==
  ASSUME SameLock, ControlOK, NEW p \in Procs, pc[p] \in UnderLock, NEW c \in Calls,
         c.inode = None, c.digest = Unread, profile'.hashed => c.expects = "new",
         Goto(p, "attempt"), Update(p, c), UNCHANGED holder
  PROVE  ControlOK'
  <1>1. pc' = [pc EXCEPT ![p] = "attempt"] /\ call' = [call EXCEPT ![p] = c] /\ holder' = holder
    BY DEF Goto, Update
  <1>2. pc'[p] = "attempt" /\ call'[p] = c
    BY <1>1 DEF ControlOK
  <1>3. holder[LockOf[p]] = p
    BY DEF ControlOK, Sound, HasLock
  <1>4. Sound(p)'
    BY <1>1, <1>2, <1>3, AttemptSound
  <1>5. "attempt" \in UnderLock
    BY DEF UnderLock
  <1> QED BY <1>1, <1>4, <1>5, MoveStep
-----------------------------------------------------------------------------
(* The two ways back                                                        *)

\* A rejection: anew without the partial file, or the end of the call.
LEMMA RejectStep ==
  ASSUME SameLock, ControlOK, NEW p \in Procs, pc[p] \in UnderLock, profile' = profile,
         NEW kind \in {"hash", "size"}, Reject(p, kind)
  PROVE  ControlOK' /\ tmp' = None
  <1> DEFINE hash == call[p].hash + (IF kind = "hash" THEN 1 ELSE 0)
             size == call[p].size + (IF kind = "size" THEN 1 ELSE 0)
             c == [NewCall EXCEPT !.hash = hash, !.size = size]
  <1>1. tmp' = None
    BY DEF Reject
  <1>2. \/ Leave(p, "failed")
        \/ /\ ~((kind = "hash" /\ hash >= HashTries) \/ (kind = "size" /\ size >= SizeTries))
           /\ Update(p, c) /\ Goto(p, "attempt") /\ UNCHANGED holder
    BY DEF Reject
  <1>3. CASE Leave(p, "failed")
    <2>1. "failed" \in Ended
      BY DEF Ended
    <2> QED BY <1>1, <1>3, <2>1, LeaveStep
  <1>4. CASE /\ ~((kind = "hash" /\ hash >= HashTries) \/ (kind = "size" /\ size >= SizeTries))
             /\ Update(p, c) /\ Goto(p, "attempt") /\ UNCHANGED holder
    <2>1. call[p].hash \in 0..HashTries - 1 /\ call[p].size \in 0..SizeTries - 1
      BY DEF ControlOK, Calls
    <2>2. HashTries \in Nat /\ SizeTries \in Nat
      BY ConstantsOK
    <2>3. hash \in 0..HashTries - 1 /\ size \in 0..SizeTries - 1
      BY <1>4, <2>1, <2>2
    <2>4. c \in Calls
      BY <2>3, NewCallTyped
    <2>5. c.inode = None /\ c.digest = Unread /\ (profile.hashed => c.expects = "new")
      BY DEF NewCall, Fresh
    <2> HIDE DEF c
    <2> QED BY <1>1, <1>4, <2>4, <2>5, AttemptStep
  <1> QED BY <1>2, <1>3, <1>4

\* A retry: anew with the partial file, or the end of the call.
LEMMA AgainStep ==
  ASSUME SameLock, ControlOK, NEW p \in Procs, pc[p] \in UnderLock, profile' = profile,
         NEW expects \in Versions \cup {None}, profile.hashed => expects = "new",
         Again(p, expects)
  PROVE  ControlOK'
  <1> DEFINE c == [Closed(p) EXCEPT !.tries = @ + 1, !.expects = expects]
  <1>1. \/ Leave(p, "failed")
        \/ /\ call[p].tries < MaxRetries
           /\ Update(p, c) /\ Goto(p, "attempt") /\ UNCHANGED holder
    BY DEF Again
  <1>2. CASE Leave(p, "failed")
    <2>1. "failed" \in Ended
      BY DEF Ended
    <2> QED BY <1>2, <2>1, LeaveStep
  <1>3. CASE /\ call[p].tries < MaxRetries
             /\ Update(p, c) /\ Goto(p, "attempt") /\ UNCHANGED holder
    <2>1. call[p].tries \in 0..MaxRetries /\ MaxRetries \in Nat
      BY ConstantsOK DEF ControlOK, Calls
    <2>2. call[p].tries + 1 \in 0..MaxRetries
      BY <1>3, <2>1
    <2>3. c = [Closed(p) EXCEPT !.tries = call[p].tries + 1, !.expects = expects]
      BY DEF Closed, Fresh
    <2>4. c \in Calls
      BY <2>2, <2>3, ClosedTyped
    <2>5. c.inode = None /\ c.digest = Unread /\ c.expects = expects
      BY DEF Closed, Fresh
    <2> HIDE DEF c
    <2> QED BY <1>3, <2>4, <2>5, AttemptStep
  <1> QED BY <1>1, <1>2, <1>3

\* What a request may be expecting when it is answered.
LEMMA ExpectedTyped ==
  ASSUME ControlOK, NEW p \in Procs, NEW v \in Versions,
         pc[p] \in UnderLock \ {"recheck"}
  PROVE  /\ Expected(p, v) \in Versions \cup {None} /\ call[p].expects \in Versions \cup {None}
         /\ profile.hashed => Expected(p, v) = "new" /\ call[p].expects = "new"
  <1>1. call[p].expects \in Versions \cup {None}
    BY DEF ControlOK, Calls
  <1>2. profile.hashed => call[p].expects = "new"
    BY DEF ControlOK, Sound, HasHash
  <1> QED BY <1>1, <1>2 DEF Expected, None

LEMMA RetryStep ==
  ASSUME SameLock, ControlOK, NEW p \in Procs, pc[p] \in UnderLock \ {"recheck"},
         profile' = profile, Retry(p)
  PROVE  ControlOK'
  <1>1. "new" \in Versions
    BY ConstantsOK
  <1>2. /\ call[p].expects \in Versions \cup {None}
        /\ profile.hashed => call[p].expects = "new"
    BY <1>1, ExpectedTyped
  <1>3. Again(p, call[p].expects)
    BY DEF Retry
  <1> QED BY <1>2, <1>3, AgainStep

-----------------------------------------------------------------------------
(* The files                                                                *)

\* A step that writes nothing, and at most discards the partial file.
LEMMA FilesKept ==
  ASSUME FilesOK, profile' = profile, data' = data, target' = target, before' = before,
         restarts' \in 0..MaxRestarts, tmp' \in {tmp, None}
  PROVE  FilesOK'
  BY DEF FilesOK, Apart, OnlyGoodInPlace, ForcedNeverMissing, Stored, Names

\* A step that writes to a file that is not the target.
LEMMA FilesWritten ==
  ASSUME FilesOK, profile' = profile, target' = target, before' = before,
         restarts' = restarts, NEW i \in Inodes, i # target, NEW s \in Seq(Blocks),
         tmp' = i, data' = [data EXCEPT ![i] = s] \/ data' = data
  PROVE  FilesOK'
  <1>1. data \in [Inodes -> Seq(Blocks)] /\ target \in Names
    BY DEF FilesOK
  <1>2. data' \in [Inodes -> Seq(Blocks)] /\ tmp' \in Names
    BY <1>1 DEF Names
  <1>3. Stored(target)' = Stored(target)
    BY <1>1 DEF Stored, Names
  <1>4. Apart'
    BY DEF Apart
  <1> QED BY <1>2, <1>3, <1>4 DEF FilesOK, OnlyGoodInPlace, ForcedNeverMissing

\* What the cache check accepts is what was asked for.
Good(name) == /\ profile.hashed => name # None /\ Stored(name) = Object("new")
              /\ profile.sized  => name # None /\ Len(Stored(name)) = Size

LEMMA HitIsGood == CacheHit => Good(target)
  BY DEF CacheHit, Good, Stored
-----------------------------------------------------------------------------
(* Each step of a process                                                   *)

\* The locks that p does not have it cannot give away: its steps outside UnderLock.
LEMMA OutsideStep ==
  ASSUME SameLock, ControlOK, NEW p \in Procs, pc[p] \notin UnderLock,
         NEW where \in {"start", "lock"} \cup Ended, pc' = [pc EXCEPT ![p] = where],
         UNCHANGED <<profile, data, tmp, holder, call>>
  PROVE  ControlOK'
  <1>1. /\ holder \in [Locks -> Procs \cup {None}] /\ call \in [Procs -> Calls]
        /\ pc \in [Procs -> {"start", "lock"} \cup UnderLock \cup Ended]
    BY DEF ControlOK
  <1>2. pc' \in [Procs -> {"start", "lock"} \cup UnderLock \cup Ended]
    BY <1>1
  <1>3. ASSUME NEW q \in Procs PROVE Sound(q)'
    <2>1. Sound(q)
      BY DEF ControlOK
    <2>2. CASE q = p
      <3>1. pc'[p] \notin UnderLock /\ call'[p].inode = None
        <4>1. call[p].inode = None
          BY <2>1, <2>2 DEF Sound, NoHandle, UnderLock
        <4> QED BY <1>1, <4>1 DEF UnderLock, Ended
      <3> QED BY <2>2, <3>1, LeftSound
    <2>3. CASE q # p
      <3>1. pc'[q] = pc[q]
        BY <1>1, <2>3
      <3> QED BY <2>1, <3>1 DEF Sound, HasLock, NoHandle, NothingRead, AtEnd, HasFile,
                HasHash, DigestTrue, SizeTrue, HashTrue, Stored
    <2> QED BY <2>2, <2>3
  <1> QED BY <1>1, <1>2, <1>3 DEF ControlOK

LEMMA CheckCacheStep ==
  ASSUME SameLock, IInv, NEW p \in Procs, CheckCache(p) PROVE IInv'
  <1>1. PICK where \in {"lock", "done"} : pc' = [pc EXCEPT ![p] = where]
    BY DEF CheckCache, Goto
  <1>2. where \in {"start", "lock"} \cup Ended /\ pc[p] \notin UnderLock
    BY DEF CheckCache, UnderLock, Ended
  <1>3. UNCHANGED <<profile, data, target, tmp, before, holder, restarts, call>>
    BY DEF CheckCache
  <1>4. ControlOK'
    BY <1>1, <1>2, <1>3, OutsideStep DEF IInv
  <1>5. FilesOK'
    BY <1>3, FilesKept DEF IInv, FilesOK
  <1> QED BY <1>4, <1>5 DEF IInv

LEMMA LockTimesOutStep ==
  ASSUME SameLock, IInv, NEW p \in Procs, LockTimesOut(p) PROVE IInv'
  <1>1. pc' = [pc EXCEPT ![p] = "stopped"]
    BY DEF LockTimesOut, Goto
  <1>2. "stopped" \in {"start", "lock"} \cup Ended /\ pc[p] \notin UnderLock
    BY DEF LockTimesOut, UnderLock, Ended
  <1>3. UNCHANGED <<profile, data, target, tmp, before, holder, restarts, call>>
    BY DEF LockTimesOut
  <1>4. ControlOK'
    BY <1>1, <1>2, <1>3, OutsideStep DEF IInv
  <1>5. FilesOK'
    BY <1>3, FilesKept DEF IInv, FilesOK
  <1> QED BY <1>4, <1>5 DEF IInv

LEMMA RestartStep ==
  ASSUME SameLock, IInv, NEW p \in Procs, Restart(p) PROVE IInv'
  <1>1. pc' = [pc EXCEPT ![p] = "start"]
    BY DEF Restart, Goto
  <1>2. "start" \in {"start", "lock"} \cup Ended /\ pc[p] \notin UnderLock
    BY DEF Restart, UnderLock, Ended
  <1>3. UNCHANGED <<profile, data, target, tmp, before, holder, call>>
    BY DEF Restart
  <1>4. ControlOK'
    BY <1>1, <1>2, <1>3, OutsideStep DEF IInv
  <1>5. restarts' \in 0..MaxRestarts
    BY ConstantsOK DEF Restart, IInv, FilesOK
  <1>6. FilesOK'
    BY <1>3, <1>5, FilesKept DEF IInv
  <1> QED BY <1>4, <1>6 DEF IInv

\* The lock is free, so nobody is past it.
LEMMA AcquireStep ==
  ASSUME SameLock, IInv, NEW p \in Procs, Acquire(p) PROVE IInv'
  <1>1. /\ pc[p] = "lock" /\ holder[LockOf[p]] = None
        /\ holder' = [holder EXCEPT ![LockOf[p]] = p] /\ pc' = [pc EXCEPT ![p] = "recheck"]
        /\ UNCHANGED <<profile, data, target, tmp, before, restarts, call>>
    BY DEF Acquire, Goto
  <1>2. /\ holder \in [Locks -> Procs \cup {None}] /\ call \in [Procs -> Calls]
        /\ pc \in [Procs -> {"start", "lock"} \cup UnderLock \cup Ended]
    BY DEF IInv, ControlOK
  <1>3. LockOf[p] \in Locks
    BY ConstantsOK
  <1>4. pc' \in [Procs -> {"start", "lock"} \cup UnderLock \cup Ended]
    BY <1>1, <1>2 DEF UnderLock
  <1>5. holder' \in [Locks -> Procs \cup {None}]
    BY <1>1, <1>2, <1>3
  <1>6. ASSUME NEW q \in Procs PROVE Sound(q)'
    <2>1. Sound(q)
      BY DEF IInv, ControlOK
    <2>2. pc[q] \notin UnderLock
      BY <1>1, <2>1, ConstantsOK DEF Sound, HasLock, SameLock
    <2>3. call'[q].inode = None
      BY <1>1, <2>1, <2>2 DEF Sound, NoHandle, UnderLock
    <2>4. CASE q # p
      BY <1>1, <1>2, <2>2, <2>3, <2>4, LeftSound
    <2>5. CASE q = p
      <3>1. pc'[q] = "recheck" /\ holder'[LockOf[q]] = q
        BY <1>1, <1>2, <1>3, <2>5
      <3> QED BY <2>3, <3>1 DEF Sound, HasLock, NoHandle, NothingRead, AtEnd, HasFile,
                HasHash, DigestTrue, SizeTrue, HashTrue
    <2> QED BY <2>4, <2>5
  <1>7. ControlOK'
    BY <1>1, <1>2, <1>4, <1>5, <1>6 DEF ControlOK
  <1>8. FilesOK'
    BY <1>1, FilesKept DEF IInv, FilesOK
  <1> QED BY <1>7, <1>8 DEF IInv

LEMMA RecheckStep ==
  ASSUME SameLock, IInv, NEW p \in Procs, Recheck(p) PROVE IInv'
  <1>1. /\ pc[p] = "recheck" /\ pc[p] \in UnderLock
        /\ UNCHANGED <<profile, data, tmp, before, restarts>>
    BY DEF Recheck, UnderLock
  <1>2. CASE Leave(p, "done") /\ UNCHANGED target
    <2>1. "done" \in Ended
      BY DEF Ended
    <2>2. ControlOK'
      BY <1>1, <1>2, <2>1, LeaveStep DEF IInv
    <2>3. FilesOK'
      BY <1>1, <1>2, FilesKept DEF IInv, FilesOK
    <2> QED BY <2>2, <2>3 DEF IInv
  <1>3. CASE /\ target' = IF profile.force THEN target ELSE None
             /\ Update(p, NewCall) /\ Goto(p, "attempt") /\ UNCHANGED holder
    <2>1. NewCall \in Calls
      <3>1. 0 \in 0..HashTries - 1 /\ 0 \in 0..SizeTries - 1
        BY ConstantsOK
      <3> QED BY <3>1, NewCallTyped
    <2>2. /\ NewCall.inode = None /\ NewCall.digest = Unread
          /\ profile.hashed => NewCall.expects = "new"
      BY DEF NewCall, Fresh
    <2>3. ControlOK'
      BY <1>1, <1>3, <2>1, <2>2, AttemptStep DEF IInv
    <2>4. FilesOK'
      BY <1>1, <1>3 DEF IInv, FilesOK, Apart, OnlyGoodInPlace, ForcedNeverMissing, Stored, Names
    <2> QED BY <2>3, <2>4 DEF IInv
  <1> QED BY <1>2, <1>3 DEF Recheck
LEMMA AttemptKeeps ==
  ASSUME SameLock, IInv, NEW p \in Procs, Attempt(p) PROVE IInv'
  <1> DEFINE existing == Len(Stored(tmp))
             tooLong == profile.sized /\ existing > Size
  <1>1. /\ pc[p] = "attempt" /\ pc[p] \in UnderLock
        /\ UNCHANGED <<profile, data, target, before, holder, restarts>>
    BY DEF Attempt, UnderLock
  <1>2. /\ call[p] \in Calls /\ Sound(p) /\ call \in [Procs -> Calls]
        /\ pc \in [Procs -> {"start", "lock"} \cup UnderLock \cup Ended]
    BY DEF IInv, ControlOK
  <1>3. call[p].inode = None /\ call[p].digest = Unread /\ (profile.hashed => call[p].expects = "new")
    BY <1>1, <1>2 DEF Sound, NoHandle, NothingRead, HasHash
  <1>4. Stored(tmp) \in Seq(Blocks) /\ existing \in Nat
    BY DEF IInv, FilesOK, Stored, Names
  <1>5. CASE /\ tmp # None /\ profile.sized /\ existing = Size
             /\ Goto(p, "finish") /\ UNCHANGED <<tmp, call>>
    <2>1. pc' = [pc EXCEPT ![p] = "finish"] /\ call' = [call EXCEPT ![p] = call[p]]
      BY <1>2, <1>5 DEF Goto
    <2>2. pc'[p] = "finish" /\ call'[p] = call[p]
      BY <1>2, <2>1
    <2>3. HasLock(p)' => Sound(p)'
      BY <1>1, <1>3, <1>5, <2>2 DEF Sound, NoHandle, NothingRead, AtEnd, HasFile, HasHash,
         DigestTrue, SizeTrue, HashTrue, Stored
    <2>4. "finish" \in UnderLock
      BY DEF UnderLock
    <2>5. ControlOK'
      BY <1>1, <1>2, <2>1, <2>3, <2>4, MoveStep DEF IInv
    <2>6. FilesOK'
      BY <1>1, <1>5, FilesKept DEF IInv, FilesOK
    <2> QED BY <2>5, <2>6 DEF IInv
  <1>6. CASE /\ tmp' = (IF tooLong THEN None ELSE tmp)
             /\ Update(p, [call[p] EXCEPT !.offset = IF tooLong THEN 0 ELSE existing])
             /\ Goto(p, "request")
    <2> DEFINE c == [call[p] EXCEPT !.offset = IF tooLong THEN 0 ELSE existing]
    <2>1. pc' = [pc EXCEPT ![p] = "request"] /\ call' = [call EXCEPT ![p] = c]
      BY <1>6 DEF Goto, Update
    <2>2. pc'[p] = "request" /\ call'[p] = c
      BY <1>2, <2>1
    <2>3. /\ c \in Calls /\ c.inode = None /\ c.digest = Unread
          /\ (profile.hashed => c.expects = "new") /\ c.offset = (IF tooLong THEN 0 ELSE existing)
      BY <1>2, <1>3, <1>4 DEF Calls
    <2>4. c.offset = Len(Stored(tmp)')
      <3>1. CASE tooLong
        BY <1>6, <2>3, <3>1 DEF Stored
      <3>2. CASE ~tooLong
        BY <1>1, <1>6, <2>3, <3>2 DEF Stored
      <3> QED BY <3>1, <3>2
    <2> HIDE DEF c
    <2>5. HasLock(p)' => Sound(p)'
      BY <1>1, <2>2, <2>3, <2>4 DEF Sound, NoHandle, NothingRead, AtEnd, HasFile, HasHash,
         DigestTrue, SizeTrue, HashTrue
    <2>6. "request" \in UnderLock
      BY DEF UnderLock
    <2>7. ControlOK'
      BY <1>1, <2>1, <2>3, <2>5, <2>6, MoveStep DEF IInv
    <2>8. FilesOK'
      BY <1>1, <1>6, FilesKept DEF IInv, FilesOK
    <2> QED BY <2>7, <2>8 DEF IInv
  <1> QED BY <1>5, <1>6 DEF Attempt

LEMMA RequestFailsStep ==
  ASSUME SameLock, IInv, NEW p \in Procs, RequestFails(p) PROVE IInv'
  <1>1. /\ pc[p] \in UnderLock \ {"recheck"} /\ Retry(p)
        /\ UNCHANGED <<profile, data, target, tmp, before, restarts>>
    BY DEF RequestFails, UnderLock
  <1>2. ControlOK'
    BY <1>1, RetryStep DEF IInv
  <1>3. FilesOK'
    BY <1>1, FilesKept DEF IInv, FilesOK
  <1> QED BY <1>2, <1>3 DEF IInv

LEMMA RangeRefusedStep ==
  ASSUME SameLock, IInv, NEW p \in Procs, RangeRefused(p) PROVE IInv'
  <1>1. /\ pc[p] \in UnderLock \ {"recheck"} /\ tmp' = None
        /\ Retry(p) \/ \E v \in Versions : Again(p, Expected(p, v))
        /\ UNCHANGED <<profile, data, target, before, restarts>>
    BY DEF RangeRefused, UnderLock
  <1>2. ControlOK'
    <2>1. CASE Retry(p)
      BY <1>1, <2>1, RetryStep DEF IInv
    <2>2. ASSUME NEW v \in Versions, Again(p, Expected(p, v)) PROVE ControlOK'
      <3>1. /\ Expected(p, v) \in Versions \cup {None}
            /\ profile.hashed => Expected(p, v) = "new"
        BY <1>1, ExpectedTyped DEF IInv
      <3> QED BY <1>1, <2>2, <3>1, AgainStep DEF IInv
    <2> QED BY <1>1, <2>1, <2>2
  <1>3. FilesOK'
    BY <1>1, FilesKept DEF IInv, FilesOK
  <1> QED BY <1>2, <1>3 DEF IInv

LEMMA WrongSizeAnnouncedStep ==
  ASSUME SameLock, IInv, NEW p \in Procs, NEW v \in Versions, WrongSizeAnnounced(p, v)
  PROVE  IInv'
  <1>1. /\ pc[p] \in UnderLock /\ Reject(p, "size")
        /\ UNCHANGED <<profile, data, target, before, restarts>>
    BY DEF WrongSizeAnnounced, UnderLock
  <1>2. ControlOK' /\ tmp' = None
    BY <1>1, RejectStep DEF IInv
  <1>3. FilesOK'
    BY <1>1, <1>2, FilesKept DEF IInv, FilesOK
  <1> QED BY <1>2, <1>3 DEF IInv

\* The handle is opened at the end of what is kept of the partial file.
LEMMA RespondStep ==
  ASSUME SameLock, IInv, NEW p \in Procs, Respond(p) PROVE IInv'
  <1>1. PICK v \in Versions, resumed \in BOOLEAN, announced \in BOOLEAN :
          Begin(p, v, resumed, announced)
    BY DEF Respond
  <1> DEFINE inode == IF tmp = None THEN NewInode ELSE tmp
             expects == Expected(p, v)
             offset == IF resumed THEN call[p].offset ELSE 0
             digest == IF expects = None THEN Unread
                       ELSE IF resumed THEN Stored(tmp) ELSE <<>>
             c == [call[p] EXCEPT
                    !.offset = offset, !.got = 0, !.version = v, !.sized = announced,
                    !.append = resumed, !.inode = inode, !.expects = expects, !.digest = digest]
  <1>2. /\ pc[p] = "request" /\ pc[p] \in UnderLock \ {"recheck"}
        /\ resumed => call[p].offset > 0
        /\ tmp' = inode
        /\ data' = (IF resumed /\ tmp # None THEN data ELSE [data EXCEPT ![inode] = <<>>])
        /\ call' = [call EXCEPT ![p] = c] /\ pc' = [pc EXCEPT ![p] = "stream"]
        /\ UNCHANGED <<profile, target, before, holder, restarts>>
    BY <1>1 DEF Begin, Goto, Update, UnderLock
  <1>3. /\ call[p] \in Calls /\ Sound(p) /\ call \in [Procs -> Calls]
        /\ pc \in [Procs -> {"start", "lock"} \cup UnderLock \cup Ended]
    BY DEF IInv, ControlOK
  <1>4. expects \in Versions \cup {None} /\ (profile.hashed => expects = "new")
    BY <1>2, ExpectedTyped DEF IInv
  <1>5. inode \in Inodes /\ inode # target /\ inode # None
    <2>1. tmp \in Names /\ Apart
      BY DEF IInv, FilesOK
    <2>2. None \notin Inodes
      BY ConstantsOK
    <2> QED BY <2>1, <2>2, FreeInode DEF Apart, Names
  <1>6. Stored(tmp) \in Seq(Blocks) /\ call[p].offset = Len(Stored(tmp))
    BY <1>2, <1>3 DEF IInv, FilesOK, Stored, Names, Sound, AtEnd
  <1>7. resumed => tmp # None
    BY <1>2, <1>6 DEF Stored
  <1>8. Stored(tmp)' = IF resumed THEN Stored(tmp) ELSE <<>>
    <2>1. Stored(tmp)' = data'[inode]
      BY <1>2, <1>5 DEF Stored
    <2>2. data \in [Inodes -> Seq(Blocks)]
      BY DEF IInv, FilesOK
    <2>3. CASE resumed
      BY <1>2, <1>7, <2>1, <2>3 DEF Stored
    <2>4. CASE ~resumed
      BY <1>2, <1>5, <2>1, <2>2, <2>4
    <2> QED BY <2>3, <2>4
  <1>9. /\ offset \in Nat /\ digest \in Seq(Blocks)
        /\ digest # Unread => digest = Stored(tmp)'
        /\ Len(Stored(tmp)') = offset
    BY <1>3, <1>6, <1>8, UnreadTyped DEF Calls
  <1> HIDE DEF inode, expects, offset, digest
  <1>10. /\ c \in Calls /\ c.inode = inode /\ c.got = 0 /\ c.expects = expects
         /\ c.offset = offset /\ c.digest = digest
    <2>1. call[p] \in Calls /\ inode \in Names
      BY <1>3, <1>5 DEF Names
    <2>2. offset \in Nat /\ digest \in Seq(Blocks) /\ expects \in Versions \cup {None}
      BY <1>4, <1>9
    <2> QED BY <2>1, <2>2 DEF Calls
  <1>11. pc'[p] = "stream" /\ call'[p] = c
    BY <1>2, <1>3
  <1> HIDE DEF c
  <1>12. HasLock(p)' => Sound(p)'
    <2>1. tmp' # None /\ c.inode = tmp'
      BY <1>2, <1>5, <1>10
    <2>4. profile'.hashed => c.expects = "new"
      BY <1>2, <1>4, <1>10
    <2>2. Len(Stored(tmp)') = c.offset + c.got
      BY <1>9, <1>10
    <2>3. c.digest # Unread => Stored(tmp)' = c.digest
      BY <1>9, <1>10
    <2> QED BY <1>11, <2>1, <2>2, <2>3, <2>4 DEF Sound, NoHandle, NothingRead, AtEnd,
            HasFile, HasHash, DigestTrue, SizeTrue, HashTrue
  <1>13. ControlOK'
    <2>1. "stream" \in UnderLock
      BY DEF UnderLock
    <2> QED BY <1>2, <1>10, <1>12, <2>1, MoveStep DEF IInv
  <1>14. FilesOK'
    <2>1. <<>> \in Seq(Blocks)
      OBVIOUS
    <2> QED BY <1>2, <1>5, <2>1, FilesWritten DEF IInv
  <1> QED BY <1>13, <1>14 DEF IInv
\* A block goes to the end of the file and of what is hashed.
LEMMA ChunkStep ==
  ASSUME SameLock, IInv, NEW p \in Procs, Chunk(p) PROVE IInv'
  <1> DEFINE c == call[p]
             at == c.offset + c.got + 1
             block == <<c.version, at>>
             digest == IF c.digest = Unread THEN c.digest ELSE Append(c.digest, block)
             d == [c EXCEPT !.got = @ + 1, !.digest = digest]
             s == IF c.append THEN Append(data[c.inode], block) ELSE Written(data[c.inode], at, block)
  <1>1. /\ pc[p] = "stream" /\ pc[p] \in UnderLock \ {"recheck"} /\ at <= Length[c.version]
        /\ UNCHANGED <<profile, target, before, restarts>>
    BY DEF Chunk, UnderLock
  <1>2. /\ c \in Calls /\ Sound(p) /\ call \in [Procs -> Calls]
        /\ pc \in [Procs -> {"start", "lock"} \cup UnderLock \cup Ended]
    BY DEF IInv, ControlOK
  <1>3. CASE Reject(p, "size") /\ UNCHANGED data
    <2>1. ControlOK' /\ tmp' = None
      BY <1>1, <1>3, RejectStep DEF IInv
    <2>2. FilesOK'
      BY <1>1, <1>3, <2>1, FilesKept DEF IInv, FilesOK
    <2> QED BY <2>1, <2>2 DEF IInv
  <1>4. CASE /\ data' = [data EXCEPT ![c.inode] = IF c.append THEN Append(@, block)
                                                 ELSE Written(@, at, block)]
             /\ Update(p, d)
             /\ UNCHANGED <<tmp, holder, pc>>
    <2>1. /\ c.inode = tmp /\ tmp # None /\ Len(Stored(tmp)) = c.offset + c.got
          /\ (c.digest # Unread => Stored(tmp) = c.digest)
          /\ (profile.hashed => c.expects = "new")
      BY <1>1, <1>2 DEF Sound, AtEnd, HasFile, DigestTrue, HasHash
    <2>2. /\ tmp \in Names /\ Apart /\ data \in [Inodes -> Seq(Blocks)]
      BY DEF IInv, FilesOK
    <2>3. tmp \in Inodes /\ tmp # target
      BY <2>1, <2>2 DEF Apart, Names
    <2>4. data[tmp] \in Seq(Blocks) /\ Stored(tmp) = data[tmp]
      BY <2>1, <2>2, <2>3 DEF Stored
    <2>5. c.offset \in Nat /\ c.got \in Nat /\ c.version \in Versions /\ c.digest \in Seq(Blocks)
      BY <1>2 DEF Calls
    <2>6. block \in Blocks
      <3>1. at \in 1..Length[c.version]
        BY <1>1, <2>5, ConstantsOK
      <3> QED BY <2>5, <3>1 DEF Blocks
    <2>7. s = Append(data[tmp], block)
      <3>1. at = Len(data[tmp]) + 1
        BY <2>1, <2>4, <2>5
      <3> QED BY <2>1, <2>4, <2>6, <3>1, WrittenAtEnd
    <2>8. data' = [data EXCEPT ![tmp] = s]
      BY <1>4, <2>1
    <2> HIDE DEF block, s
    <2>9. /\ s \in Seq(Blocks) /\ Len(s) = Len(data[tmp]) + 1
      BY <2>4, <2>6, <2>7, AppendProperties
    <2>10. /\ d \in Calls /\ d.inode = tmp /\ d.offset = c.offset /\ d.got = c.got + 1
           /\ d.expects = c.expects
           /\ (d.digest # Unread => d.digest = Append(c.digest, block) /\ c.digest # Unread)
      <3>1. digest \in Seq(Blocks)
        BY <2>5, <2>6
      <3>2. digest # Unread => digest = Append(c.digest, block) /\ c.digest # Unread
        OBVIOUS
      <3>3. c \in Calls /\ c.inode = tmp /\ c.got \in Nat
        BY <1>2, <2>1, <2>5
      <3> HIDE DEF c, digest
      <3>4. c.got + 1 \in Nat
        BY <3>3
      <3>5. d \in Calls
        BY <3>1, <3>3, <3>4 DEF Calls
      <3>6. /\ d.inode = c.inode /\ d.offset = c.offset /\ d.got = c.got + 1
            /\ d.expects = c.expects /\ d.digest = digest
        BY <3>3 DEF Calls
      <3> HIDE DEF d
      <3> QED BY <3>2, <3>3, <3>5, <3>6
    <2> HIDE DEF d
    <2>11. Stored(tmp)' = s
      BY <1>4, <2>1, <2>2, <2>3, <2>8 DEF Stored
    <2>12. pc'[p] = "stream" /\ call'[p] = d /\ tmp' = tmp
      BY <1>1, <1>2, <1>4 DEF Update
    <2>13. HasLock(p)' => Sound(p)'
      <3>1. Len(Stored(tmp)') = d.offset + d.got
        <4>1. Len(s) = c.offset + c.got + 1
          BY <2>1, <2>4, <2>9, Zenon
        <4>2. c.offset + c.got + 1 = d.offset + d.got
          BY <2>5, <2>10
        <4> QED BY <2>11, <4>1, <4>2, Zenon
      <3>2. d.digest # Unread => Stored(tmp)' = d.digest
        BY <2>1, <2>4, <2>7, <2>10, <2>11
      <3>3. profile'.hashed => d.expects = "new"
        BY <1>1, <2>1, <2>10
      <3> HIDE DEF c
      <3> QED BY <2>1, <2>10, <2>12, <3>1, <3>2, <3>3 DEF Sound, NoHandle, NothingRead, AtEnd,
              HasFile, HasHash, DigestTrue, SizeTrue, HashTrue
    <2>14. ControlOK'
      <3>1. pc' = [pc EXCEPT ![p] = "stream"] /\ call' = [call EXCEPT ![p] = d]
        BY <1>1, <1>2, <1>4 DEF Update
      <3>2. "stream" \in UnderLock /\ holder' = holder
        BY <1>4 DEF UnderLock
      <3> QED BY <1>1, <2>10, <2>13, <3>1, <3>2, MoveStep DEF IInv
    <2>15. FilesOK'
      BY <1>1, <1>4, <2>3, <2>8, <2>9, FilesWritten DEF IInv
    <2> QED BY <2>14, <2>15 DEF IInv
  <1> QED BY <1>3, <1>4 DEF Chunk

LEMMA BodyBreaksStep ==
  ASSUME SameLock, IInv, NEW p \in Procs, BodyBreaks(p) PROVE IInv'
  <1>1. /\ pc[p] \in UnderLock \ {"recheck"} /\ Retry(p)
        /\ UNCHANGED <<profile, data, target, tmp, before, restarts>>
    BY DEF BodyBreaks, UnderLock
  <1>2. ControlOK'
    BY <1>1, RetryStep DEF IInv
  <1>3. FilesOK'
    BY <1>1, FilesKept DEF IInv, FilesOK
  <1> QED BY <1>2, <1>3 DEF IInv

LEMMA BodyEndsStep ==
  ASSUME SameLock, IInv, NEW p \in Procs, BodyEnds(p) PROVE IInv'
  <1> DEFINE c == call[p]
             received == c.offset + c.got
             d == [Closed(p) EXCEPT !.digest = c.digest]
  <1>1. /\ pc[p] = "stream" /\ pc[p] \in UnderLock
        /\ UNCHANGED <<profile, data, target, before, restarts>>
    BY DEF BodyEnds, UnderLock
  <1>2. CASE Reject(p, "size")
    <2>1. ControlOK' /\ tmp' = None
      BY <1>1, <1>2, RejectStep DEF IInv
    <2>2. FilesOK'
      BY <1>1, <2>1, FilesKept DEF IInv, FilesOK
    <2> QED BY <2>1, <2>2 DEF IInv
  <1>3. CASE /\ ~(profile.sized /\ received # Size)
             /\ Update(p, d) /\ Goto(p, "finish") /\ UNCHANGED <<tmp, holder>>
    <2>1. /\ c \in Calls /\ Sound(p) /\ call \in [Procs -> Calls]
          /\ pc \in [Procs -> {"start", "lock"} \cup UnderLock \cup Ended]
      BY DEF IInv, ControlOK
    <2>2. /\ tmp # None /\ Len(Stored(tmp)) = received
          /\ (c.digest # Unread => Stored(tmp) = c.digest)
          /\ (profile.hashed => c.expects = "new")
      BY <1>1, <2>1 DEF Sound, AtEnd, HasFile, DigestTrue, HasHash
    <2>3. c.digest \in Seq(Blocks) /\ c.tries \in 0..MaxRetries
            /\ c.expects \in Versions \cup {None}
      BY <2>1 DEF Calls
    <2>4. d \in Calls
      BY <2>3, ClosedTyped DEF IInv
    <2>5. d.inode = None /\ d.digest = c.digest /\ d.expects = c.expects
      BY DEF Closed, Fresh
    <2> HIDE DEF d
    <2>6. pc'[p] = "finish" /\ call'[p] = d /\ tmp' = tmp /\ profile' = profile
          /\ Stored(tmp)' = Stored(tmp)
      BY <1>1, <1>3, <2>1 DEF Goto, Update, Stored
    <2>7. HasLock(p)' => Sound(p)'
      <3>1. profile'.sized => Len(Stored(tmp)') = Size
        BY <1>3, <2>2, <2>6
      <3>2. d.digest # Unread => Stored(tmp)' = d.digest
        BY <2>2, <2>5, <2>6
      <3>3. profile'.hashed => d.expects = "new"
        BY <2>2, <2>5, <2>6
      <3> HIDE DEF c, received
      <3> QED BY <2>2, <2>5, <2>6, <3>1, <3>2, <3>3 DEF Sound, NoHandle, NothingRead, AtEnd,
              HasFile, HasHash, DigestTrue, SizeTrue, HashTrue
    <2>8. ControlOK'
      <3>1. pc' = [pc EXCEPT ![p] = "finish"] /\ call' = [call EXCEPT ![p] = d]
        BY <1>3 DEF Goto, Update
      <3>2. "finish" \in UnderLock /\ holder' = holder
        BY <1>3 DEF UnderLock
      <3> QED BY <1>1, <2>4, <2>7, <3>1, <3>2, MoveStep DEF IInv
    <2>9. FilesOK'
      BY <1>1, <1>3, FilesKept DEF IInv, FilesOK
    <2> QED BY <2>8, <2>9 DEF IInv
  <1> QED BY <1>2, <1>3 DEF BodyEnds

\* What is hashed is what is stored, so what passes may be renamed.
LEMMA FinishStep ==
  ASSUME SameLock, IInv, NEW p \in Procs, Finish(p) PROVE IInv'
  <1> DEFINE c == call[p]
             actual == IF c.digest = Unread THEN Stored(tmp) ELSE c.digest
  <1>1. /\ pc[p] = "finish" /\ pc[p] \in UnderLock \ {"recheck"}
        /\ UNCHANGED <<profile, data, target, before, restarts>>
    BY DEF Finish, UnderLock
  <1>2. CASE /\ c.expects = None \/ actual = Object(c.expects)
             /\ Goto(p, "publish") /\ UNCHANGED <<tmp, holder, call>>
    <2>1. /\ c \in Calls /\ Sound(p) /\ call \in [Procs -> Calls]
          /\ pc \in [Procs -> {"start", "lock"} \cup UnderLock \cup Ended]
      BY DEF IInv, ControlOK
    <2>2. /\ tmp # None /\ c.inode = None /\ (c.digest # Unread => Stored(tmp) = c.digest)
          /\ (profile.hashed => c.expects = "new")
          /\ (profile.sized => Len(Stored(tmp)) = Size)
      BY <1>1, <2>1 DEF Sound, NoHandle, HasFile, DigestTrue, HasHash, SizeTrue
    <2>3. actual = Stored(tmp)
      BY <2>2
    <2>4. pc' = [pc EXCEPT ![p] = "publish"] /\ call' = [call EXCEPT ![p] = c]
      BY <1>2, <2>1 DEF Goto
    <2>5. pc'[p] = "publish" /\ call'[p] = c /\ tmp' = tmp /\ profile' = profile
          /\ Stored(tmp)' = Stored(tmp)
      BY <1>1, <1>2, <2>1, <2>4 DEF Stored
    <2>6. profile.hashed => Stored(tmp) = Object("new")
      BY <1>2, <2>2, <2>3 DEF None
    <2>7. HasLock(p)' => Sound(p)'
      <3> HIDE DEF c
      <3> QED BY <2>2, <2>5, <2>6 DEF Sound, NoHandle, NothingRead, AtEnd,
              HasFile, HasHash, DigestTrue, SizeTrue, HashTrue, Object
    <2>8. ControlOK'
      <3>1. "publish" \in UnderLock /\ holder' = holder
        BY <1>2 DEF UnderLock
      <3> QED BY <1>1, <2>1, <2>4, <2>7, <3>1, MoveStep DEF IInv
    <2>9. FilesOK'
      BY <1>1, <1>2, FilesKept DEF IInv, FilesOK
    <2> QED BY <2>8, <2>9 DEF IInv
  <1>3. CASE Retry(p) /\ UNCHANGED tmp
    <2>1. ControlOK'
      BY <1>1, <1>3, RetryStep DEF IInv
    <2>2. FilesOK'
      BY <1>1, <1>3, FilesKept DEF IInv, FilesOK
    <2> QED BY <2>1, <2>2 DEF IInv
  <1>4. CASE Reject(p, "hash")
    <2>1. ControlOK' /\ tmp' = None
      BY <1>1, <1>4, RejectStep DEF IInv
    <2>2. FilesOK'
      BY <1>1, <2>1, FilesKept DEF IInv, FilesOK
    <2> QED BY <2>1, <2>2 DEF IInv
  <1> QED BY <1>2, <1>3, <1>4 DEF Finish

LEMMA PublishStep ==
  ASSUME SameLock, IInv, NEW p \in Procs, Publish(p) PROVE IInv'
  <1>1. /\ pc[p] = "publish" /\ pc[p] \in UnderLock /\ Sound(p)
        /\ UNCHANGED <<profile, data, before, restarts>>
    BY DEF Publish, UnderLock, IInv, ControlOK
  <1>2. tmp # None
    BY <1>1 DEF Sound, HasFile
  <1>3. target' = tmp /\ tmp' = None /\ Leave(p, "done")
    BY <1>2 DEF Publish
  <1>4. ControlOK'
    <2>1. "done" \in Ended
      BY DEF Ended
    <2> QED BY <1>1, <1>3, <2>1, LeaveStep DEF IInv
  <1>5. profile.hashed => Stored(target)' = Object("new")
    BY <1>1, <1>2, <1>3 DEF Sound, HashTrue, Stored
  <1>6. FilesOK'
    BY <1>1, <1>2, <1>3, <1>5 DEF IInv, FilesOK, Apart, OnlyGoodInPlace, ForcedNeverMissing,
       Names, Object
  <1> QED BY <1>4, <1>6 DEF IInv

LEMMA DeadlineStep ==
  ASSUME SameLock, IInv, NEW p \in Procs, Deadline(p) PROVE IInv'
  <1>1. Leave(p, "stopped") /\ "stopped" \in Ended
        /\ UNCHANGED <<profile, data, target, tmp, before, restarts>>
    BY DEF Deadline, Ended
  <1>2. ControlOK'
    BY <1>1, LeaveStep DEF IInv
  <1>3. FilesOK'
    BY <1>1, FilesKept DEF IInv, FilesOK
  <1> QED BY <1>2, <1>3 DEF IInv

LEMMA CrashStep ==
  ASSUME SameLock, IInv, NEW p \in Procs, Crash(p) PROVE IInv'
  <1>1. Leave(p, "crashed") /\ "crashed" \in Ended
        /\ UNCHANGED <<profile, data, target, tmp, before, restarts>>
    BY DEF Crash, Ended
  <1>2. ControlOK'
    BY <1>1, LeaveStep DEF IInv
  <1>3. FilesOK'
    BY <1>1, FilesKept DEF IInv, FilesOK
  <1> QED BY <1>2, <1>3 DEF IInv
-----------------------------------------------------------------------------
(* The specification                                                        *)

\* At first the target and the partial file, if any, are two files, and nobody runs.
LEMMA InitOK == Init => IInv
  <1> SUFFICES ASSUME Init PROVE IInv
    OBVIOUS
  <1>1. PICK was \in {<<>>} \cup {Object(v) : v \in Copies}, left \in {<<>>} \cup Leftovers :
          LET i == CHOOSE k \in Inodes : TRUE
              j == CHOOSE k \in Inodes : k # i
          IN /\ before = was
             /\ data = [k \in Inodes |-> CASE k = i -> was [] k = j -> left [] OTHER -> <<>>]
             /\ target = (IF was = <<>> THEN None ELSE i)
             /\ tmp = (IF left = <<>> THEN None ELSE j)
    BY DEF Init
  <1> DEFINE i == CHOOSE k \in Inodes : TRUE
             j == CHOOSE k \in Inodes : k # i
  <1>2. i \in Inodes /\ j \in Inodes /\ j # i
    <2>1. \E k \in Inodes : TRUE
      BY ConstantsOK DEF Names
    <2>2. i \in Inodes
      BY <2>1
    <2>3. \E k \in Inodes : k # i
      <3>1. i \in Names
        BY <2>2 DEF Names
      <3> QED BY <3>1, ConstantsOK
    <2> HIDE DEF i
    <2> QED BY <2>2, <2>3
  <1>3. /\ before = was /\ target = (IF was = <<>> THEN None ELSE i)
        /\ tmp = (IF left = <<>> THEN None ELSE j)
        /\ data = [k \in Inodes |-> CASE k = i -> was [] k = j -> left [] OTHER -> <<>>]
    BY <1>1
  <1> HIDE DEF i, j
  <1>4. was \in Seq(Blocks) /\ left \in Seq(Blocks) /\ <<>> \in Seq(Blocks)
    <2>1. Copies \subseteq Versions /\ Leftovers \subseteq Seq(Blocks) /\ <<>> \in Seq(Blocks)
      BY ConstantsOK
    <2>2. \A v \in Copies : Object(v) \in Seq(Blocks)
      BY <2>1, ObjectTyped
    <2> QED BY <2>1, <2>2
  <1>5. /\ data \in [Inodes -> Seq(Blocks)] /\ data[i] = was
    BY <1>2, <1>3, <1>4
  <1>6. /\ target \in Names /\ tmp \in Names /\ Apart
        /\ (before # <<>> => target # None) /\ Stored(target) = before
    <2>1. None \notin Inodes
      BY ConstantsOK
    <2> QED BY <1>2, <1>3, <1>5, <2>1 DEF Names, Apart, Stored
  <1>7. FilesOK
    BY <1>3, <1>4, <1>5, <1>6, ConstantsOK DEF Init, FilesOK, OnlyGoodInPlace, ForcedNeverMissing
  <1>8. ControlOK
    <2>1. /\ holder \in [Locks -> Procs \cup {None}] /\ call \in [Procs -> Calls]
          /\ pc \in [Procs -> {"start", "lock"} \cup UnderLock \cup Ended]
      BY FreshTyped DEF Init
    <2>2. \A p \in Procs : pc[p] = "start" /\ call[p].inode = None
      BY DEF Init, Fresh
    <2>3. \A p \in Procs : Sound(p)
      BY <2>2 DEF Sound, HasLock, NoHandle, NothingRead, AtEnd, HasFile, HasHash, DigestTrue,
         SizeTrue, HashTrue, UnderLock
    <2> QED BY <2>1, <2>3 DEF ControlOK
  <1> QED BY <1>7, <1>8 DEF IInv

LEMMA NextKeeps == ASSUME SameLock, IInv, [Next]_vars PROVE IInv'
  <1>1. CASE UNCHANGED vars
    BY <1>1 DEF vars, IInv, FilesOK, ControlOK, Apart, OnlyGoodInPlace, ForcedNeverMissing,
       Sound, HasLock, NoHandle, NothingRead, AtEnd, HasFile, HasHash, DigestTrue, SizeTrue,
       HashTrue, Stored
  <1>2. ASSUME NEW p \in Procs, Step(p) PROVE IInv'
    BY <1>2, CheckCacheStep, AcquireStep, LockTimesOutStep, RecheckStep, AttemptKeeps,
       RequestFailsStep, RangeRefusedStep, WrongSizeAnnouncedStep, RespondStep, ChunkStep,
       BodyBreaksStep, BodyEndsStep, FinishStep, PublishStep DEF Step
  <1> QED BY <1>1, <1>2, DeadlineStep, CrashStep, RestartStep DEF Next, Rest

THEOREM Invariance == ASSUME SameLock PROVE Spec => []IInv
  <1>1. IInv /\ [Next]_vars => IInv'
    BY NextKeeps
  <1> QED BY <1>1, InitOK, PTL DEF Spec

\* Every variable keeps its type, and no call goes beyond its retries.
THEOREM TypeCorrect == ASSUME SameLock PROVE Spec => []TypeOK
  <1>1. IInv => TypeOK
    BY DEF IInv, FilesOK, ControlOK, TypeOK
  <1> QED BY <1>1, Invariance, PTL

\* Given its hash, the target holds the file, nothing, or what a forced download is to
\* replace (_finish_download renames only what it has compared).
THEOREM OnlyGoodIsInPlace == ASSUME SameLock PROVE Spec => []OnlyGoodInPlace
  <1>1. IInv => OnlyGoodInPlace
    BY DEF IInv, FilesOK
  <1> QED BY <1>1, Invariance, PTL

\* A forced download never takes away the file before its replacement is there
\* (_download_file keeps it until the rename).
THEOREM ForcedIsNeverMissing == ASSUME SameLock PROVE Spec => []ForcedNeverMissing
  <1>1. IInv => ForcedNeverMissing
    BY DEF IInv, FilesOK
  <1> QED BY <1>1, Invariance, PTL

\* One partial file has one writer (_optional_file_lock around the whole attempt).
THEOREM OneWriterOnly == ASSUME SameLock PROVE Spec => []OneWriter
  <1>1. ASSUME IInv PROVE OneWriter
    <2> SUFFICES ASSUME NEW p \in Procs, NEW q \in Procs, p # q, call[p].inode # None,
                        call[p].inode = call[q].inode
                 PROVE  FALSE
      BY DEF OneWriter
    <2>1. ControlOK /\ Sound(p) /\ Sound(q)
      BY <1>1 DEF IInv, ControlOK
    <2>2. pc[p] \in UnderLock /\ pc[q] \in UnderLock
      BY <2>1 DEF Sound, NoHandle, UnderLock
    <2> QED BY <2>1, <2>2, Exclusive
  <1> QED BY <1>1, Invariance, PTL

\* Only a cache hit and the rename let a call return.
LEMMA ReturnedBy ==
  ASSUME NEW p \in Procs, NEW q \in Procs, Step(q) \/ Deadline(q) \/ Crash(q) \/ Restart(q),
         pc \in [Procs -> {"start", "lock"} \cup UnderLock \cup Ended],
         pc[p] # "done", pc'[p] = "done"
  PROVE  (CacheHit /\ UNCHANGED <<target, data>>) \/ (Publish(p) /\ tmp # None)
  <1>1. ASSUME NEW where, pc' = [pc EXCEPT ![q] = where]
        PROVE  where = "done" /\ q = p
    BY <1>1
  <1>2. pc' # pc
    OBVIOUS
  <1>3. ASSUME NEW kind, Reject(q, kind) PROVE FALSE
    BY <1>1, <1>3 DEF Reject, Leave, Goto
  <1>4. ASSUME NEW expects, Again(q, expects) PROVE FALSE
    BY <1>1, <1>4 DEF Again, Leave, Goto
  <1>5. CASE CheckCache(q)
    <2>1. CASE CacheHit
      BY <1>5, <2>1 DEF CheckCache
    <2>2. CASE ~CacheHit
      BY <1>1, <1>5, <2>2 DEF CheckCache, Goto
    <2> QED BY <2>1, <2>2
  <1>6. CASE Acquire(q) \/ LockTimesOut(q) \/ Attempt(q) \/ Respond(q)
    BY <1>1, <1>6 DEF Acquire, LockTimesOut, Attempt, Respond, Begin, Goto
  <1>7. CASE Recheck(q)
    BY <1>1, <1>7 DEF Recheck, Goto
  <1>8. CASE RequestFails(q) \/ RangeRefused(q) \/ BodyBreaks(q)
    BY <1>4, <1>8 DEF RequestFails, RangeRefused, BodyBreaks, Retry
  <1>9. CASE (\E v \in Versions : WrongSizeAnnounced(q, v)) \/ Chunk(q)
    BY <1>2, <1>3, <1>9 DEF WrongSizeAnnounced, Chunk
  <1>10. CASE BodyEnds(q)
    BY <1>1, <1>3, <1>10 DEF BodyEnds, Goto
  <1>11. CASE Finish(q)
    BY <1>1, <1>3, <1>4, <1>11 DEF Finish, Retry, Goto
  <1>12. CASE Publish(q)
    <2>1. CASE tmp = None
      BY <1>4, <1>12, <2>1 DEF Publish, Retry
    <2>2. CASE tmp # None
      BY <1>1, <1>12, <2>2 DEF Publish, Leave, Goto
    <2> QED BY <2>1, <2>2
  <1>13. CASE Deadline(q) \/ Crash(q) \/ Restart(q)
    BY <1>1, <1>13 DEF Deadline, Crash, Restart, Leave, Goto
  <1> QED BY <1>5, <1>6, <1>7, <1>8, <1>9, <1>10, <1>11, <1>12, <1>13 DEF Step

\* A call that returns has put in place what it was asked for, whatever other processes,
\* crashes, replicas and earlier calls left behind (_finish_download, _cache_hit).
THEOREM WhatIsReturnedIsGood == ASSUME SameLock PROVE Spec => ReturnedIsGood
  <1> DEFINE Returns(p) == pc[p] # "done" /\ pc'[p] = "done" =>
               /\ profile.hashed => target' # None /\ Stored(target)' = Object("new")
               /\ profile.sized  => target' # None /\ Len(Stored(target)') = Size
  <1>1. ASSUME IInv, Next, NEW p \in Procs PROVE Returns(p)
    <2> SUFFICES ASSUME pc[p] # "done", pc'[p] = "done"
                 PROVE  /\ profile.hashed => target' # None /\ Stored(target)' = Object("new")
                        /\ profile.sized  => target' # None /\ Len(Stored(target)') = Size
      OBVIOUS
    <2>1. /\ pc \in [Procs -> {"start", "lock"} \cup UnderLock \cup Ended] /\ Sound(p)
      BY <1>1 DEF IInv, ControlOK
    <2>2. CASE CacheHit /\ target' = target /\ data' = data
      BY <2>2 DEF CacheHit, Stored, Object
    <2>3. CASE Publish(p) /\ tmp # None
      <3>1. target' = tmp /\ data' = data /\ pc[p] = "publish"
        BY <2>3 DEF Publish
      <3> QED BY <2>1, <2>3, <3>1 DEF Sound, SizeTrue, HashTrue, Stored, Object
    <2>4. pc' # pc
      OBVIOUS
    <2>5. PICK q \in Procs : Step(q) \/ Deadline(q) \/ Crash(q) \/ Restart(q)
      BY <1>1, <2>4 DEF Next, Rest, vars
    <2> QED BY <2>1, <2>2, <2>3, <2>5, ReturnedBy
  <1>2. IInv /\ [Next]_vars => [\A p \in Procs : Returns(p)]_vars
    BY <1>1
  <1> QED BY <1>2, Invariance, PTL DEF Spec, ReturnedIsGood
=============================================================================
