---------------------------- MODULE DownloadFile ----------------------------
(***************************************************************************)
(* DownloadManager.download_file over a single stream (_download.py): the   *)
(* cache check, the file lock, the resumable partial file, the checks of    *)
(* every answer, the verification, the rename and the retries, by several   *)
(* processes that may die at any step and be started again.                 *)
(*                                                                          *)
(* An object is a sequence of blocks, each of the version it came from.  The *)
(* listing describes the version "new"; a replica may serve another one.    *)
(* Files are inodes: a name and the open files of processes may share one.  *)
(* Locks are those of the operating system, which outlive no process.       *)
(***************************************************************************)
EXTENDS Integers, FiniteSets, Sequences

CONSTANTS
  Procs,           \* processes that download the file to one target
  Locks, LockOf,   \* the lock file of each: it depends on cache_dir, the target need not
  Inodes,          \* enough of them for every name and open file
  Length,          \* blocks of each version that a server may send
  Copies,          \* versions that the target may hold at first
  Leftovers,       \* what an earlier call may have left in the partial file
  Profiles,        \* what the calls are given: hashed, linked, sized, force
  MaxRetries,      \* DOWNLOAD_RETRY_TIMES
  HashTries,       \* DOWNLOAD_HASH_RETRY_TIMES
  SizeTries,       \* DOWNLOAD_SIZE_RETRY_TIMES
  MaxRestarts      \* bound on the calls after the first of each process (model bound)

Versions == DOMAIN Length

None      == "none"
Unread    == <<<<"unread">>>>
Object(v) == [i \in 1..Length[v] |-> <<v, i>>]
Size      == Length["new"]
Blocks    == {<<"zero">>, <<"unread">>} \cup
             UNION {{<<v, i>> : i \in 1..Length[v]} : v \in Versions}
Names     == Inodes \cup {None}

ASSUME ConstantsOK ==
  /\ LockOf \in [Procs -> Locks]
  /\ "new" \in Versions /\ Length \in [Versions -> Nat \ {0}]
  /\ Copies \subseteq Versions /\ Leftovers \subseteq Seq(Blocks)
  /\ None \notin Inodes \cup Procs
  /\ \A i, j \in Names : \E k \in Inodes : k \notin {i, j}
  /\ Profiles \subseteq [hashed : BOOLEAN, linked : BOOLEAN, sized : BOOLEAN, force : BOOLEAN]
  /\ MaxRetries \in Nat /\ HashTries \in Nat \ {0} /\ SizeTries \in Nat \ {0}
  /\ MaxRestarts \in Nat

VARIABLES
  profile,         \* expected_sha256 given; X-Linked-ETag sent; file_size given; force
  data,            \* what each inode holds
  target, tmp,     \* the inode of the target and of its .incomplete file
  before,          \* history: what the target held at first
  holder,          \* who holds each lock file
  pc, restarts,
  call             \* the locals of each call

vars == <<profile, data, target, tmp, before, holder, pc, restarts, call>>

Ended     == {"done", "failed", "stopped", "crashed"}
UnderLock == {"recheck", "attempt", "request", "stream", "finish", "publish"}

\* A call that has yet to send a request.  inode is that of the open partial file,
\* expects the version whose hash is expected, digest what was hashed on the way.
Fresh == [offset |-> 0, got |-> 0, version |-> "new", sized |-> FALSE, append |-> FALSE,
          inode |-> None, digest |-> Unread, expects |-> None, tries |-> 0,
          hash |-> 0, size |-> 0]

Init ==
  /\ profile \in Profiles
  /\ \E was \in {<<>>} \cup {Object(v) : v \in Copies}, left \in {<<>>} \cup Leftovers :
       LET i == CHOOSE k \in Inodes : TRUE
           j == CHOOSE k \in Inodes : k # i
       IN /\ before = was
          /\ data = [k \in Inodes |-> CASE k = i -> was [] k = j -> left [] OTHER -> <<>>]
          /\ target = (IF was = <<>> THEN None ELSE i)
          /\ tmp = (IF left = <<>> THEN None ELSE j)
  /\ holder = [l \in Locks |-> None]
  /\ pc = [p \in Procs |-> "start"] /\ restarts = 0
  /\ call = [p \in Procs |-> Fresh]

-----------------------------------------------------------------------------
(* Files                                                                    *)

Used(i) == i \in {target, tmp} \/ \E p \in Procs : call[p].inode = i
NewInode == CHOOSE i \in Inodes : ~Used(i)

Stored(name) == IF name = None THEN <<>> ELSE data[name]

\* write() at the end of the file, or at the position of the handle, where a gap
\* that another process left by truncating the file reads as zeros.
Written(s, at, block) ==
  [i \in 1..(IF at > Len(s) THEN at ELSE Len(s)) |->
     IF i = at THEN block ELSE IF i <= Len(s) THEN s[i] ELSE <<"zero">>]

Goto(p, where)  == pc' = [pc EXCEPT ![p] = where]
Update(p, c)    == call' = [call EXCEPT ![p] = c]

\* What outlives one response: the expected hash and the counts.
Closed(p) == [Fresh EXCEPT !.expects = call[p].expects, !.tries = call[p].tries,
                           !.hash = call[p].hash, !.size = call[p].size]

\* The call ends: the lock is released and its locals are gone.
Leave(p, how) ==
  /\ Goto(p, how)
  /\ holder' = [l \in Locks |-> IF holder[l] = p THEN None ELSE holder[l]]
  /\ Update(p, Fresh)

-----------------------------------------------------------------------------
(* _download_file                                                           *)

\* _cache_hit
CacheHit == /\ target # None
            /\ profile.sized => Len(data[target]) = Size
            /\ profile.hashed => data[target] = Object("new")

CheckCache(p) ==
  /\ pc[p] = "start"
  /\ Goto(p, IF ~profile.force /\ CacheHit THEN "done" ELSE "lock")
  /\ UNCHANGED <<profile, data, target, tmp, before, holder, restarts, call>>

\* (Mutant: the lock does not exclude.)
AcquireAnyway(p) ==
  /\ pc[p] = "lock"
  /\ holder' = [holder EXCEPT ![LockOf[p]] = p]
  /\ Goto(p, "recheck")
  /\ UNCHANGED <<profile, data, target, tmp, before, restarts, call>>

Acquire(p) ==
  /\ pc[p] = "lock" /\ holder[LockOf[p]] = None
  /\ holder' = [holder EXCEPT ![LockOf[p]] = p]
  /\ Goto(p, "recheck")
  /\ UNCHANGED <<profile, data, target, tmp, before, restarts, call>>

LockTimesOut(p) ==
  /\ pc[p] = "lock" /\ holder[LockOf[p]] # None
  /\ Goto(p, "stopped")
  /\ UNCHANGED <<profile, data, target, tmp, before, holder, restarts, call>>

NewCall == [Fresh EXCEPT !.expects = IF profile.hashed THEN "new" ELSE None]

\* Another process may have finished.  What is there otherwise failed validation; a
\* forced download keeps it meanwhile.  (Mutant: it does not.)
RecheckDrops(p) ==
  /\ pc[p] = "recheck"
  /\ \/ /\ ~profile.force /\ CacheHit /\ Leave(p, "done")
        /\ UNCHANGED target
     \/ /\ profile.force \/ ~CacheHit
        /\ target' = None
        /\ Update(p, NewCall) /\ Goto(p, "attempt")
        /\ UNCHANGED holder
  /\ UNCHANGED <<profile, data, tmp, before, restarts>>

Recheck(p) ==
  /\ pc[p] = "recheck"
  /\ \/ /\ ~profile.force /\ CacheHit /\ Leave(p, "done")
        /\ UNCHANGED target
     \/ /\ profile.force \/ ~CacheHit
        /\ target' = IF profile.force THEN target ELSE None
        /\ Update(p, NewCall) /\ Goto(p, "attempt")
        /\ UNCHANGED holder
  /\ UNCHANGED <<profile, data, tmp, before, restarts>>

\* The partial file is discarded and the download begins anew, a number of times.
\* (Mutant: the failures are not counted.)
RejectUncounted(p, kind) ==
  /\ tmp' = None
  /\ Update(p, [NewCall EXCEPT !.hash = call[p].hash, !.size = call[p].size])
  /\ Goto(p, "attempt") /\ UNCHANGED holder

Reject(p, kind) ==
  LET hash == call[p].hash + (IF kind = "hash" THEN 1 ELSE 0)
      size == call[p].size + (IF kind = "size" THEN 1 ELSE 0)
  IN
  /\ tmp' = None
  /\ IF (kind = "hash" /\ hash >= HashTries) \/ (kind = "size" /\ size >= SizeTries)
       THEN Leave(p, "failed")
       ELSE /\ Update(p, [NewCall EXCEPT !.hash = hash, !.size = size])
            /\ Goto(p, "attempt") /\ UNCHANGED holder

\* _wait_download_retry: the same partial file is taken up again, unless the error
\* is of a kind that is not retried.  (Mutant: the retries are not counted.)
AgainUncounted(p, expects) ==
  \/ Leave(p, "failed")
  \/ /\ Update(p, [Closed(p) EXCEPT !.tries = @ + 1, !.expects = expects])
     /\ Goto(p, "attempt") /\ UNCHANGED holder

Again(p, expects) ==
  \/ Leave(p, "failed")
  \/ /\ call[p].tries < MaxRetries
     /\ Update(p, [Closed(p) EXCEPT !.tries = @ + 1, !.expects = expects])
     /\ Goto(p, "attempt") /\ UNCHANGED holder

Retry(p) == Again(p, call[p].expects)

-----------------------------------------------------------------------------
(* _download_with_resume, single stream                                     *)

\* A partial file that is too long is dropped; one that has every byte is finished
\* without a request.  (Mutant: also one that has more.)
AttemptTrusting(p) ==
  /\ pc[p] = "attempt"
  /\ LET existing == Len(Stored(tmp)) IN
     \/ /\ tmp # None /\ profile.sized /\ existing >= Size
        /\ Goto(p, "finish") /\ UNCHANGED <<tmp, call>>
     \/ /\ ~(tmp # None /\ profile.sized /\ existing >= Size)
        /\ Update(p, [call[p] EXCEPT !.offset = existing])
        /\ Goto(p, "request") /\ UNCHANGED tmp
  /\ UNCHANGED <<profile, data, target, before, holder, restarts>>

Attempt(p) ==
  /\ pc[p] = "attempt"
  /\ LET existing == Len(Stored(tmp))
         tooLong  == profile.sized /\ existing > Size
     IN
     \/ /\ tmp # None /\ profile.sized /\ existing = Size
        /\ Goto(p, "finish") /\ UNCHANGED <<tmp, call>>
     \/ /\ ~(tmp # None /\ profile.sized /\ existing = Size)
        /\ tmp' = IF tooLong THEN None ELSE tmp
        /\ Update(p, [call[p] EXCEPT !.offset = IF tooLong THEN 0 ELSE existing])
        /\ Goto(p, "request")
  /\ UNCHANGED <<profile, data, target, before, holder, restarts>>

\* No answer, or one that says why there is none.
RequestFails(p) ==
  /\ pc[p] = "request"
  /\ Retry(p)
  /\ UNCHANGED <<profile, data, target, tmp, before, restarts>>

\* The hash a response announces is kept when the caller gave none.
Expected(p, v) == IF call[p].expects = None /\ profile.linked THEN v ELSE call[p].expects

\* 416, or a partial answer that begins elsewhere: the partial file is stale.
RangeRefused(p) ==
  /\ pc[p] = "request"
  /\ tmp' = None
  /\ \/ call[p].offset > 0 /\ Retry(p)
     \/ \E v \in Versions : Again(p, Expected(p, v))
  /\ UNCHANGED <<profile, data, target, before, restarts>>

\* An answer whose total, when it is announced, is not the listed size.
WrongSizeAnnounced(p, v) ==
  /\ pc[p] = "request"
  /\ profile.sized /\ Length[v] # Size
  /\ Reject(p, "size")
  /\ UNCHANGED <<profile, data, target, before, restarts>>

\* The body begins: at the offset asked for (206) or at the start of the file (any
\* other answer).  The hash covers the part that is already there.
Begin(p, v, resumed, announced) ==
  /\ pc[p] = "request"
  /\ resumed => call[p].offset > 0 /\ call[p].offset < Length[v]
  /\ announced /\ profile.sized => Length[v] = Size
  /\ LET inode   == IF tmp = None THEN NewInode ELSE tmp
         expects == Expected(p, v)
     IN /\ resumed /\ expects # None => tmp # None
        /\ tmp' = inode
        /\ data' = IF resumed /\ tmp # None THEN data ELSE [data EXCEPT ![inode] = <<>>]
        /\ Update(p, [call[p] EXCEPT
             !.offset = IF resumed THEN @ ELSE 0, !.got = 0, !.version = v,
             !.sized = announced, !.append = resumed, !.inode = inode, !.expects = expects,
             !.digest = IF expects = None THEN Unread
                        ELSE IF resumed THEN Stored(tmp) ELSE <<>>])
  /\ Goto(p, "stream")
  /\ UNCHANGED <<profile, target, before, holder, restarts>>

Respond(p) ==
  \E v \in Versions, resumed, announced \in BOOLEAN : Begin(p, v, resumed, announced)

\* A block arrives.  One beyond the listed size is refused.
Chunk(p) ==
  LET c == call[p]  at == c.offset + c.got + 1  block == <<c.version, at>> IN
  /\ pc[p] = "stream" /\ at <= Length[c.version]
  /\ IF profile.sized /\ at > Size
       THEN Reject(p, "size") /\ UNCHANGED data
       ELSE /\ data' = [data EXCEPT ![c.inode] = IF c.append THEN Append(@, block)
                                                 ELSE Written(@, at, block)]
            /\ Update(p, [c EXCEPT !.got = @ + 1,
                           !.digest = IF @ = Unread THEN @ ELSE Append(@, block)])
            /\ UNCHANGED <<tmp, holder, pc>>
  /\ UNCHANGED <<profile, target, before, restarts>>

\* The connection breaks with an error, or is closed before the announced length.
BodyBreaks(p) ==
  /\ pc[p] = "stream"
  /\ Retry(p)
  /\ UNCHANGED <<profile, data, target, tmp, before, restarts>>

\* The body ends.  When no length was announced it may be short of the object.
BodyEnds(p) ==
  LET c == call[p]  received == c.offset + c.got IN
  /\ pc[p] = "stream"
  /\ c.sized => received = Length[c.version]
  /\ IF profile.sized /\ received # Size
       THEN Reject(p, "size")
       ELSE /\ Update(p, [Closed(p) EXCEPT !.digest = c.digest])
            /\ Goto(p, "finish") /\ UNCHANGED <<tmp, holder>>
  /\ UNCHANGED <<profile, data, target, before, restarts>>

\* _finish_download: what was hashed on the way counts, else the file is read.
\* (Mutant: a hash mismatch is not looked for.)
FinishUnchecked(p) ==
  /\ pc[p] = "finish"
  /\ Goto(p, "publish") /\ UNCHANGED <<tmp, holder, call>>
  /\ UNCHANGED <<profile, data, target, before, restarts>>

Finish(p) ==
  LET c == call[p]
      actual == IF c.digest = Unread THEN Stored(tmp) ELSE c.digest
  IN
  /\ pc[p] = "finish"
  /\ IF c.expects = None \/ actual = Object(c.expects)
       THEN Goto(p, "publish") /\ UNCHANGED <<tmp, holder, call>>
       ELSE IF c.digest = Unread /\ tmp = None THEN Retry(p) /\ UNCHANGED tmp
       ELSE Reject(p, "hash")
  /\ UNCHANGED <<profile, data, target, before, restarts>>

\* tmp.replace(target): it raises when another process has taken the partial file.
Publish(p) ==
  /\ pc[p] = "publish"
  /\ IF tmp = None
       THEN Retry(p) /\ UNCHANGED <<target, tmp>>
       ELSE target' = tmp /\ tmp' = None /\ Leave(p, "done")
  /\ UNCHANGED <<profile, data, before, restarts>>

-----------------------------------------------------------------------------
\* The time allowed is over, or the call is cancelled: the partial file stays.
Deadline(p) ==
  /\ pc[p] \in UnderLock \cup {"start", "lock"}
  /\ Leave(p, "stopped")
  /\ UNCHANGED <<profile, data, target, tmp, before, restarts>>

\* The process dies, and with it its lock.
Crash(p) ==
  /\ pc[p] \notin Ended
  /\ Leave(p, "crashed")
  /\ UNCHANGED <<profile, data, target, tmp, before, restarts>>

Restart(p) ==
  /\ pc[p] \in Ended /\ restarts < MaxRestarts
  /\ restarts' = restarts + 1
  /\ Goto(p, "start")
  /\ UNCHANGED <<profile, data, target, tmp, before, holder, call>>

Step(p) ==
  \/ CheckCache(p) \/ Acquire(p) \/ LockTimesOut(p) \/ Recheck(p) \/ Attempt(p)
  \/ RequestFails(p) \/ RangeRefused(p)
  \/ \E v \in Versions : WrongSizeAnnounced(p, v)
  \/ Respond(p) \/ Chunk(p) \/ BodyBreaks(p) \/ BodyEnds(p) \/ Finish(p) \/ Publish(p)

\* The system rests once every call is over.
Rest == (\A p \in Procs : pc[p] \in Ended) /\ restarts = MaxRestarts /\ UNCHANGED vars

Next == Rest \/ \E p \in Procs : Step(p) \/ Deadline(p) \/ Crash(p) \/ Restart(p)

Spec == Init /\ [][Next]_vars

\* A process that lives takes its next step.
FairSpec == Spec /\ \A p \in Procs : WF_vars(Step(p))

-----------------------------------------------------------------------------
(* Properties                                                               *)

Calls == [offset : Nat, got : Nat, version : Versions, sized : BOOLEAN, append : BOOLEAN,
          inode : Names, digest : Seq(Blocks), expects : Versions \cup {None},
          tries : 0..MaxRetries, hash : 0..HashTries - 1, size : 0..SizeTries - 1]

\* Every variable has its type, and no call goes beyond its retries.
TypeOK ==
  /\ profile \in Profiles /\ data \in [Inodes -> Seq(Blocks)]
  /\ target \in Names /\ tmp \in Names /\ before \in Seq(Blocks)
  /\ holder \in [Locks -> Procs \cup {None}]
  /\ pc \in [Procs -> {"start", "lock"} \cup UnderLock \cup Ended]
  /\ restarts \in 0..MaxRestarts
  /\ call \in [Procs -> Calls]

\* "A rejected download never remains at the target path": given its hash, the
\* target holds the file, nothing, or what it held before a forced download.
OnlyGoodInPlace ==
  profile.hashed => Stored(target) \in {<<>>, Object("new"), before}

\* A call that returns has put the file in place, whatever other processes and
\* earlier calls left behind: its content, and else its size, is what was given.
ReturnedIsGood ==
  [][\A p \in Procs : pc[p] # "done" /\ pc'[p] = "done" =>
       /\ profile.hashed => target' # None /\ Stored(target)' = Object("new")
       /\ profile.sized  => target' # None /\ Len(Stored(target)') = Size]_vars

\* A forced download never takes away the file before its replacement is there.
ForcedNeverMissing == profile.force /\ before # <<>> => target # None

\* One partial file has one writer.
OneWriter == \A p, q \in Procs : p # q /\ call[p].inode # None => call[p].inode # call[q].inode

\* Every call ends, whatever the server sends and whoever holds the lock.
CallEnds == \A p \in Procs : (pc[p] = "start") ~> (pc[p] \in Ended)
=============================================================================
