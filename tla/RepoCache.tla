------------------------------ MODULE RepoCache ------------------------------
(***************************************************************************)
(* The cache of one repository: download_repo fills a snapshot through a    *)
(* pool of threads (_download.py), offline calls look a snapshot up, and    *)
(* the cache manager scans and clears it (_cache_manager.py).               *)
(*                                                                          *)
(* A copy lies in a snapshot directory of its revision or where an older    *)
(* SDK has left it.  One file's download is DownloadFile's subject: here it *)
(* ends with the file or an error.  A directory exists if it has entries.   *)
(***************************************************************************)
EXTENDS Naturals, FiniteSets, Sequences

CONSTANTS
  Files,
  Hashed,          \* those whose hash the listing tells
  Revisions,       \* with "master"
  MaxWorkers,      \* max_workers
  OldCopies,       \* sets of places where an older SDK may have left a copy
  MaxCommits,      \* commits to the repository, each of one file (model bound)
  MaxCalls         \* calls in all (model bound)

\* {type}s/owner/name, hub/{type}s/owner/name, owner/name and hub/owner/name; the last
\* place is another type's copy below hub/.
Legacy == {"typed", "hub_typed"}
Places == Revisions \cup Legacy \cup {"flat", "hub_flat", "hub_other"}
None   == "none"

ConstantsOK == /\ IsFiniteSet(Files) /\ Hashed \subseteq Files /\ "master" \in Revisions
               /\ OldCopies \subseteq SUBSET (Places \ Revisions)
               /\ MaxWorkers \in Nat \ {0} /\ MaxCommits \in Nat /\ MaxCalls \in Nat

VARIABLES
  remote,          \* each revision's files and their contents; 0: not in it
  tree,            \* the same for every place of the cache
  pc,              \* of the call: "idle", "list", "run", "stop"
  rev, dest,       \* its revision and its output_dir
  want,            \* the files it was told of, with their contents
  queue,           \* items not yet submitted
  pending, active, completed,   \* futures waiting for a thread, running, ended
  failures,
  outcome, place,  \* "ok", "raised" or "cleared", and the path returned
  calls

pool == <<queue, pending, active, completed, failures>>
call == <<rev, dest, want, pool>>
vars == <<remote, tree, pc, call, outcome, place, calls>>

Nothing    == [f \in Files |-> 0]
Entries(p) == {f \in Files : tree[p][f] # 0}

\* An older SDK has left a copy, of whatever revision.
Init ==
  /\ remote = [r \in Revisions |-> [f \in Files |-> 1]]
  /\ \E old \in OldCopies :
       tree = [p \in Places |-> IF p \in old THEN [f \in Files |-> 1] ELSE Nothing]
  /\ pc = "idle" /\ rev = "master" /\ dest = "master" /\ want = Nothing
  /\ queue = {} /\ pending = {} /\ active = {} /\ completed = {} /\ failures = {}
  /\ outcome = None /\ place = None /\ calls = 0

Publish(r, f) ==
  /\ Cardinality({c \in Revisions \X Files : remote[c[1]][c[2]] > 1}) < MaxCommits
  /\ remote[r][f] = 1
  /\ remote' = [remote EXCEPT ![r][f] = @ + 1]
  /\ UNCHANGED <<tree, pc, call, outcome, place, calls>>

\* _find_legacy_repo_dir: the first of the older places that is not empty.
Found == {p \in Legacy : Entries(p) # {}}
LegacyDir == IF "typed" \in Found THEN "typed" ELSE IF Found = {} THEN None ELSE "hub_typed"

Idle == pc = "idle" /\ calls < MaxCalls /\ calls' = calls + 1

\* download_repo: an older copy serves every revision.
Begin(r) ==
  /\ Idle
  /\ rev' = r /\ dest' = (IF LegacyDir # None THEN LegacyDir ELSE r)
  /\ pc' = "list" /\ outcome' = None /\ place' = None /\ failures' = {}
  /\ UNCHANGED <<remote, tree, want, queue, pending, active, completed>>

\* The listing, and the patterns of the call; or it fails.
Listing(sel) == [f \in Files |-> IF f \in sel THEN remote[rev][f] ELSE 0]
PoolWindow == 2 * MaxWorkers
List(sel) ==
  /\ pc = "list"
  /\ want' = Listing(sel)
  /\ \E first \in SUBSET sel :
       /\ Cardinality(first) = IF Cardinality(sel) < PoolWindow THEN Cardinality(sel) ELSE PoolWindow
       /\ pending' = first /\ queue' = sel \ first
  /\ pc' = "run"
  /\ UNCHANGED <<remote, tree, rev, dest, active, completed, failures, outcome, place,
                 calls>>
Raise == pc' = "idle" /\ outcome' = "raised" /\ place' = None
ListFails ==
  /\ pc = "list" /\ Raise
  /\ UNCHANGED <<remote, tree, call, calls>>

\* A thread takes a future: a valid file is a cache hit, anything else is removed first.
\* (Mutant: a file that is there is taken for valid.)
HitAny(f) == tree[dest][f] # 0
Hit(f)    == tree[dest][f] # 0 /\ (f \in Hashed => tree[dest][f] = want[f])
Start(f) ==
  /\ f \in pending /\ Cardinality(active) < MaxWorkers
  /\ pending' = pending \ {f}
  /\ IF Hit(f) THEN completed' = completed \cup {f} /\ UNCHANGED <<tree, active>>
     ELSE /\ active' = active \cup {f} /\ tree' = [tree EXCEPT ![dest][f] = 0]
          /\ UNCHANGED completed
  /\ UNCHANGED <<remote, pc, rev, dest, want, queue, failures, outcome, place, calls>>

\* The download ends: a hash of the listing holds for what was stored, or it fails.
\* A cancelled one fails.
Ends(f, failed) ==
  /\ f \in active /\ active' = active \ {f} /\ completed' = completed \cup {f}
  /\ failures' = IF failed THEN failures \cup {f} ELSE failures
  /\ UNCHANGED <<remote, pc, rev, dest, want, queue, pending, outcome, place, calls>>
Stored(f) ==
  /\ pc = "run" /\ (f \in Hashed => remote[rev][f] = want[f])
  /\ Ends(f, FALSE) /\ tree' = [tree EXCEPT ![dest][f] = remote[rev][f]]
Failed(f) == Ends(f, TRUE) /\ UNCHANGED tree

\* The loop of the calling thread: one result, one more item.
Collect(f) ==
  /\ pc = "run" /\ f \in completed
  /\ completed' = completed \ {f}
  /\ IF queue = {} THEN UNCHANGED <<queue, pending>>
     ELSE \E g \in queue : queue' = queue \ {g} /\ pending' = pending \cup {g}
  /\ UNCHANGED <<remote, tree, pc, rev, dest, want, active, failures, outcome, place, calls>>

\* Ctrl-C: the event is set, what waits is cancelled; shutdown waits for what runs.
Interrupt ==
  /\ pc = "run" /\ pc' = "stop"
  /\ pending' = {} /\ queue' = {}
  /\ UNCHANGED <<remote, tree, rev, dest, want, active, completed, failures, outcome, place,
                 calls>>
Stopped ==
  /\ pc = "stop" /\ active = {} /\ completed' = {} /\ Raise
  /\ UNCHANGED <<remote, tree, rev, dest, want, queue, pending, active, failures, calls>>
\* (Mutant: failures are only logged.)
CompleteLogged == TRUE
Complete       == failures = {}
Done ==
  /\ pc = "run" /\ pending \cup active \cup completed = {}
  /\ pc' = "idle"
  /\ IF Complete THEN outcome' = "ok" /\ place' = dest
     ELSE outcome' = "raised" /\ place' = None
  /\ UNCHANGED <<remote, tree, call, calls>>

\* The process is killed.
Crash ==
  /\ pc # "idle" /\ Raise
  /\ queue' = {} /\ pending' = {} /\ active' = {} /\ completed' = {} /\ failures' = {}
  /\ UNCHANGED <<remote, tree, rev, dest, want, calls>>

\* _resolve_cached_snapshot: the older copy, the revision asked for, or without one the
\* default or the only snapshot.
Snapshots == {r \in Revisions : Entries(r) # {}}
Resolved(r) ==
  IF LegacyDir # None THEN LegacyDir
  ELSE IF r # None THEN IF r \in Snapshots THEN r ELSE None
  ELSE IF "master" \in Snapshots THEN "master"
  ELSE IF Cardinality(Snapshots) = 1 THEN CHOOSE s \in Snapshots : TRUE ELSE None
Found1(p) == place' = p /\ outcome' = IF p = None THEN "raised" ELSE "found"
Offline(r) ==
  /\ Idle /\ Found1(Resolved(r))
  /\ UNCHANGED <<remote, tree, pc, call>>

\* _resolve_cached_file: the same for one file, but past an older copy without it.
FileIn == [f \in Files |-> {r \in Revisions : tree[r][f] # 0}]
ResolvedFile(r, f) ==
  IF LegacyDir # None /\ tree[LegacyDir][f] # 0 THEN LegacyDir
  ELSE IF r # None THEN IF r \in FileIn[f] THEN r ELSE None
  ELSE IF "master" \in FileIn[f] THEN "master"
  ELSE IF Cardinality(FileIn[f]) = 1 THEN CHOOSE s \in FileIn[f] : TRUE ELSE None
OfflineFile(r, f) ==
  /\ Idle /\ Found1(ResolvedFile(r, f))
  /\ UNCHANGED <<remote, tree, pc, call>>

\* scan_cache: the places it reports as copies of the repository.
Scanned == Snapshots \cup {p \in {"flat", "hub_flat"} : Entries(p) # {}}

\* clear_cache: a repository's standard and flat places, or a type's directory and all of
\* hub/, tree by tree; an error leaves the trees to come and a part of the present one.
\* (Mutant: the copy below hub/ is not looked for.)
TargetsNoHub == <<Revisions, {"flat"}>>
Targets      == <<Revisions, {"flat"}, {"hub_flat"}>>
TypeTargets  == <<Revisions \cup {"typed"}, {"hub_typed", "hub_flat", "hub_other"}>>
Remove(targets, n, left) ==
  tree' = [p \in Places |->
             IF \E i \in 1..n : p \in targets[i]
             THEN [f \in Files |-> IF p \in targets[n] /\ f \in left THEN tree[p][f] ELSE 0]
             ELSE tree[p]]
Clear(targets, ended) ==
  /\ Idle /\ place' = None
  /\ \/ Remove(targets, Len(targets), {}) /\ outcome' = ended
     \/ \E n \in 1..Len(targets) : \E left \in SUBSET Files :
          Remove(targets, n, left) /\ outcome' = "raised"
  /\ UNCHANGED <<remote, pc, call>>
ClearRepo == Clear(Targets, "cleared")
ClearType == Clear(TypeTargets, None)

Rest == pc = "idle" /\ calls = MaxCalls /\ UNCHANGED vars

Next ==
  \/ ListFails \/ Stopped \/ Done \/ Interrupt \/ Crash \/ ClearRepo \/ ClearType \/ Rest
  \/ \E sel \in SUBSET Files : List(sel)
  \/ \E f \in Files : Start(f) \/ Stored(f) \/ Failed(f) \/ Collect(f)
  \/ \E r \in Revisions : Begin(r) \/ \E f \in Files : Publish(r, f)
  \/ \E r \in Revisions \cup {None} : Offline(r) \/ \E f \in Files : OfflineFile(r, f)

Spec == Init /\ [][Next]_vars

-----------------------------------------------------------------------------
(* Properties                                                               *)

Copies == [Files -> 0..2]
TypeOK ==
  /\ remote \in [Revisions -> Copies] /\ tree \in [Places -> Copies]
  /\ pc \in {"idle", "list", "run", "stop"} /\ rev \in Revisions /\ dest \in Places
  /\ want \in Copies
  /\ queue \subseteq Files /\ pending \subseteq Files /\ active \subseteq Files
  /\ completed \subseteq Files /\ failures \subseteq Files
  /\ Cardinality(pending \cup active \cup completed) <= PoolWindow
  /\ outcome \in {None, "ok", "raised", "found", "cleared"}
  /\ place \in Places \cup {None} /\ calls \in 0..MaxCalls

\* A snapshot download that returns normally has every file of the listing in the
\* directory it returns, with the content the listing told of.
SnapshotIsWhole ==
  outcome = "ok" =>
    \A f \in Files : want[f] # 0 =>
      tree[place][f] # 0 /\ (f \in Hashed => tree[place][f] = want[f])

\* After the cache of a repository was cleared, a scan reports no copy of it.
ClearedIsUnreported == outcome = "cleared" => Scanned = {}

\* ... and nothing of it is found without the network.
ClearedIsGone == outcome = "cleared" => \A r \in Revisions \cup {None} : Resolved(r) = None
=============================================================================
