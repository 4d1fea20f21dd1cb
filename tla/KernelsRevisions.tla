-------------------------- MODULE KernelsRevisions --------------------------
(***************************************************************************)
(* Revisions of kernel repositories (kernels/_hub.py): the hub does not     *)
(* tell commit hashes, so every branch or tag gets a synthetic one, which   *)
(* the process that listed the repository maps back to the name.            *)
(*                                                                          *)
(* The kernels library is external: it resolves a version to the hash of    *)
(* its ref and downloads by that; a lock file pins the hash.                *)
(***************************************************************************)
EXTENDS Naturals

CONSTANTS
  Versions,        \* numbers of the refs v<N> a repository may come to have
  MaxOps           \* operations of the library in all (model bound)

ConstantsOK == Versions \subseteq Nat /\ 1 \in Versions /\ MaxOps \in Nat

\* A revision is a ref, its synthetic hash, or the hash of a commit of another hub.
Ref(kind, n) == [kind |-> kind, of |-> n]
Master    == Ref("branch", 0)
Version(n) == Ref("branch", n)
Oid(r)    == Ref("oid", r.of)
Foreign   == Ref("commit", 0)
Refs      == {Master} \cup {Version(n) : n \in Versions}
Revisions == Refs \cup {Oid(r) : r \in Refs} \cup {Foreign}
None      == Ref("none", 0)

VARIABLES
  refs,            \* the refs the repository has
  synthetic,       \* _synthetic_oids: the refs whose hashes the process can map back
  cached,          \* refs with a snapshot in the cache
  lock,            \* the revision in the lock file
  pinned,          \* the ref that revision was made for
  asked, got,      \* the ref the last operation was to fetch, and what became of it
  ops

vars == <<refs, synthetic, cached, lock, pinned, asked, got, ops>>

Init ==
  /\ refs = {Master} /\ synthetic = {} /\ cached = {}
  /\ lock \in {None, Foreign} /\ pinned = None
  /\ asked = None /\ got = None /\ ops = 0

\* list_repo_refs: master stands for v1 where the repository has no version at all.
Numbered == {r \in refs : r.of # 0}
Offered  == [n \in {r.of : r \in Numbered} \cup (IF Numbered = {} THEN {1} ELSE {}) |->
              IF Numbered = {} THEN Master ELSE Version(n)]
Listed   == synthetic' = synthetic \cup refs

\* _resolve_revision and _ms_revision: only a hash this process has listed maps back.
\* (Mutant: a hash that is not known is taken for that of the default branch.)
MsRevisionDefault(rev, known) ==
  IF \E r \in known : Oid(r) = rev THEN CHOOSE r \in known : Oid(r) = rev
  ELSE IF rev \in Refs THEN rev ELSE Master
MsRevision(rev, known) ==
  IF \E r \in known : Oid(r) = rev THEN CHOOSE r \in known : Oid(r) = rev ELSE rev

\* snapshot_download: the ref, NotExistError, or LocalEntryNotFoundError.
Download(rev, known, offline) ==
  LET r == MsRevision(rev, known) IN
    IF offline
    THEN /\ got' = IF r \in cached THEN r ELSE Ref("offline", 0)
         /\ UNCHANGED cached
    ELSE /\ got' = IF r \in refs THEN r ELSE Ref("missing", 0)
         /\ cached' = IF r \in refs THEN cached \cup {r} ELSE cached

\* list_repo_tree: the same mapping, nothing is stored.
ListTree(rev, known) ==
  LET r == MsRevision(rev, known) IN got' = IF r \in refs THEN r ELSE Ref("missing", 0)

Step == ops < MaxOps /\ ops' = ops + 1

\* get_kernel and install_kernel with a version: listed, then fetched by its hash.
GetVersion(n) ==
  /\ Step /\ n \in DOMAIN Offered
  /\ Listed
  /\ asked' = Offered[n] /\ Download(Oid(Offered[n]), synthetic', FALSE)
  /\ UNCHANGED <<refs, lock, pinned>>

\* has_kernel and get_kernel_variants: listed, then the tree of its hash.
Variants(n) ==
  /\ Step /\ n \in DOMAIN Offered
  /\ Listed
  /\ asked' = Offered[n] /\ ListTree(Oid(Offered[n]), synthetic')
  /\ UNCHANGED <<refs, cached, lock, pinned>>

\* With a revision: no listing.
GetRevision(r) ==
  /\ Step
  /\ asked' = r /\ Download(r, synthetic, FALSE)
  /\ UNCHANGED <<refs, synthetic, lock, pinned>>

\* install_kernel_all_variants: the hash is recorded in the lock's state.
InstallAll(n) ==
  /\ Step /\ n \in DOMAIN Offered
  /\ Listed
  /\ lock' = Oid(Offered[n]) /\ pinned' = Offered[n]
  /\ asked' = Offered[n] /\ Download(Oid(Offered[n]), synthetic', FALSE)
  /\ UNCHANGED refs

\* get_locked_kernel and load_kernel: by the hash alone, the second from the cache.
GetLocked ==
  /\ Step /\ lock # None
  /\ asked' = pinned /\ Download(lock, synthetic, FALSE)
  /\ UNCHANGED <<refs, synthetic, lock, pinned>>
LoadLocked ==
  /\ Step /\ lock # None
  /\ asked' = pinned /\ Download(lock, synthetic, TRUE)
  /\ UNCHANGED <<refs, synthetic, lock, pinned>>

\* A version is published; another process uses the same cache and lock file.
Publish ==
  /\ \E n \in Versions : Version(n) \notin refs /\ refs' = refs \cup {Version(n)}
  /\ asked' = None /\ got' = None
  /\ UNCHANGED <<synthetic, cached, lock, pinned, ops>>
Restart ==
  /\ ops > 0 /\ synthetic # {} /\ synthetic' = {}
  /\ asked' = None /\ got' = None
  /\ UNCHANGED <<refs, cached, lock, pinned, ops>>

\* The user is done.
Rest == ops = MaxOps /\ UNCHANGED vars

Next ==
  \/ \E n \in Versions : GetVersion(n) \/ Variants(n) \/ InstallAll(n)
  \/ \E r \in refs : GetRevision(r)
  \/ GetLocked \/ LoadLocked \/ Publish \/ Restart \/ Rest

Spec == Init /\ [][Next]_vars

-----------------------------------------------------------------------------
(* Properties                                                               *)

TypeOK ==
  /\ refs \subseteq Refs /\ synthetic \subseteq Refs /\ cached \subseteq Refs
  /\ lock \in Revisions \cup {None} /\ pinned \in Refs \cup {None}
  /\ asked \in Refs \cup {None} /\ ops \in 0..MaxOps
  /\ got \in Refs \cup {None, Ref("offline", 0), Ref("missing", 0)}

\* Whatever is fetched is the ref that was asked for or that the lock file was made
\* for: a lock file of another hub, or one whose hash is not known, fetches nothing.
FetchedIsAskedFor == got \in Refs => got = asked

\* A lock file made here resolves as long as its ref exists (_hub.py, the hint for
\* lock files of the other hub).
LockResolves == got.kind \in {"missing", "offline"} => asked = None
=============================================================================
