------------------------------- MODULE RepoWalk --------------------------------
(***************************************************************************)
(* The listing of a repository (list_repo_files and what it calls in        *)
(* _legacy_api.py).  A listing of a model stops at a number of entries and  *)
(* does not say so: the tree is then walked, a level at a time, each level  *)
(* by a pool of workers within a budget of requests.  A dataset is listed   *)
(* by pages.                                                                *)
(*                                                                          *)
(* The server is external; it may refuse a request now and then to a reader *)
(* who may read.                                                            *)
(***************************************************************************)
EXTENDS Naturals, FiniteSets

CONSTANTS
  Nodes,       \* entries that the tree may have
  Parent,      \* [Nodes -> the directory each is in]
  Root,
  Limit,       \* REPO_FILES_TRUNCATION_LIMIT
  MaxRequests, \* REPO_TREE_MAX_REQUESTS
  MaxWorkers,  \* REPO_TREE_WALK_WORKERS
  MaxAttempts, \* REPO_TREE_PAGE_MAX_ATTEMPTS
  PageSize,
  MaxCalls     \* calls (model bound)

Dirs == {Parent[n] : n \in Nodes}

\* The directories above an entry are the fewest that hold its own and, with each of them, the
\* one that it is in.
Closed   == {s \in SUBSET (Nodes \cup {Root}) : \A d \in s \ {Root} : Parent[d] \in s}
Above(n) == {r \in Nodes \cup {Root} : \A s \in Closed : Parent[n] \in s => r \in s}

ConstantsOK ==
  /\ IsFiniteSet(Nodes) /\ Nodes # {} /\ (\A n \in Nodes : Root \in Above(n))
  /\ Parent \in [Nodes -> Nodes \cup {Root}] /\ Root \notin Nodes
  /\ {Limit, MaxRequests, MaxWorkers, MaxAttempts, PageSize} \subseteq Nat \ {0} /\ MaxCalls \in Nat

VARIABLES
  tree,        \* the entries there are
  proven,      \* _tree_reads_ok: a listing was answered on this client
  pc, kind,    \* the step and the call: "model", "flat" or "dataset"
  frontier,    \* the directories of this level
  queue, busy, \* those to be listed, and those that a worker has asked for
  tries,       \* failed attempts of each
  trusted,     \* proven, as each request took it
  known,       \* the listings there are, [r, entries]
  collected, oversized, spent, requests, page,
  wasProven,   \* history: proven, when the call began
  result, calls

walk == <<frontier, known, collected, oversized, spent, requests, page>>
pool == <<queue, busy, tries, trusted>>
vars == <<tree, proven, pc, kind, walk, pool, wasProven, result, calls>>

Below(r)    == {n \in tree : r \in Above(n)}
Children(r) == {n \in tree : Parent[n] = r}

\* What the server answers: everything, or as many entries as it lists.
Listings(r, recursive) ==
  LET all == IF recursive THEN Below(r) ELSE Children(r) IN
  IF Cardinality(all) <= Limit THEN {all} ELSE {s \in SUBSET all : Cardinality(s) = Limit}

\* (Mutant: a listing of just so many entries is taken for a whole one.)
TruncatedOver(entries) == Cardinality(entries) > Limit
Truncated(entries)     == Cardinality(entries) >= Limit

Init ==
  /\ tree \in {t \in SUBSET Nodes : \A n \in t : Parent[n] \in t \cup {Root}}
  /\ proven = FALSE /\ pc = "idle" /\ kind = "none"
  /\ frontier = {} /\ known = {} /\ collected = {} /\ oversized = {} /\ spent = FALSE
  /\ requests = 0 /\ page = 0
  /\ queue = {} /\ busy = {} /\ tries = [r \in Dirs |-> 0] /\ trusted = [r \in Dirs |-> FALSE]
  /\ wasProven = FALSE /\ result = "none" /\ calls = 0

Over(r) == pc' = "idle" /\ result' = r /\ queue' = {} /\ busy' = {}

Begin(k) ==
  /\ pc = "idle" /\ calls < MaxCalls /\ calls' = calls + 1 /\ kind' = k
  /\ pc' = "first" /\ frontier' = {Root} /\ known' = {} /\ collected' = {} /\ oversized' = {}
  /\ spent' = FALSE /\ requests' = 0 /\ page' = 1
  /\ queue' = {Root} /\ busy' = {} /\ tries' = [r \in Dirs |-> 0]
  /\ trusted' = [r \in Dirs |-> FALSE] /\ wasProven' = proven /\ result' = "none"
  /\ UNCHANGED <<tree, proven>>

-----------------------------------------------------------------------------
(* One request (_request_repo_tree).                                        *)

Take(r) ==
  /\ r \in queue /\ Cardinality(busy) < MaxWorkers
  /\ queue' = queue \ {r} /\ busy' = busy \cup {r}
  /\ trusted' = [trusted EXCEPT ![r] = proven]
  /\ UNCHANGED <<tree, proven, pc, kind, walk, tries, wasProven, result, calls>>

\* A refusal counts as one only while no listing was answered; else it is tried again, as
\* a failure is.  The first error ends the call, and what the other workers find is lost.
Denied(r) ==
  /\ r \in busy /\ UNCHANGED <<tree, proven, kind, walk, wasProven, calls>>
  /\ IF ~trusted[r] THEN Over("denied") /\ UNCHANGED <<tries, trusted>>
     ELSE IF tries[r] + 1 < MaxAttempts
     THEN tries' = [tries EXCEPT ![r] = @ + 1] /\ UNCHANGED <<pc, queue, busy, trusted, result>>
     ELSE Over("failed") /\ UNCHANGED <<tries, trusted>>
Fails(r) ==
  /\ r \in busy /\ UNCHANGED <<tree, proven, kind, walk, wasProven, calls>>
  /\ \/ tries[r] + 1 < MaxAttempts /\ tries' = [tries EXCEPT ![r] = @ + 1]
        /\ UNCHANGED <<pc, queue, busy, trusted, result>>
     \/ Over("failed") /\ UNCHANGED <<tries, trusted>>           \* or not to be tried again

Answered(r, s) ==
  /\ r \in busy /\ busy' = busy \ {r} /\ proven' = TRUE
  /\ known' = known \cup {[r |-> r, entries |-> s]}
  /\ UNCHANGED <<tree, pc, kind, frontier, collected, oversized, spent, requests, page, queue,
                 tries, trusted, wasProven, result, calls>>
Answer(r) ==
  \/ kind # "dataset" /\ \E s \in Listings(r, pc = "level" \/ (pc = "first" /\ kind = "model")) :
       Answered(r, s)
  \/ kind = "dataset" /\ \E s \in SUBSET (tree \ collected) :
       /\ Cardinality(s) = PageSize \/ (s = tree \ collected /\ Cardinality(s) < PageSize)
       /\ Answered(r, s)

-----------------------------------------------------------------------------
(* The walk.                                                                *)

Entries == UNION {k.entries : k \in known}
Settled(step) == pc = step /\ queue = {} /\ busy = {}

\* The whole listing, or the page: the call may be done.
Paged ==
  /\ Settled("first") /\ kind = "dataset"
  /\ collected' = collected \cup Entries /\ known' = {}
  /\ IF Cardinality(Entries) < PageSize
     THEN Over("ok") /\ UNCHANGED <<page, tries>>
     ELSE page' = page + 1 /\ queue' = {Root} /\ tries' = [tries EXCEPT ![Root] = 0]
          /\ UNCHANGED <<pc, busy, result>>
  /\ UNCHANGED <<tree, proven, kind, frontier, oversized, spent, requests, trusted, wasProven,
                 calls>>
Whole ==
  /\ Settled("first") /\ (kind = "flat" \/ (kind = "model" /\ ~Truncated(Entries)))
  /\ collected' = Entries
  /\ Over(IF kind = "flat" /\ Truncated(Entries) THEN "incomplete" ELSE "ok")
  /\ UNCHANGED <<tree, proven, kind, frontier, known, oversized, spent, requests, page, tries,
                 trusted, wasProven, calls>>
Walk ==
  /\ Settled("first") /\ kind = "model" /\ Truncated(Entries) /\ pc' = "level"
  /\ UNCHANGED <<tree, proven, kind, walk, pool, wasProven, result, calls>>

\* fetch_level: the directories to be asked for, as many as the budget has left.
Fetch(roots, step) ==
  LET left == MaxRequests - requests IN
  /\ pc' = step /\ tries' = [r \in Dirs |-> 0] /\ UNCHANGED <<busy, trusted, result>>
  /\ queue' \in IF Cardinality(roots) <= left THEN {roots}
                ELSE {s \in SUBSET roots : Cardinality(s) = left}
  /\ spent' = (spent \/ Cardinality(roots) > left)
  /\ requests' = requests + Cardinality(queue')

\* The listings of a level: what was cut off is listed again, each directory alone.
Finish == Over(IF spent \/ oversized' # {} THEN "incomplete" ELSE "ok")
          /\ UNCHANGED <<frontier, spent, requests, tries, trusted>>
Split ==
  /\ Settled("level") /\ collected' = collected \cup Entries /\ known' = {}
  /\ UNCHANGED <<tree, proven, kind, oversized, page, wasProven, calls>>
  /\ LET cut == {k.r : k \in {k \in known : Truncated(k.entries)}} IN
     IF cut = {} \/ spent THEN Finish ELSE Fetch(cut, "shallow") /\ UNCHANGED frontier

\* The listings of directories alone: their own directories are the next level, and what
\* they do not show stays unseen.
Descend ==
  /\ Settled("shallow") /\ collected' = collected \cup Entries /\ known' = {}
  /\ oversized' = oversized \cup
       {k.r : k \in {k \in known : Truncated(k.entries) \/ k.entries \cap Dirs = {}}}
  /\ LET next == Entries \cap Dirs IN
     IF spent \/ next = {} THEN Finish ELSE frontier' = next /\ Fetch(next, "level")
  /\ UNCHANGED <<tree, proven, kind, page, wasProven, calls>>

Rest == pc = "idle" /\ calls = MaxCalls /\ UNCHANGED vars

Next ==
  \/ \E k \in {"model", "flat", "dataset"} : Begin(k)
  \/ \E r \in Dirs : Take(r) \/ Denied(r) \/ Fails(r) \/ Answer(r)
  \/ Paged \/ Whole \/ Walk \/ Split \/ Descend \/ Rest

Spec == Init /\ [][Next]_vars

-----------------------------------------------------------------------------
(* Properties                                                               *)

TypeOK ==
  /\ tree \subseteq Nodes /\ proven \in BOOLEAN /\ wasProven \in BOOLEAN /\ spent \in BOOLEAN
  /\ pc \in {"idle", "first", "level", "shallow"} /\ kind \in {"none", "model", "flat", "dataset"}
  /\ frontier \subseteq Dirs /\ queue \subseteq Dirs /\ busy \subseteq Dirs /\ oversized \subseteq Dirs
  /\ collected \subseteq Nodes /\ tries \in [Dirs -> 0..MaxAttempts] /\ trusted \in [Dirs -> BOOLEAN]
  /\ known \subseteq [r : Dirs, entries : SUBSET Nodes]
  /\ requests \in 0..MaxRequests /\ page \in 0..Cardinality(Nodes) + 1 /\ calls \in 0..MaxCalls
  /\ result \in {"none", "ok", "incomplete", "failed", "denied"}

\* A listing that is not said to be incomplete has every entry, though no answer says that
\* it was cut off, workers finish in any order, and the budget may run out at any level.
CompleteOrSaid ==
  result = "ok" => collected = IF kind = "flat" THEN Children(Root) ELSE tree

\* A reader whose credential was good for a listing is never told that it is not.
HonestDenial == result = "denied" => ~wasProven

ListingHolds == CompleteOrSaid /\ HonestDenial
=============================================================================
