----------------------------- MODULE RegionProbe -----------------------------
(***************************************************************************)
(* The choice of the region a file is downloaded from                      *)
(* (DownloadManager._download_with_resume, _download.py): the threads of a  *)
(* repository download share one manager, and for each storage route one   *)
(* of them probes the peer regions while the others wait for it.  Only an   *)
(* internal resolution is kept; after any other the next thread probes.     *)
(*                                                                          *)
(* Taking and leaving _inter_region_lock is one step with what is done      *)
(* under it.  The event a prober creates is named by its thread: setting it *)
(* lets go of every thread that waits for it.                               *)
(***************************************************************************)
EXTENDS Naturals, FiniteSets

CONSTANTS
  Threads,
  Routes,          \* storage endpoints behind the repository's files
  Internal,        \* sources an internal resolution has: "local", "peer"
  MaxFiles,        \* files each thread downloads (model bound)
  None             \* no event

ConstantsOK == /\ Threads # {} /\ Routes # {} /\ MaxFiles \in Nat \ {0}
               /\ "default" \notin Internal /\ None \notin Threads

VARIABLES
  cache,           \* _inter_region_cache: the source confirmed for each route
  inflight,        \* _inter_region_inflight: the event of each route's probe
  pc, file,        \* where each thread is, and the number of its file
  route,           \* route_key
  source,          \* source, cached, and the probe's result
  waits            \* the event it waits for, until that is set

shared == <<cache, inflight>>
locals == <<file, route, source, waits>>
vars   == <<shared, pc, locals>>

Probing   == {"probe", "store", "release", "quit"}
Decided   == {"ready", "stopped"}

Init ==
  /\ cache = [r \in Routes |-> "default"] /\ inflight = [r \in Routes |-> None]
  /\ pc = [t \in Threads |-> "idle"] /\ file = [t \in Threads |-> 0]
  /\ route = [t \in Threads |-> None]
  /\ source = [t \in Threads |-> "default"] /\ waits = [t \in Threads |-> None]

Go(t, where) == pc' = [pc EXCEPT ![t] = where]

\* The region of the file is decided, or its download stopped.
Decide(t, where) == Go(t, where) /\ route' = [route EXCEPT ![t] = None]

\* Another file; nothing is known of its region.
Begin(t) ==
  /\ pc[t] \in {"idle"} \cup Decided /\ file[t] < MaxFiles
  /\ Go(t, "route")
  /\ file' = [file EXCEPT ![t] = @ + 1] /\ source' = [source EXCEPT ![t] = "default"]
  /\ UNCHANGED <<shared, route, waits>>

\* The redirect tells the route, or there is none and the default is taken.
FindRoute(t) ==
  /\ pc[t] = "route"
  /\ \/ \E r \in Routes : route' = [route EXCEPT ![t] = r] /\ Go(t, "look")
     \/ Decide(t, "ready")
  /\ UNCHANGED <<shared, file, source, waits>>

\* Under the lock: what was confirmed is used, a probe in flight is waited for, and
\* otherwise this thread probes.  (Mutant: a probe in flight is not looked for.)
Probe(t) ==
  /\ inflight' = [inflight EXCEPT ![route[t]] = t]
  /\ Go(t, "probe")
  /\ UNCHANGED <<cache, locals>>
LookAlone(t) == /\ pc[t] = "look" /\ cache[route[t]] = "default" /\ Probe(t)
Look(t) ==
  /\ pc[t] = "look"
  /\ \/ /\ cache[route[t]] # "default"
        /\ source' = [source EXCEPT ![t] = cache[route[t]]]
        /\ Decide(t, "ready")
        /\ UNCHANGED <<shared, file, waits>>
     \/ /\ cache[route[t]] = "default" /\ inflight[route[t]] # None
        /\ waits' = [waits EXCEPT ![t] = inflight[route[t]]]
        /\ Go(t, "wait")
        /\ UNCHANGED <<shared, file, route, source>>
     \/ cache[route[t]] = "default" /\ inflight[route[t]] = None /\ Probe(t)

Woken(t) ==
  /\ pc[t] = "wait" /\ waits[t] = None
  /\ Go(t, "look")
  /\ UNCHANGED <<shared, locals>>

\* _resolve_inter_region_headers: internal, not internal or failed (both "default").
Resolve(t) ==
  /\ pc[t] = "probe"
  /\ \/ \E s \in Internal : source' = [source EXCEPT ![t] = s] /\ Go(t, "store")
     \/ Go(t, "release") /\ UNCHANGED source
  /\ UNCHANGED <<shared, file, route, waits>>

Store(t) ==
  /\ pc[t] = "store"
  /\ cache' = [cache EXCEPT ![route[t]] = source[t]]
  /\ Go(t, "release")
  /\ UNCHANGED <<inflight, locals>>

\* finally: the route is free and the event is set, whatever the probe's end.
\* (Mutant: only once it has confirmed a region.)
Woke(t) == [u \in Threads |-> IF waits[u] = t THEN None ELSE waits[u]]
Free(t) ==
  /\ pc[t] \in {"release", "quit"}
  /\ inflight' = [inflight EXCEPT ![route[t]] = None]
  /\ Decide(t, IF pc[t] = "quit" THEN "stopped" ELSE "ready")
  /\ UNCHANGED <<cache, file, source>>
ReleaseConfirmed(t) == Free(t) /\ waits' = IF source[t] = "default" THEN waits ELSE Woke(t)
Release(t) == Free(t) /\ waits' = Woke(t)

\* control.check() raises, of a deadline or a cancelled download: a prober still runs
\* its finally clause.
Stop(t) ==
  /\ pc[t] \in {"route", "wait", "probe"}
  /\ IF pc[t] = "probe" THEN Go(t, "quit") /\ UNCHANGED route ELSE Decide(t, "stopped")
  /\ waits' = [waits EXCEPT ![t] = None]
  /\ UNCHANGED <<shared, file, source>>

Step(t) == FindRoute(t) \/ Look(t) \/ Woken(t) \/ Resolve(t) \/ Store(t) \/ Release(t)

Rest == /\ \A t \in Threads : pc[t] \in Decided \cup {"idle"}
        /\ UNCHANGED vars

Next == (\E t \in Threads : Begin(t) \/ Step(t) \/ Stop(t)) \/ Rest

Spec == Init /\ [][Next]_vars

\* Threads take their steps; no file has to be asked for, nor a download stopped.
FairSpec == Spec /\ \A t \in Threads : WF_vars(Step(t))

-----------------------------------------------------------------------------
(* Properties                                                               *)

TypeOK ==
  /\ cache \in [Routes -> Internal \cup {"default"}]
  /\ inflight \in [Routes -> Threads \cup {None}]
  /\ pc \in [Threads -> {"idle", "route", "look", "wait"} \cup Probing \cup Decided]
  /\ file \in [Threads -> 0..MaxFiles] /\ route \in [Threads -> Routes \cup {None}]
  /\ source \in [Threads -> Internal \cup {"default"}]
  /\ waits \in [Threads -> Threads \cup {None}]

\* A route has one prober at a time, and none once its region is confirmed but the
\* one that has just confirmed it: no thread repeats the requests of another, undoes
\* its result, or frees the route in its stead.
OneProber ==
  \A t \in Threads : pc[t] \in Probing =>
    /\ inflight[route[t]] = t
    /\ \A u \in Threads \ {t} : pc[u] \in Probing => route[u] # route[t]
    /\ pc[t] # "release" => cache[route[t]] = "default"

\* Every thread comes to a decision about its file, or is stopped: none waits for an
\* event that nobody sets.
RegionDecided == \A t \in Threads : (pc[t] = "route") ~> (pc[t] \in Decided)
=============================================================================
