------------------------- MODULE RegionProbeProofs -------------------------
(* Theorems about RegionProbe, for any number of threads, routes and files,  *)
(* by itself (Region!Spec) and as a part of DownloadParts (PartsSpec).       *)
EXTENDS DownloadParts, TLAPS

\* A thread that has found its route until the route's region is decided.
Routed(t) == pc[t] \in {"look", "wait"} \cup Region!Probing

\* A prober has its route, whose event is its own and whose region is open until it has
\* stored it; the event of a route is that of its prober.
ProberInv ==
  /\ \A t \in Threads : Routed(t) => route[t] \in Routes
  /\ \A t \in Threads : pc[t] \in Region!Probing => inflight[route[t]] = t
  /\ \A t \in Threads :
       pc[t] \in Region!Probing \ {"release"} => cache[route[t]] = "default"
  /\ \A r \in Routes : inflight[r] # None =>
       pc[inflight[r]] \in Region!Probing /\ route[inflight[r]] = r

\* Only a waiting thread waits, and for an event whose prober will set it.
WaitInv ==
  \A t \in Threads : waits[t] # None => pc[t] = "wait" /\ pc[waits[t]] \in Region!Probing

RegionInv == Region!TypeOK /\ ProberInv /\ WaitInv

LEMMA InitRegion == ASSUME Region!Init PROVE RegionInv
<1>1. Region!TypeOK
  BY RegionOK DEF Region!ConstantsOK, Region!Init, Region!TypeOK
<1>2. ProberInv
  BY DEF Region!Init, ProberInv, Routed, Region!Probing
<1>3. WaitInv
  BY DEF Region!Init, WaitInv
<1>. QED  BY <1>1, <1>2, <1>3 DEF RegionInv

\* A step keeps the types.
LEMMA NextType == ASSUME RegionInv, [Region!Next]_(Region!vars) PROVE Region!TypeOK'
<1>. USE DEF RegionInv, Region!TypeOK, Region!Go, Region!Decide, Region!Probing,
     Region!Decided, Region!shared, Region!locals
<1>1. ASSUME NEW t \in Threads, Region!Begin(t) PROVE Region!TypeOK'
  <2>1. file'[t] \in 0..MaxFiles
    BY <1>1, RegionOK DEF Region!Begin, Region!ConstantsOK
  <2>. QED  BY <1>1, <2>1 DEF Region!Begin
<1>2. ASSUME NEW t \in Threads, Region!FindRoute(t) PROVE Region!TypeOK'
  BY <1>2 DEF Region!FindRoute
<1>3. ASSUME NEW t \in Threads, Region!Look(t) PROVE Region!TypeOK'
  <2>1. route[t] \in Routes
    BY <1>3 DEF Region!Look, ProberInv, Routed
  <2>. QED  BY <1>3, <2>1 DEF Region!Look, Region!Probe
<1>4. ASSUME NEW t \in Threads,
             Region!Woken(t) \/ Region!Resolve(t) \/ Region!Store(t)
      PROVE  Region!TypeOK'
  BY <1>4 DEF Region!Woken, Region!Resolve, Region!Store
<1>5. ASSUME NEW t \in Threads, Region!Release(t) PROVE Region!TypeOK'
  BY <1>5 DEF Region!Release, Region!Free, Region!Woke
<1>6. ASSUME NEW t \in Threads, Region!Stop(t) PROVE Region!TypeOK'
  BY <1>6 DEF Region!Stop
<1>7. CASE UNCHANGED Region!vars
  BY <1>7 DEF Region!vars
<1>. QED  BY <1>1, <1>2, <1>3, <1>4, <1>5, <1>6, <1>7 DEF Region!Next, Region!Step,
             Region!Rest

\* A step of a thread moves no other thread, but lets go of those that wait for it.
LEMMA OwnStep ==
  ASSUME RegionInv, NEW t \in Threads, Region!Begin(t) \/ Region!Step(t) \/ Region!Stop(t)
  PROVE  \A u \in Threads \ {t} :
           pc'[u] = pc[u] /\ route'[u] = route[u] /\ waits'[u] \in {waits[u], None}
BY DEF RegionInv, Region!TypeOK, Region!Begin, Region!Step, Region!Stop, Region!FindRoute,
   Region!Look, Region!Probe, Region!Woken, Region!Resolve, Region!Store, Region!Release,
   Region!Free, Region!Woke, Region!Go, Region!Decide, Region!shared, Region!locals

LEMMA NextProber == ASSUME RegionInv, [Region!Next]_(Region!vars) PROVE ProberInv'
<1>1. ASSUME NEW t \in Threads,
             Region!Begin(t) \/ Region!FindRoute(t) \/ Region!Woken(t)
      PROVE  ProberInv'
  <2>1. /\ UNCHANGED <<cache, inflight>>
        /\ pc[t] \notin Region!Probing /\ pc'[t] \notin Region!Probing
        /\ pc'[t] \in {"look", "wait"} => route'[t] \in Routes
    BY <1>1 DEF RegionInv, Region!TypeOK, ProberInv, Routed, Region!Begin,
       Region!FindRoute, Region!Woken, Region!Go, Region!Decide, Region!shared,
       Region!locals, Region!Probing, Region!Decided
  <2>. QED  BY <1>1, <2>1, OwnStep DEF Region!Step, RegionInv, Region!TypeOK, ProberInv,
               Routed
<1>2. ASSUME NEW t \in Threads, Region!Look(t) PROVE ProberInv'
  <2>1. route[t] \in Routes /\ pc[t] \notin Region!Probing
    BY <1>2 DEF Region!Look, RegionInv, ProberInv, Routed, Region!Probing
  <2>2. CASE inflight' = inflight
    <3>1. /\ UNCHANGED cache /\ pc'[t] \notin Region!Probing
          /\ (pc'[t] = "wait" => route'[t] = route[t]) /\ pc'[t] # "look"
      BY <1>2, <2>1, <2>2, RegionOK DEF Region!Look, Region!Probe, RegionInv,
         Region!TypeOK, Region!Go, Region!Decide, Region!shared, Region!locals,
         Region!Probing, Region!ConstantsOK
    <3>. QED  BY <1>2, <2>1, <2>2, <3>1, OwnStep DEF Region!Step, RegionInv, Region!TypeOK,
                 ProberInv, Routed
  <2>3. CASE cache[route[t]] = "default" /\ inflight[route[t]] = None /\ Region!Probe(t)
    <3>1. /\ UNCHANGED <<cache, route>> /\ pc' = [pc EXCEPT ![t] = "probe"]
          /\ inflight' = [inflight EXCEPT ![route[t]] = t]
      BY <2>3 DEF Region!Probe, Region!Go, Region!locals
    <3>. QED  BY <2>1, <2>3, <3>1, RegionOK DEF RegionInv, Region!TypeOK, ProberInv,
                 Routed, Region!Probing, Region!ConstantsOK
  <2>. QED  BY <1>2, <2>2, <2>3 DEF Region!Look, Region!shared
<1>3. ASSUME NEW t \in Threads, Region!Resolve(t) \/ Region!Store(t) PROVE ProberInv'
  <2>1. /\ UNCHANGED <<inflight, route>>
        /\ pc[t] \in Region!Probing /\ pc'[t] \in Region!Probing
        /\ pc[t] # "release" /\ route[t] \in Routes
        /\ \A u \in Threads \ {t} : pc'[u] = pc[u]
    BY <1>3 DEF Region!Resolve, Region!Store, RegionInv, Region!TypeOK, ProberInv, Routed,
       Region!Go, Region!shared, Region!locals, Region!Probing
  <2>2. \/ UNCHANGED cache
        \/ /\ pc'[t] = "release"
           /\ \A r \in Routes \ {route[t]} : cache'[r] = cache[r]
    BY <1>3 DEF Region!Resolve, Region!Store, RegionInv, Region!TypeOK, Region!Go,
       Region!shared, Region!locals
  <2>. QED  BY <2>1, <2>2 DEF RegionInv, Region!TypeOK, ProberInv, Routed
<1>4. ASSUME NEW t \in Threads, Region!Release(t) PROVE ProberInv'
  <2>1. /\ UNCHANGED cache /\ inflight' = [inflight EXCEPT ![route[t]] = None]
        /\ pc[t] \in Region!Probing /\ ~Routed(t)'
    BY <1>4 DEF Region!Release, Region!Free, RegionInv, Region!TypeOK, Region!Decide,
       Region!Go, Region!Probing, Routed
  <2>2. \A u \in Threads \ {t} : pc'[u] = pc[u] /\ route'[u] = route[u]
    BY <1>4, OwnStep DEF Region!Step
  <2>. QED  BY <2>1, <2>2, RegionOK DEF RegionInv, Region!TypeOK, ProberInv, Routed,
               Region!ConstantsOK
<1>5. ASSUME NEW t \in Threads, Region!Stop(t) PROVE ProberInv'
  <2>1. CASE pc[t] = "probe"
    <3>1. UNCHANGED <<cache, inflight, route>> /\ pc' = [pc EXCEPT ![t] = "quit"]
      BY <1>5, <2>1 DEF Region!Stop, Region!Go, Region!shared
    <3>. QED  BY <2>1, <3>1 DEF RegionInv, Region!TypeOK, ProberInv, Routed, Region!Probing
  <2>2. CASE pc[t] # "probe"
    <3>1. UNCHANGED <<cache, inflight>> /\ ~Routed(t)' /\ pc[t] \notin Region!Probing
      BY <1>5, <2>2 DEF Region!Stop, Region!Decide, Region!Go, Region!shared, RegionInv,
         Region!TypeOK, Routed, Region!Probing
    <3>. QED  BY <1>5, <3>1, OwnStep DEF RegionInv, Region!TypeOK, ProberInv, Routed
  <2>. QED  BY <2>1, <2>2
<1>6. CASE UNCHANGED Region!vars
  BY <1>6 DEF Region!vars, Region!shared, Region!locals, RegionInv, ProberInv, Routed
<1>. QED  BY <1>1, <1>2, <1>3, <1>4, <1>5, <1>6 DEF Region!Next, Region!Step, Region!Rest

LEMMA NextWait == ASSUME RegionInv, [Region!Next]_(Region!vars) PROVE WaitInv'
<1>1. ASSUME NEW t \in Threads,
             Region!Begin(t) \/ Region!FindRoute(t) \/ Region!Woken(t)
      PROVE  WaitInv'
  <2>1. UNCHANGED waits /\ waits[t] = None /\ pc[t] \notin Region!Probing
    BY <1>1 DEF RegionInv, Region!TypeOK, WaitInv, Region!Begin, Region!FindRoute,
       Region!Woken, Region!locals, Region!Probing, Region!Decided
  <2>. QED  BY <1>1, <2>1, OwnStep DEF Region!Step, RegionInv, Region!TypeOK, WaitInv
<1>2. ASSUME NEW t \in Threads, Region!Look(t) PROVE WaitInv'
  <2>1. pc[t] = "look" /\ pc[t] \notin Region!Probing /\ waits[t] = None
    BY <1>2 DEF Region!Look, RegionInv, WaitInv, Region!Probing
  <2>2. CASE UNCHANGED waits
    BY <1>2, <2>1, <2>2, OwnStep DEF Region!Step, RegionInv, Region!TypeOK, WaitInv
  <2>3. CASE /\ inflight[route[t]] # None
             /\ waits' = [waits EXCEPT ![t] = inflight[route[t]]]
             /\ Region!Go(t, "wait")
    <3>1. pc[inflight[route[t]]] \in Region!Probing /\ inflight[route[t]] # t
      BY <2>1, <2>3 DEF RegionInv, ProberInv, Routed
    <3>2. inflight[route[t]] \in Threads
      BY <2>1, <2>3 DEF RegionInv, Region!TypeOK, ProberInv, Routed
    <3>. QED  BY <1>2, <2>1, <2>3, <3>1, <3>2, OwnStep DEF Region!Step, RegionInv,
                 Region!TypeOK, WaitInv, Region!Go
  <2>. QED  BY <1>2, <2>2, <2>3 DEF Region!Look, Region!Probe, Region!locals
<1>3. ASSUME NEW t \in Threads, Region!Resolve(t) \/ Region!Store(t) PROVE WaitInv'
  <2>1. UNCHANGED waits /\ waits[t] = None /\ pc'[t] \in Region!Probing
    BY <1>3 DEF RegionInv, Region!TypeOK, WaitInv, Region!Resolve, Region!Store, Region!Go,
       Region!locals, Region!Probing
  <2>. QED  BY <1>3, <2>1, OwnStep DEF Region!Step, RegionInv, Region!TypeOK, WaitInv
<1>4. ASSUME NEW t \in Threads, Region!Release(t) PROVE WaitInv'
  <2>1. waits' = Region!Woke(t) /\ waits[t] = None
    BY <1>4 DEF Region!Release, Region!Free, RegionInv, Region!TypeOK, WaitInv
  <2>2. \A u \in Threads : waits'[u] # None => u # t /\ waits[u] # t /\ waits'[u] = waits[u]
    BY <2>1 DEF Region!Woke
  <2>. QED  BY <1>4, <2>2, OwnStep DEF Region!Step, RegionInv, Region!TypeOK, WaitInv
<1>5. ASSUME NEW t \in Threads, Region!Stop(t) PROVE WaitInv'
  <2>1. waits' = [waits EXCEPT ![t] = None]
    BY <1>5 DEF Region!Stop
  <2>2. pc[t] \in Region!Probing => pc'[t] \in Region!Probing
    BY <1>5 DEF Region!Stop, Region!Go, RegionInv, Region!TypeOK, Region!Probing
  <2>. QED  BY <1>5, <2>1, <2>2, OwnStep DEF RegionInv, Region!TypeOK, WaitInv
<1>6. CASE UNCHANGED Region!vars
  BY <1>6 DEF Region!vars, Region!locals, RegionInv, WaitInv
<1>. QED  BY <1>1, <1>2, <1>3, <1>4, <1>5, <1>6 DEF Region!Next, Region!Step, Region!Rest

LEMMA InvOfProber == ASSUME RegionInv PROVE Region!OneProber
BY RegionOK DEF RegionInv, ProberInv, Region!OneProber, Routed, Region!TypeOK,
   Region!ConstantsOK

\* A prober keeps its route, and who waits keeps somebody who will set the event.
THEOREM RegionKept == Region!Spec => []RegionInv
<1>1. Region!Init => RegionInv
  BY InitRegion
<1>2. RegionInv /\ [Region!Next]_(Region!vars) => RegionInv'
  BY NextType, NextProber, NextWait DEF RegionInv
<1>. QED  BY <1>1, <1>2, PTL DEF Region!Spec

\* A storage route has one prober at a time, and none once its region is confirmed: no
\* thread repeats the requests of another, undoes its result or frees the route in its
\* stead, however probes end.
THEOREM OneProberOnly == PartsSpec => []OneProber
<1>1. PartsInit => RegionInv
  BY InitRegion DEF PartsInit
<1>2. RegionInv /\ [PartsNext]_allVars => RegionInv'
  <2>1. [PartsNext]_allVars => [Region!Next]_(Region!vars)
    BY DEF PartsNext, RangeStep, RegionStep, allVars, regionVars, Region!vars,
       Region!shared, Region!locals
  <2>. QED  BY <2>1, NextType, NextProber, NextWait DEF RegionInv
<1>3. RegionInv => OneProber
  BY InvOfProber DEF RegionInv, OneProber
<1>. QED  BY <1>1, <1>2, <1>3, PTL DEF PartsSpec

\* No thread waits for an event that nobody will set: whoever waits, waits for a thread
\* that is still probing and whose finally clause sets the event.
THEOREM WaitersHaveAProber ==
  Region!Spec => [](\A t \in Threads : waits[t] # None => pc[waits[t]] \in Region!Probing)
<1>1. RegionInv => \A t \in Threads : waits[t] # None => pc[waits[t]] \in Region!Probing
  BY DEF RegionInv, WaitInv
<1>. QED  BY <1>1, RegionKept, PTL
=============================================================================
