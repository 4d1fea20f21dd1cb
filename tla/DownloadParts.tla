--------------------------- MODULE DownloadParts ---------------------------
(* RangeDownload and RegionProbe side by side: they share no state, so a     *)
(* behaviour is one of either, the other staying where it began.             *)
EXTENDS RangeDownload

CONSTANTS
  Threads, Routes, Internal, MaxFiles, None,   \* those of RegionProbe
  Shown                                        \* the parts a run is about

VARIABLES
  side,
  cache, inflight, pc, file, route, source, waits

Region == INSTANCE RegionProbe

ASSUME RegionOK == Region!ConstantsOK

regionVars == <<cache, inflight, pc, file, route, source, waits>>
allVars    == <<side, vars, regionVars>>

RangeStep(A)  == side = "range" /\ A /\ UNCHANGED <<side, regionVars>>
RegionStep(A) == side = "region" /\ A /\ UNCHANGED <<side, vars>>

PartsInit == side \in Shown /\ Init /\ Region!Init /\ (side = "region" => hashed)
PartsNext == RangeStep(Next) \/ RegionStep(Region!Next)

\* The fairness of either.
PartsSpec ==
  /\ PartsInit /\ [][PartsNext]_allVars
  /\ WF_allVars(RangeStep(Main)) /\ \A i \in Parts : WF_allVars(RangeStep(Worker(i)))
  /\ \A t \in Threads : WF_allVars(RegionStep(Region!Step(t)))

\* RangesEnd where the ranges are downloaded.
CallsEnd == side = "range" => RangesEnd

\* A route has one prober at a time (RegionProbe), whose variables have their types.
OneProber == Region!TypeOK /\ Region!OneProber

\* Every thread comes to a decision (RegionProbe).
RegionDecided == Region!RegionDecided
=============================================================================
