------------------------------ MODULE AigcVersion ------------------------------
(***************************************************************************)
(* One AIGC model and its versions, as LegacyHubApi makes them              *)
(* (create_model with an aigc_model, create_model_tag of compat/            *)
(* hub_api.py): a version is a snapshot that the site takes of the weights  *)
(* that were sent before and of the README of master.                       *)
(*                                                                          *)
(* The site is external.  The answer to the request for a version may be    *)
(* lost, and the version appear at once, later or never.                    *)
(***************************************************************************)
EXTENDS Naturals

CONSTANTS
  Callers,
  Tags, Weights, Readmes,
  MaxCalls      \* calls in all (model bound)

None      == "none"
ConstantsOK == None \notin Tags \cup Weights \cup Readmes /\ MaxCalls \in Nat
NoVersion == [w |-> None, readme |-> None, by |-> 0]
Polls     == 5                              \* range(5)
NoCall    == [kind |-> None, tag |-> None, w |-> None, readme |-> None, nr |-> 0]

VARIABLES
  exists,     \* the model is on the site
  blobs,      \* the weights that were sent to it
  master,     \* [w, readme]: what its master branch holds
  tags,       \* tag -> the version: its weights, its README, and the call that made it
  late,       \* requests for a version that the site may still carry out
  pc, call, polls, result,    \* each caller
  calls

vars == <<exists, blobs, master, tags, late, pc, call, polls, result, calls>>
hub  == <<exists, blobs, master, tags, late>>

Init ==
  /\ exists = FALSE /\ blobs = {} /\ master = [w |-> None, readme |-> None]
  /\ tags = [t \in Tags |-> NoVersion] /\ late = {}
  /\ pc = [c \in Callers |-> "idle"] /\ call = [c \in Callers |-> NoCall]
  /\ polls = [c \in Callers |-> 0] /\ result = [c \in Callers |-> None] /\ calls = 0

Go(c, l)  == pc' = [pc EXCEPT ![c] = l]
End(c, r) == Go(c, "idle") /\ result' = [result EXCEPT ![c] = r]
Raise(c)  == End(c, "failed") /\ UNCHANGED <<call, polls, calls>>

Begin(c, kind, t, w, r) ==
  /\ pc[c] = "idle" /\ calls < MaxCalls /\ calls' = calls + 1
  /\ call' = [call EXCEPT ![c] = [kind |-> kind, tag |-> t, w |-> w, readme |-> r,
                                  nr |-> calls + 1]]
  /\ result' = [result EXCEPT ![c] = None] /\ polls' = [polls EXCEPT ![c] = 0]
  /\ Go(c, "preupload") /\ UNCHANGED hub

CreateAigc(c) == \E w \in Weights, r \in Readmes \cup {None} : Begin(c, "create", None, w, r)
TagAigc(c)    == \E t \in Tags, w \in Weights, r \in Readmes \cup {None} :
                   Begin(c, "tag", t, w, r)

\* preupload_weights: the weights go to the site before anything names them.
Preupload(c) ==
  /\ pc[c] = "preupload"
  /\ \/ /\ blobs' = blobs \cup {call[c].w}
        /\ Go(c, IF call[c].kind = "create" THEN "model" ELSE "readme")
        /\ UNCHANGED <<exists, master, tags, late, call, polls, result, calls>>
     \/ Raise(c) /\ UNCHANGED hub

\* The request for the model; one that fails may have been carried out.
CreateModel(c) ==
  /\ pc[c] = "model" /\ UNCHANGED <<blobs, master, tags, late>>
  /\ \/ /\ ~exists /\ exists' = TRUE /\ Go(c, "weights")
        /\ UNCHANGED <<call, polls, result, calls>>
     \/ exists' \in {exists, TRUE} /\ Raise(c)

\* upload_to_repo.
UploadWeights(c) ==
  /\ pc[c] = "weights" /\ UNCHANGED <<exists, blobs, tags, late>>
  /\ \/ master' = [master EXCEPT !.w = call[c].w] /\ Go(c, "readme")
        /\ UNCHANGED <<call, polls, result, calls>>
     \/ master' \in {master, [master EXCEPT !.w = call[c].w]} /\ Raise(c)

\* _upload_aigc_readme: nothing to do without a README.
ReadmeOf(c) == IF call[c].readme = None THEN master
               ELSE [master EXCEPT !.readme = call[c].readme]
UploadReadme(c) ==
  /\ pc[c] = "readme" /\ UNCHANGED <<exists, blobs, tags, late>>
  /\ \/ /\ exists /\ master' = ReadmeOf(c)
        /\ IF call[c].kind = "create" THEN End(c, "ok") ELSE Go(c, "tag") /\ UNCHANGED result
        /\ UNCHANGED <<call, polls, calls>>
     \/ /\ call[c].readme # None /\ Raise(c)
        /\ master' \in {master} \cup (IF exists THEN {ReadmeOf(c)} ELSE {})
     \/ ~exists /\ call[c].readme = None /\ Go(c, "tag") /\ call[c].kind = "tag"
        /\ UNCHANGED <<master, call, polls, result, calls>>

\* What the site does for a version: nothing when there is one, or no model or weights.
Taken(q) == [w |-> q.w, readme |-> master.readme, by |-> q.nr]
Free(q)  == exists /\ q.w \in blobs /\ tags[q.tag] = NoVersion

CreateTag(c) ==
  /\ pc[c] = "tag" /\ UNCHANGED <<exists, blobs, master, call, calls>>
  /\ LET q == call[c]  made == [tags EXCEPT ![q.tag] = Taken(q)] IN
     \/ Free(q) /\ tags' = made /\ End(c, "ok") /\ UNCHANGED <<late, polls>>
     \/ UNCHANGED <<tags, late, polls>> /\ End(c, "failed")             \* refused
     \/ /\ Go(c, "poll") /\ polls' = [polls EXCEPT ![c] = 0] /\ UNCHANGED result  \* lost
        /\ \/ Free(q) /\ tags' = made /\ UNCHANGED late
           \/ UNCHANGED tags /\ late' \in {late, late \cup {q}}

\* list_revisions_detail, asked again while the version is not there.
\* (Mutant: any answer will do.)
SeenAny(t) == TRUE
Seen(t)    == tags[t] # NoVersion
Poll(c) ==
  /\ pc[c] = "poll" /\ UNCHANGED <<hub, call, calls>>
  /\ \/ Seen(call[c].tag) /\ End(c, "ok") /\ UNCHANGED polls
     \/ polls[c] < Polls - 1 /\ polls' = [polls EXCEPT ![c] = @ + 1]
        /\ UNCHANGED <<pc, result>>
     \/ polls[c] = Polls - 1 /\ End(c, "failed") /\ UNCHANGED polls

\* create_model_tag without an aigc_model: a tag of master as it is.
TagPlain(c) ==
  /\ pc[c] = "idle" /\ calls < MaxCalls /\ calls' = calls + 1
  /\ \E t \in Tags :
       /\ call' = [call EXCEPT ![c] = [NoCall EXCEPT !.kind = "plain", !.tag = t, !.nr = calls + 1]]
       /\ \/ /\ exists /\ tags[t] = NoVersion
             /\ tags' = [tags EXCEPT ![t] = [w |-> master.w, readme |-> master.readme,
                                             by |-> calls + 1]]
             /\ result' = [result EXCEPT ![c] = "ok"]
          \/ UNCHANGED tags /\ result' = [result EXCEPT ![c] = "failed"]
  /\ UNCHANGED <<exists, blobs, master, late, pc, polls>>

\* The site carries out a request whose answer was lost.
Late ==
  \E q \in late :
    /\ late' = late \ {q}
    /\ tags' = IF Free(q) THEN [tags EXCEPT ![q.tag] = Taken(q)] ELSE tags
    /\ UNCHANGED <<exists, blobs, master, pc, call, polls, result, calls>>

Rest == calls = MaxCalls /\ (\A c \in Callers : pc[c] = "idle") /\ UNCHANGED vars

Next ==
  \/ \E c \in Callers :
       \/ CreateAigc(c) \/ TagAigc(c) \/ TagPlain(c) \/ Preupload(c) \/ CreateModel(c)
       \/ UploadWeights(c) \/ UploadReadme(c) \/ CreateTag(c) \/ Poll(c)
  \/ Late \/ Rest

Spec == Init /\ [][Next]_vars

-----------------------------------------------------------------------------
(* Properties                                                               *)

Versions == [w : Weights \cup {None}, readme : Readmes \cup {None}, by : 0..MaxCalls]
Calls    == [kind : {None, "create", "tag", "plain"}, tag : Tags \cup {None},
             w : Weights \cup {None}, readme : Readmes \cup {None}, nr : 0..MaxCalls]
TypeOK ==
  /\ exists \in BOOLEAN /\ blobs \subseteq Weights /\ calls \in 0..MaxCalls
  /\ master \in [w : Weights \cup {None}, readme : Readmes \cup {None}]
  /\ tags \in [Tags -> Versions] /\ late \subseteq Calls
  /\ pc \in [Callers -> {"idle", "preupload", "model", "weights", "readme", "tag", "poll"}]
  /\ call \in [Callers -> Calls] /\ polls \in [Callers -> 0..Polls]
  /\ result \in [Callers -> {None, "ok", "failed"}]

\* A call for a version that returns left one of that name on the site, though the answer
\* to its request was lost; and the one it made has the weights and the README it was given.
VersionAsGiven ==
  \A c \in Callers : (result[c] = "ok" /\ call[c].kind = "tag") =>
    LET v == tags[call[c].tag] IN
    /\ v # NoVersion
    /\ v.by = call[c].nr =>
         v.w = call[c].w /\ call[c].readme \in {None, v.readme}

\* The version that a returning call left is the one that it made (it need not be: when the
\* answer is lost, any version of that name in the listing will do).
VersionIsOwn ==
  \A c \in Callers : (result[c] = "ok" /\ call[c].kind = "tag") => tags[call[c].tag].by = call[c].nr
=============================================================================
