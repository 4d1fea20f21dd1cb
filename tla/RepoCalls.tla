------------------------------ MODULE RepoCalls -------------------------------
(***************************************************************************)
(* One repository and the calls of HubApi (api.py) that make it, change who *)
(* may see it, upload files into it, delete it, and find the site to read   *)
(* it from; with push_model of the old class (compat/hub_api.py).           *)
(*                                                                          *)
(* The site is external.  A call that makes the repository asks the OpenAPI *)
(* endpoint or the legacy one; other people use the site meanwhile.         *)
(***************************************************************************)
EXTENDS Naturals

CONSTANTS
  Types,       \* of "model", "dataset", "studio" and "skill"
  MaxCalls,    \* calls in all (model bound)
  MaxOthers    \* steps of other people (model bound)

ConstantsOK == Types \subseteq {"model", "dataset", "studio", "skill"}
               /\ MaxCalls \in Nat /\ MaxOthers \in Nat

VARIABLES
  type,        \* what the repository is
  site,        \* who may see it on the site, or "absent"
  holds,       \* the pushed files are in it
  publishes,   \* the site offers the OpenAPI endpoint that makes models and datasets
  where,       \* what either site says of it to a reader who asks
  pc, goal,    \* where the call is, and what it is for
  req, auto,   \* what it asks for; it is at the creation that every upload begins with
  made,        \* as what the call made it, or "no"
  result, found,
  calls, others

world == <<type, publishes, where>>
vars  == <<world, site, holds, pc, goal, req, auto, made, result, found, calls, others>>

Fallback  == {"model", "dataset"}                      \* _LEGACY_CREATE_FALLBACK_TYPES
Asked     == {"default", "public", "internal", "private", "protected"}
Seen      == {"public", "internal", "protected", "gated", "private"}
Sites     == {"first", "second"}
Unasked   == [vis |-> "default", gated |-> "none", odd |-> FALSE]
Requests  == [vis : Asked, gated : {"none", "on", "off"}, odd : BOOLEAN]

\* How far a repository can be seen; left open, everyone sees it.
Reach(v) == CASE v = "private" -> 0 [] v = "gated" -> 1
              [] v \in {"internal", "protected"} -> 2 [] OTHER -> 3

Init ==
  /\ type \in Types /\ site \in {"absent", "public", "private"} /\ holds = FALSE
  /\ publishes \in BOOLEAN /\ where = [s \in Sites |-> "has"]
  /\ pc = "idle" /\ goal = "none" /\ req = Unasked /\ auto = FALSE /\ made = "no"
  /\ result = "none" /\ found = "none" /\ calls = 0 /\ others = 0

-----------------------------------------------------------------------------
(* Making it.                                                                *)

\* A visibility that the type does not know.
Refused(r) == r.vis = "protected" /\ type # "studio"

\* What the OpenAPI endpoint has no words for goes to the legacy one.
NeedsLegacy(r) == type \in Fallback /\ (r.gated # "none" \/ r.vis = "internal" \/ r.odd)

\* What the site makes of the OpenAPI payload.  For studios and skills the flag "private"
\* stands for every visibility that a studio does not name itself.
OpenApiWire(r) ==
  IF type \in Fallback \/ (type = "studio" /\ r.vis = "protected")
  THEN IF r.vis = "default" THEN "public" ELSE r.vis
  ELSE IF r.vis = "private" THEN "private" ELSE "public"

\* And of the legacy body: the switch counts for private ones, and makes one private
\* whose visibility is left open.
\* (Mutant: the switch alone says nothing of who may see it.)
LegacyWireOpen(r) == IF r.vis = "default" THEN "public" ELSE r.vis
LegacyWire(r) ==
  IF r.gated # "none" /\ r.vis \in {"default", "private"}
  THEN IF r.gated = "on" THEN "gated" ELSE "private"
  ELSE IF r.vis = "default" THEN "public" ELSE r.vis

\* The error after which the legacy endpoint is asked: the other one is not offered.
\* (Mutant: any error.)
FallsBackAny(e) == type \in Fallback
FallsBack(e)    == type \in Fallback /\ e = "unoffered"

\* What is asked of the endpoint: an upload's own creation leaves everything open.
Now == IF auto THEN Unasked ELSE req

\* The call is over.
End(r) == pc' = "idle" /\ result' = r /\ UNCHANGED auto

\* What follows the creation: a push goes on when it is done, or when the repository is
\* said to be there; an upload goes on whatever became of it.
After(r, says) ==
  IF auto THEN pc' = "commit" /\ UNCHANGED <<result, auto>>
  ELSE IF goal = "push" /\ (r \in {"ok", "exists"} \/ says)
  THEN pc' = "openapi" /\ auto' = TRUE /\ UNCHANGED result
  ELSE End(r)

Begin(g, r) ==
  /\ pc = "idle" /\ calls < MaxCalls
  /\ calls' = calls + 1 /\ goal' = g /\ made' = "no" /\ result' = "none"
  /\ auto' = (g = "upload") /\ req' = r
  /\ UNCHANGED <<world, site, holds, found, others>>
  /\ pc' = IF Refused(r) THEN "idle" ELSE IF NeedsLegacy(r) THEN "legacy" ELSE "openapi"

CreateRepo(r) == Begin("create", r)
PushModel(r)  == type = "model" /\ r.gated = "none" /\ Begin("push", r)
Upload        == Begin("upload", Unasked)

\* A creating request: carried out, or refused because the name is taken.
Make(v) ==
  \/ site = "absent" /\ site' = v /\ made' = v /\ After("ok", FALSE)
  \/ site # "absent" /\ UNCHANGED <<site, made>> /\ After("exists", FALSE)

\* One that fails, perhaps after it was carried out.  Any error whose words contain
\* "exist" or "not available" counts as the name being taken (is_repo_exists_error).
Carried(v)  == site = "absent" /\ site' = v /\ made' = v
Untouched   == UNCHANGED <<site, made>>
Fails       == \E says \in BOOLEAN : After("failed", says)

Offered == publishes \/ type \notin Fallback

ViaOpenApi ==
  /\ pc = "openapi" /\ UNCHANGED <<world, holds, goal, req, found, calls, others>>
  /\ \/ Offered /\ Make(OpenApiWire(Now))
     \/ \E e \in IF Offered THEN {"failed"} ELSE {"unoffered"} :
          /\ Untouched \/ (e = "failed" /\ Carried(OpenApiWire(Now)))
          /\ IF FallsBack(e) THEN pc' = "legacy" /\ UNCHANGED <<auto, result>> ELSE Fails

ViaLegacy ==
  /\ pc = "legacy" /\ UNCHANGED <<world, holds, goal, req, found, calls, others>>
  /\ \/ Make(LegacyWire(Now))
     \/ (Untouched \/ Carried(LegacyWire(Now))) /\ Fails

\* The files of a push or an upload.
Commit ==
  /\ pc = "commit"
  /\ holds' = (holds \/ site # "absent") /\ End(IF site = "absent" THEN "failed" ELSE "ok")
  /\ UNCHANGED <<world, site, goal, req, made, found, calls, others>>

-----------------------------------------------------------------------------
(* Settings and deletion.                                                    *)

\* update_repo_settings: the switch and the visibility of models and datasets; for the
\* others what is given.  "default" leaves it alone.
SettingsWire(r) ==
  CASE type \notin Fallback -> r.vis
    [] r.vis = "public" -> "public"
    [] r.gated = "on" -> "gated"
    [] r.gated = "off" \/ r.vis = "private" -> "private"
    [] OTHER -> "default"

UpdateSettings(r) ==
  /\ pc = "idle" /\ calls < MaxCalls /\ calls' = calls + 1
  /\ ~r.odd /\ (type \notin Fallback => r.gated = "none" /\ r.vis # "internal")
  /\ goal' = "settings" /\ req' = r /\ made' = "no"
  /\ UNCHANGED <<world, holds, pc, auto, found, others>>
  /\ IF type \in Fallback /\ r.vis \in {"internal", "protected"}
     THEN result' = "failed" /\ UNCHANGED site
     ELSE \/ result' = "failed" /\ UNCHANGED site
          \/ /\ site # "absent" /\ result' = "ok"
             /\ site' = IF SettingsWire(r) = "default" THEN site ELSE SettingsWire(r)

DeleteRepo ==
  /\ pc = "idle" /\ calls < MaxCalls /\ calls' = calls + 1
  /\ goal' = "delete" /\ req' = Unasked /\ made' = "no"
  /\ \/ site' = "absent" /\ holds' = FALSE /\ result' \in {"ok", "failed"}
     \/ UNCHANGED <<site, holds>> /\ result' = "failed"
  /\ UNCHANGED <<world, pc, auto, found, others>>

\* Other people make the repository, delete it, or change who may see it.
Other ==
  /\ others < MaxOthers /\ others' = others + 1
  /\ site' \in {"absent", "public", "private"} \ {site}
  /\ holds' = (holds /\ site' # "absent")
  /\ UNCHANGED <<world, pc, goal, req, auto, made, result, found, calls>>

-----------------------------------------------------------------------------
(* Reading: the first site that has it.                                      *)

\* repo_exists of a site: only "not found", by the OpenAPI endpoint and the legacy one,
\* means that it is absent; every other error ends the search.
\* (Mutant: any error does.)
AbsentAny(s) == where[s] \notin {"has", "hasold"}
Absent(s)    == where[s] = "lacks"
Has(s)       == where[s] \in {"has", "hasold"}

ResolveEndpoint ==
  /\ pc = "idle" /\ calls < MaxCalls /\ calls' = calls + 1 /\ goal' = "read"
  /\ found' = "none" /\ req' = Unasked /\ made' = "no" /\ result' = "none"
  /\ where' \in [Sites -> {"has", "hasold", "lacks", "denies", "down"}]
  /\ pc' = "first" /\ UNCHANGED <<type, publishes, site, holds, auto, others>>

Ask(s, next) ==
  /\ pc = s /\ UNCHANGED <<world, site, holds, goal, req, auto, made, calls, others>>
  /\ \/ Has(s) /\ pc' = "idle" /\ found' = s /\ result' = "ok"
     \/ Absent(s) /\ pc' = next /\ UNCHANGED found
        /\ result' = IF next = "idle" THEN "failed" ELSE result
     \/ ~Has(s) /\ ~Absent(s) /\ pc' = "idle" /\ result' = "failed" /\ UNCHANGED found

Rest == pc = "idle" /\ calls = MaxCalls /\ UNCHANGED vars

Next ==
  \/ \E r \in Requests : CreateRepo(r) \/ PushModel(r) \/ UpdateSettings(r)
  \/ Upload \/ ViaOpenApi \/ ViaLegacy \/ Commit \/ DeleteRepo \/ Other
  \/ ResolveEndpoint \/ Ask("first", "second") \/ Ask("second", "idle") \/ Rest
Spec == Init /\ [][Next]_vars

-----------------------------------------------------------------------------
TypeOK ==
  /\ type \in Types /\ site \in Seen \cup {"absent"} /\ holds \in BOOLEAN
  /\ publishes \in BOOLEAN
  /\ pc \in {"idle", "openapi", "legacy", "commit"} \cup Sites
  /\ goal \in {"none", "create", "push", "upload", "settings", "delete", "read"}
  /\ req \in Requests /\ auto \in BOOLEAN /\ made \in Seen \cup {"no"}
  /\ result \in {"none", "ok", "exists", "failed"} /\ found \in Sites \cup {"none"}
  /\ calls \in 0..MaxCalls /\ others \in 0..MaxOthers

\* Everyone who may see it by what the call asked.
AskedReach == IF req.gated # "none" /\ req.vis \in {"default", "private"}
              THEN Reach("gated") ELSE Reach(req.vis)

\* A model or dataset is never made more visible than the call asked, over whichever
\* endpoint it went: a switch for applications alone makes it no public one.
MadeAsAsked ==
  (made # "no" /\ goal = "create" /\ type \in Fallback) => Reach(made) <= AskedReach

\* Nobody is told "already exists" of what the call made itself: the second endpoint is
\* only asked when the first did nothing.
ExistsIsOthers == (goal = "create" /\ result = "exists") => made = "no"

\* A search ends at the second site only when the first one has no such repository: an
\* outage or a refusal never turns a reader to another site's repository of that name.
ReadFromFirst == (found = "second") => (where["first"] = "lacks" /\ Has("second"))

\* What push_model makes is never more visible than the caller asked: it goes on without
\* having made the model only when it "already exists" (compat/hub_api.py).  It may: any
\* error that sounds like it lets the upload make a public one.
PushedAsAsked == (made # "no" /\ goal = "push") => Reach(made) <= AskedReach
=============================================================================
