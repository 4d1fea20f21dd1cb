------------------------------- MODULE Requests -------------------------------
(***************************************************************************)
(* Requests of the OpenAPI client (_openapi.py): its endpoints, how an      *)
(* attempt that failed is repeated, and what is asked again without the     *)
(* token.                                                                   *)
(*                                                                          *)
(* One thread, call after call.  The site is external: an attempt may be    *)
(* lost or fail before or after it took effect, be refused as too early, or *)
(* be answered.  One item of each kind stands for all of them; its name is  *)
(* taken or free.  An endpoint is what the client knows of it.              *)
(***************************************************************************)
EXTENDS Naturals, FiniteSets

CONSTANTS
  MaxRetries,   \* attempts of one request
  MaxCalls      \* calls in all (model bound)

ConstantsOK == MaxRetries \in Nat /\ MaxCalls \in Nat

VARIABLES
  token,        \* the client's token: "none", "stale", "reads" or "writes"
  public,       \* the item may be read by everyone
  serves,       \* the verbs the site knows for the list of MCP servers
  exists,       \* the item is there
  stored,       \* what the site holds of the file: "nothing", "whole" or "empty"
  gets,         \* _mcp_list_supports_get: "unknown", "yes" or "no"
  call, verb,   \* the endpoint called, the verb in use
  attempt, anon,\* the attempt under way, and whether it goes without the token
  read,         \* the stream of the upload is at its end
  times,        \* how many items, files or tokens the site made for the call
  answer,       \* what the last call came to
  calls

site   == <<token, public, serves>>
item   == <<exists, stored>>
vars   == <<site, item, gets, call, verb, attempt, anon, read, times, answer, calls>>

-----------------------------------------------------------------------------
(* The endpoints: the verb; the token it goes with; whether a rejected token *)
(* is left out at a second try; what the call does at the site.              *)

\* List and detail: a token goes along when there is one.
Catalogue(d)  == [verb |-> "GET", token |-> "may", open |-> FALSE, does |-> d]
\* The same, and without a token that the site rejects.
OpenData      == [verb |-> "GET", token |-> "may", open |-> TRUE, does |-> "read"]
\* What belongs to the account.
OwnData       == [verb |-> "GET", token |-> "must", open |-> FALSE, does |-> "readown"]
Write(v, d)   == [verb |-> v, token |-> "must", open |-> FALSE, does |-> d]
Signed(v, d)  == [verb |-> v, token |-> "never", open |-> FALSE, does |-> d]

ModelReads == [list_models |-> Catalogue("read"), get_model |-> Catalogue("read"),
               list_aigc_model_options |-> Catalogue("read")]
ModelWrites == [create_model |-> Write("POST", "add"),
                set_model_category |-> Write("PUT", "set"),
                update_model_category |-> Write("PATCH", "set"),
                update_model_settings |-> Write("PATCH", "set"),
                delete_model_files |-> Write("DELETE", "remove")]
Datasets == [list_datasets |-> Catalogue("read"), get_dataset |-> Catalogue("read"),
             create_dataset |-> Write("POST", "add"),
             set_dataset_category |-> Write("PUT", "set"),
             update_dataset_category |-> Write("PATCH", "set"),
             update_dataset_settings |-> Write("PATCH", "set"),
             delete_dataset_files |-> Write("DELETE", "remove")]
FileUploads == [upload_file |-> Write("POST", "store")]
Skills == [list_skills |-> Catalogue("read"), get_skill |-> Catalogue("read"),
           create_skill |-> Write("POST", "add"),
           update_skill_settings |-> Write("PATCH", "set")]
StudioReads == [list_studios |-> OpenData, list_studio_hardware |-> OpenData,
                list_studio_base_images |-> OpenData, list_studio_sdk_versions |-> OpenData]
Studios == [get_studio |-> OpenData, create_studio |-> Write("POST", "add"),
            deploy_studio |-> Write("POST", "switch"), stop_studio |-> Write("POST", "switch"),
            get_studio_logs |-> OwnData]
StudioSettings == [list_studio_secrets |-> OwnData, list_studio_variables |-> OwnData,
                   add_studio_secret |-> Write("POST", "add"),
                   add_studio_variable |-> Write("POST", "add"),
                   update_studio_secret |-> Write("PUT", "set"),
                   update_studio_variable |-> Write("PUT", "set"),
                   delete_studio_secret |-> Write("DELETE", "remove"),
                   delete_studio_variable |-> Write("DELETE", "remove"),
                   update_studio_settings |-> Write("PATCH", "set")]
AgentIds == [create_agent_identity |-> Write("POST", "issue"),
             get_agent_identity |-> OwnData, list_agent_token_records |-> OwnData,
             list_user_agent_identities |-> OwnData,
             update_agent_identity |-> Write("PATCH", "set"),
             delete_agent_identity |-> Write("DELETE", "remove"),
             reset_agent_key_pair |-> Write("PUT", "set"), pause_agent |-> Write("POST", "set")]
AgentTokens == [issue_agent_token |-> Signed("POST", "issue"),
                get_agent_id_configuration |-> Signed("GET", "read"),
                get_agent_id_jwks |-> Signed("GET", "read")]
McpServers == [list_operational_mcp_servers |-> OwnData, get_mcp_server |-> OpenData,
               deploy_mcp_server |-> Write("POST", "switch"),
               undeploy_mcp_server |-> Write("DELETE", "remove")]
McpList == [list_mcp_servers |-> [OpenData EXCEPT !.verb = "PUT"]]

\* Records of different fields put together.
Merged(groups) ==
  [e \in UNION {DOMAIN g : g \in groups} |-> (CHOOSE g \in groups : e \in DOMAIN g)[e]]

Endpoints == Merged({ModelReads, ModelWrites, Datasets, FileUploads, Skills, StudioReads, Studios,
                     StudioSettings, AgentIds, AgentTokens, McpServers, McpList})

-----------------------------------------------------------------------------
(* The calls of HubApi (api.py) that ask one endpoint, by the type of the    *)
(* repository; "any" where the call has none.                                *)
Lists == [list_repos |-> [model |-> "list_models", dataset |-> "list_datasets",
    skill |-> "list_skills", studio |-> "list_studios", mcp |-> "list_mcp_servers"]]
Creations == [create_repo |-> [model |-> "create_model", dataset |-> "create_dataset",
    studio |-> "create_studio", skill |-> "create_skill"]]
GetRepo == [get_repo |-> [model |-> "get_model", dataset |-> "get_dataset",
    studio |-> "get_studio", skill |-> "get_skill", mcp |-> "get_mcp_server"]]
Details == [get_model |-> [any |-> "get_model"], get_dataset |-> [any |-> "get_dataset"]]
Options == [list_model_options |-> [any |-> "list_aigc_model_options"]]
ModelZones == [set_model_category |-> [model |-> "set_model_category"],
    update_model_category |-> [model |-> "update_model_category"]]
DatasetZones == [set_dataset_category |-> [dataset |-> "set_dataset_category"],
    update_dataset_category |-> [dataset |-> "update_dataset_category"]]
GenericFile == [upload_file_to_openapi |-> [any |-> "upload_file"]]
Running == [deploy_repo |-> [studio |-> "deploy_studio", mcp |-> "deploy_mcp_server"],
    stop_repo |-> [studio |-> "stop_studio", mcp |-> "undeploy_mcp_server"],
    get_repo_logs |-> [studio |-> "get_studio_logs"]]
Settings == [update_repo_settings |-> [studio |-> "update_studio_settings",
    skill |-> "update_skill_settings", dataset |-> "update_dataset_settings",
    model |-> "update_model_settings"]]
Secrets == [list_secrets |-> [studio |-> "list_studio_secrets"],
    add_secret |-> [studio |-> "add_studio_secret"],
    update_secret |-> [studio |-> "update_studio_secret"],
    delete_secret |-> [studio |-> "delete_studio_secret"]]
Variables == [list_variables |-> [studio |-> "list_studio_variables"],
    add_variable |-> [studio |-> "add_studio_variable"],
    update_variable |-> [studio |-> "update_studio_variable"],
    delete_variable |-> [studio |-> "delete_studio_variable"]]
Hardware == [c \in {"list_studio_hardware", "list_studio_base_images", "list_studio_sdk_versions"} |->
    [any |-> c]]
Mcp == [c \in DOMAIN McpServers \cup DOMAIN McpList |-> [any |-> c]]
Identities == [c \in DOMAIN AgentIds \cup DOMAIN AgentTokens |-> [any |-> c]]

HubCalls == Merged({Lists, Creations, GetRepo, Details, Options, ModelZones, DatasetZones,
                    GenericFile, Running, Settings, Secrets, Variables, Hardware, Mcp, Identities})
Kinds == {"model", "dataset", "studio", "skill", "mcp", "any"}

\* Endpoints that are asked through the client only.
ClientOnly == {"delete_model_files", "delete_dataset_files"}

-----------------------------------------------------------------------------
None == "none"

Init ==
  /\ token \in {"none", "stale", "reads", "writes"} /\ public \in BOOLEAN
  /\ serves \in SUBSET {"PUT", "GET"} /\ exists \in BOOLEAN
  /\ stored = "nothing" /\ gets = "unknown"
  /\ call = None /\ verb = "GET" /\ attempt = 0 /\ anon = FALSE /\ read = FALSE
  /\ times = 0 /\ answer = None /\ calls = 0

\* The methods that are repeated whatever went wrong; a POST is one of them when its path
\* says that it deploys or stops.
\* (Mutant: every POST.)
IdempotentPosts(e) == verb \in {"GET", "PUT", "DELETE", "POST"}
Idempotent(e) ==
  verb \in {"GET", "PUT", "DELETE"} \/ (verb = "POST" /\ Endpoints[e].does = "switch")

\* Whether the call may ask once more without its token.
\* (Mutant: every reading call.)
OpenRead(e) == Endpoints[e].does \in {"read", "readown"}
Open(e)     == Endpoints[e].open

\* A call over; its answer stands until the next one.
End(a) == /\ answer' = a /\ call' = None /\ attempt' = 0 /\ anon' = FALSE
          /\ UNCHANGED <<verb, calls>>

\* Without a token that is needed, nothing is sent.
Call(e) ==
  /\ call = None /\ calls < MaxCalls
  /\ calls' = calls + 1 /\ times' = 0 /\ read' = FALSE
  /\ UNCHANGED <<site, item, gets>>
  /\ IF Endpoints[e].token = "must" /\ token = "none"
     THEN /\ answer' = "denied" /\ call' = None /\ UNCHANGED <<verb, attempt, anon>>
     ELSE /\ answer' = None /\ call' = e /\ attempt' = 1
          /\ anon' = (Endpoints[e].token = "never")
          /\ verb' = IF e = "list_mcp_servers" /\ gets = "yes" THEN "GET" ELSE Endpoints[e].verb

\* Through HubApi: nothing is sent for a type the call does not support.
HubCall(c, t) ==
  /\ call = None /\ calls < MaxCalls
  /\ IF t \in DOMAIN HubCalls[c] THEN Call(HubCalls[c][t])
     ELSE /\ calls' = calls + 1 /\ answer' = "unsupported" /\ times' = 0 /\ read' = FALSE
          /\ UNCHANGED <<site, item, gets, call, verb, attempt, anon>>

-----------------------------------------------------------------------------
(* The site.                                                                 *)

Credential == IF anon THEN "none" ELSE token

\* What it says of an attempt, with the token that came with it.
Reply ==
  LET does == Endpoints[call].does IN
  IF call = "list_mcp_servers" /\ verb \notin serves THEN "unsupported"
  ELSE IF Credential = "stale" THEN "denied"
  ELSE CASE does = "read" -> IF public \/ Credential # "none" THEN "ok" ELSE "denied"
         [] does = "readown" -> IF Credential = "none" THEN "empty" ELSE "ok"
         [] OTHER -> IF Credential # "writes" /\ Endpoints[call].token = "must" THEN "denied"
                     ELSE IF does = "add" /\ exists THEN "taken"
                     ELSE IF does \in {"set", "remove", "switch"} /\ ~exists THEN "absent"
                     ELSE "ok"

\* Carrying it out.
Effect ==
  LET does == Endpoints[call].does IN
  IF Reply # "ok" THEN UNCHANGED <<item, times>>
  ELSE /\ times' = IF does \in {"add", "store", "issue"} /\ times < 2 THEN times + 1 ELSE times
       /\ exists' = CASE does = "add" -> TRUE [] does = "remove" -> FALSE [] OTHER -> exists
       /\ stored' = IF does = "store" THEN (IF read THEN "empty" ELSE "whole") ELSE stored

NoEffect == UNCHANGED <<item, times>>

-----------------------------------------------------------------------------
(* _send and _request.                                                       *)

\* The form with the file is made anew for each attempt, from the same stream.
Sent == read' = (read \/ Endpoints[call].does = "store")

Raise(a) == End(a) /\ UNCHANGED gets

\* An attempt without a verdict: lost on the way, or an error of the site's.
Repeat(may, a) ==
  IF may /\ attempt < MaxRetries
  THEN attempt' = attempt + 1 /\ UNCHANGED <<gets, call, verb, anon, answer, calls>>
  ELSE Raise(a)

Lost ==
  /\ call # None /\ Sent /\ UNCHANGED site
  /\ Effect \/ NoEffect
  /\ Repeat(Idempotent(call), "failed")

\* Too many requests: the site did nothing, and everything is repeated.
Busy == call # None /\ Sent /\ UNCHANGED site /\ NoEffect /\ Repeat(TRUE, "busy")

\* A verdict: a rejected token is left out where the endpoint allows it.
Answered ==
  /\ call # None /\ call # "list_mcp_servers" /\ Sent /\ UNCHANGED site
  /\ Effect
  /\ IF Reply = "denied" /\ Open(call) /\ ~anon /\ token # "none"
     THEN anon' = TRUE /\ attempt' = 1 /\ UNCHANGED <<gets, call, verb, answer, calls>>
     ELSE Raise(Reply)

-----------------------------------------------------------------------------
(* list_mcp_servers: PUT, and GET where the site does not know PUT.          *)

\* What its answers teach it.
\* (Mutant: any refusal of PUT.)
UnsupportedAny == Reply # "ok"
Unsupported    == Reply = "unsupported"

ListAnswered ==
  /\ call = "list_mcp_servers" /\ UNCHANGED <<site, item, times, read>>
  /\ IF Reply = "denied" /\ Open(call) /\ ~anon /\ token # "none"
     THEN anon' = TRUE /\ attempt' = 1 /\ UNCHANGED <<gets, call, verb, answer, calls>>
     ELSE IF verb = "PUT" /\ Unsupported /\ gets = "unknown"
     THEN /\ verb' = "GET" /\ attempt' = 1 /\ anon' = FALSE
          /\ UNCHANGED <<gets, call, answer, calls>>
     ELSE /\ End(Reply)
          /\ gets' = IF verb = "PUT" \/ gets = "yes" THEN gets
                     ELSE CASE Reply = "ok" -> "yes" [] Unsupported -> "no" [] OTHER -> gets

Rest == calls = MaxCalls /\ call = None /\ UNCHANGED vars

Next ==
  \/ \E c \in DOMAIN HubCalls, t \in Kinds : HubCall(c, t)
  \/ \E e \in ClientOnly : Call(e)
  \/ Lost \/ Busy \/ Answered \/ ListAnswered \/ Rest
Spec == Init /\ [][Next]_vars

-----------------------------------------------------------------------------
TypeOK ==
  /\ token \in {"none", "stale", "reads", "writes"} /\ public \in BOOLEAN
  /\ serves \subseteq {"PUT", "GET"} /\ exists \in BOOLEAN
  /\ stored \in {"nothing", "whole", "empty"} /\ gets \in {"unknown", "yes", "no"}
  /\ call \in DOMAIN Endpoints \cup {None}
  /\ verb \in {"GET", "PUT", "POST", "PATCH", "DELETE"}
  /\ attempt \in 0..MaxRetries + 1 /\ anon \in BOOLEAN /\ read \in BOOLEAN
  /\ times \in 0..2 /\ calls \in 0..MaxCalls
  /\ answer \in {None, "ok", "empty", "denied", "taken", "absent", "unsupported", "failed", "busy"}

\* Nothing that adds up is done twice for one call, whatever was lost on the way: no second
\* item, file or token, and "already exists" is never said of what the call itself made.
AppliedOnce == times <= 1 /\ (answer = "taken" => times = 0)

\* Data of the account is never asked for without the token, which would be answered with
\* nothing and hide that the token was rejected.
OwnNeverAnonymous ==
  /\ answer # "empty"
  /\ (call # None /\ Endpoints[call].does = "readown") => ~anon

\* What is remembered of the verbs of the list is so: a site that knows PUT is not asked
\* with GET, and GET is given up only where the site knows neither.
VerbRemembered ==
  /\ gets = "yes" => serves = {"GET"}
  /\ gets = "no" => serves = {}

\* The file that the site holds is the caller's (repeating a request that the site did not
\* process "is always safe").  It is not: a repeated form is made from a stream at its end.
StoredWhole == answer = "ok" => stored # "empty"
=============================================================================
