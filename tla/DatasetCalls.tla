----------------------------- MODULE DatasetCalls ------------------------------
(***************************************************************************)
(* One dataset on two sites and the calls of a LegacyHubApi about it        *)
(* (compat/hub_api.py), each with an endpoint, a token, both or neither.    *)
(* The calls about files go by the dataset's number, which the class        *)
(* remembers for the process; numbers are a site's own.                     *)
(*                                                                          *)
(* The sites and other people are external.                                 *)
(***************************************************************************)
EXTENDS Naturals

CONSTANTS
  Sites,
  Home,        \* the site of this LegacyHubApi
  MaxCalls,    \* calls (model bound)
  MaxIds       \* numbers of each site (model bound)

None        == "none"
ConstantsOK == /\ Home \in Sites /\ None \notin Sites
               /\ {MaxCalls, MaxIds} \subseteq Nat /\ MaxIds >= 2

VARIABLES
  id,          \* site -> the dataset's number there, 0 without one
  named,       \* site -> every number that it has had there
  cache,       \* _dataset_id_type_cache: endpoint -> number
  local,       \* the meta file in the cache directory: whose it is
  pc, asked, token, number,   \* the call: the endpoint and token given, the number found
  did,         \* what it did: [what, site, number]
  calls

vars == <<id, named, cache, local, pc, asked, token, number, did, calls>>
Nothing == [what |-> None, site |-> Home, number |-> 0]
NoFile  == [site |-> None, number |-> 0, whole |-> FALSE]

\* Each site has numbers for this dataset from 1 or from 2 on; the others are of others.
Init ==
  /\ id \in [Sites -> 0..2] /\ named = [s \in Sites |-> {id[s]} \ {0}]
  /\ cache = [s \in Sites |-> 0] /\ local = NoFile
  /\ pc = "idle" /\ asked = None /\ token = FALSE /\ number = 0 /\ did = Nothing /\ calls = 0

\* The site that a call goes to: an endpoint counts only together with a token.
Reached == IF token /\ asked # None THEN asked ELSE Home

Begin(p, e, t) ==
  /\ pc = "idle" /\ calls < MaxCalls /\ calls' = calls + 1
  /\ asked' = e /\ token' = t /\ number' = 0 /\ did' = Nothing /\ pc' = p
  /\ UNCHANGED <<id, named, cache, local>>

Done(what, n) == pc' = "idle" /\ did' = [what |-> what, site |-> Reached, number |-> n]
Fail          == pc' = "idle" /\ UNCHANGED did
call          == <<asked, token, calls>>

-----------------------------------------------------------------------------
\* get_dataset_id_and_type: the number that is remembered for the endpoint that the call
\* names, or else the one of the site that it reaches.
\* (Mutant: one number for the dataset, whatever the endpoint.)
KeyOne == Home
Key    == IF asked = None THEN Home ELSE asked
Lookup ==
  /\ pc = "id" /\ UNCHANGED <<id, named, local, call>>
  /\ \/ /\ cache[Key] # 0 /\ number' = cache[Key] /\ pc' = "tree" /\ UNCHANGED <<cache, did>>
     \/ /\ cache[Key] = 0 /\ id[Reached] # 0
        /\ number' = id[Reached] /\ cache' = [cache EXCEPT ![Key] = id[Reached]]
        /\ pc' = "tree" /\ UNCHANGED did
     \/ cache[Key] = 0 /\ Fail /\ UNCHANGED <<cache, number>>

\* get_dataset_files and get_dataset_meta_file_list: the tree of that number.
Tree ==
  /\ pc = "tree" /\ UNCHANGED <<id, named, cache, local, number, call>>
  /\ Done("listed", number) \/ Fail

\* get_dataset_meta_files_local_paths: the file is fetched by the dataset's name, and
\* thrown away when there is one of its name; a process that dies leaves what it has.
MetaFile ==
  /\ pc = "meta" /\ UNCHANGED <<id, named, cache, number, call>>
  /\ \/ /\ id[Reached] # 0 /\ Done("path", id[Reached])
        /\ local' = IF local # NoFile THEN local
                    ELSE [site |-> Reached, number |-> id[Reached], whole |-> TRUE]
     \/ Fail /\ local' \in {local} \cup
          (IF local = NoFile /\ id[Reached] # 0
           THEN {[site |-> Reached, number |-> id[Reached], whole |-> FALSE]} ELSE {})

\* get_dataset, list_datasets.
Read ==
  /\ pc = "read" /\ UNCHANGED <<id, named, cache, local, number, call>>
  /\ (id[Reached] # 0 /\ Done("read", id[Reached])) \/ Fail

\* A number that the dataset has not had on that site.
Fresh(s) == {n \in 1..MaxIds : \A m \in named[s] : m < n}
MakeAt(s) ==
  /\ id[s] = 0
  /\ \E n \in Fresh(s) : id' = [id EXCEPT ![s] = n] /\ named' = [named EXCEPT ![s] = @ \cup {n}]

Create ==
  /\ pc = "create" /\ UNCHANGED <<cache, local, number, call>>
  /\ \/ MakeAt(Reached) /\ Done("created", 0)
     \/ Fail /\ UNCHANGED <<id, named>>

Delete ==
  /\ pc = "delete" /\ UNCHANGED <<named, cache, local, number, call>>
  /\ \/ id[Reached] # 0 /\ id' = [id EXCEPT ![Reached] = 0] /\ Done("deleted", id[Reached])
     \/ Fail /\ UNCHANGED id

\* Somebody deletes it on a site, or makes it there again.
Others ==
  /\ \E s \in Sites : MakeAt(s) \/ (id[s] # 0 /\ id' = [id EXCEPT ![s] = 0] /\ UNCHANGED named)
  /\ UNCHANGED <<cache, local, pc, number, did, call>>

Next ==
  \/ \E p \in {"id", "meta", "read", "create", "delete"}, e \in Sites \cup {None}, t \in BOOLEAN :
       Begin(p, e, t)
  \/ Lookup \/ Tree \/ MetaFile \/ Read \/ Create \/ Delete \/ Others
  \/ calls = MaxCalls /\ pc = "idle" /\ UNCHANGED vars
Spec == Init /\ [][Next]_vars

-----------------------------------------------------------------------------
(* Properties                                                               *)

Acts == [what : {None, "listed", "path", "read", "created", "deleted"}, site : Sites,
         number : 0..MaxIds]
TypeOK ==
  /\ id \in [Sites -> 0..MaxIds] /\ named \in [Sites -> SUBSET (1..MaxIds)]
  /\ cache \in [Sites -> 0..MaxIds] /\ number \in 0..MaxIds
  /\ local \in [site : Sites \cup {None}, number : 0..MaxIds, whole : BOOLEAN]
  /\ pc \in {"idle", "id", "tree", "meta", "read", "create", "delete"}
  /\ asked \in Sites \cup {None} /\ token \in BOOLEAN /\ did \in Acts /\ calls \in 0..MaxCalls

\* A call that names no other site lists the files of the dataset that it names, perhaps
\* of one that was deleted since, and never of another one of that number, whatever calls
\* about other sites came before it in the process.
ListedIsNamed ==
  (did.what = "listed" /\ asked \in {None, Home}) => did.number \in named[did.site]

\* So does a call that names another site (it need not: a call with that endpoint and no
\* token remembers the number of its own site for it).
ListedIsNamedAnywhere == did.what = "listed" => did.number \in named[did.site]

\* What a call does, it does where it was asked to: "Override API endpoint" (it need not:
\* without a token an endpoint is ignored, and the dataset of the own site is deleted).
DoneWhereAsked == (did.what # None /\ asked # None) => did.site = asked

\* A path that is returned is of a whole file of the dataset that was asked for.
PathIsNamed ==
  did.what = "path" => local.whole /\ local.site = did.site /\ local.number = did.number
=============================================================================
