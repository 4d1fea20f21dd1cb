----------------------------- MODULE AgentPlugin -----------------------------
(***************************************************************************)
(* install_agent (agent/_plugin.py): an agent plugin is fetched, verified   *)
(* against its own manifest, named in the log, imported and run.            *)
(*                                                                          *)
(* The hub and the plugin's own code are external.  A file's content is a   *)
(* model value; the directory of a plugin is the snapshot of its revision,  *)
(* which a download updates file by file and from which it removes nothing. *)
(***************************************************************************)
EXTENDS Naturals, Functions

CONSTANTS
  Plugins,         \* plugin repositories, each with a directory of its own
  Trusted,         \* those whose owner is on the allow-list
  Packages,        \* what may be published: [files, manifest], both file |-> content
  Broken,          \* contents of the entry module that cannot be imported
  MaxInstalls      \* calls in all (model bound)

Entry   == "entry"
Results == {"ok", "failed", "no_ok", "raises", "unsupported"}

ConstantsOK == /\ Plugins # {} /\ Trusted \subseteq Plugins
               /\ Packages # {} /\ MaxInstalls \in Nat

VARIABLES
  hub,             \* the package each repository publishes
  disk,            \* what its directory holds
  modules,         \* sys.modules: the entry content loaded under the directory's alias
  paths,           \* the plugin directories in sys.path
  own,             \* those the program itself has put there
  pc, plugin, inserted,
  verified,        \* entry contents that have passed the check, by directory
  logged,          \* the entry content the audit line stands for
  ran, result,     \* what was run and what it answered
  outcome,
  installs

call == <<plugin, inserted, logged, ran, result, outcome>>
vars == <<hub, disk, modules, paths, own, pc, call, verified, installs>>

Empty == [f \in {} |-> 0]
None  == "none"
Bare  == [files |-> Empty, manifest |-> Empty]

Init ==
  /\ hub = [p \in Plugins |-> CHOOSE k \in Packages : TRUE]
  /\ disk = [p \in Plugins |-> Bare] /\ modules = [p \in Plugins |-> None]
  /\ own = {} /\ paths = {}
  /\ pc = "idle" /\ plugin = (CHOOSE p \in Plugins : TRUE) /\ inserted = FALSE
  /\ verified = {} /\ logged = None /\ ran = None /\ result = None
  /\ outcome = None /\ installs = 0

Publish(p, k) ==
  /\ pc = "idle" /\ installs < MaxInstalls
  /\ hub' = [hub EXCEPT ![p] = k]
  /\ UNCHANGED <<disk, modules, paths, own, pc, call, verified, installs>>

\* The program works on a plugin's directory itself.
OwnPath(p) ==
  /\ pc = "idle" /\ p \notin paths /\ installs < MaxInstalls
  /\ paths' = paths \cup {p} /\ own' = own \cup {p}
  /\ UNCHANGED <<hub, disk, modules, pc, call, verified, installs>>

\* resolve_plugin_repo and assert_trusted_owner: any other owner is refused unfetched.
Allowed(p) == p \in Trusted
Begin(p) ==
  /\ pc = "idle" /\ installs < MaxInstalls /\ installs' = installs + 1
  /\ plugin' = p
  /\ IF Allowed(p) THEN pc' = "fetch" /\ outcome' = None
     ELSE pc' = "idle" /\ outcome' = "raised"
  /\ logged' = None /\ ran' = None /\ result' = None
  /\ UNCHANGED <<hub, disk, modules, paths, own, inserted, verified>>

\* fetch_plugin: the files published now, over those that are there; or it fails.
Over(new, old) ==
  [f \in DOMAIN new \cup DOMAIN old |-> IF f \in DOMAIN new THEN new[f] ELSE old[f]]
Fetched(p) == [files |-> Over(hub[p].files, disk[p].files), manifest |-> hub[p].manifest]
Raise == pc' = "idle" /\ outcome' = "raised"
Fetch ==
  /\ pc = "fetch"
  /\ \/ disk' = [disk EXCEPT ![plugin] = Fetched(plugin)] /\ pc' = "verify"
        /\ UNCHANGED outcome
     \/ UNCHANGED disk /\ Raise
  /\ UNCHANGED <<hub, modules, paths, own, plugin, inserted, verified, logged, ran, result,
                 installs>>

\* verify_manifest: every listed file is there with its content, and no other is.
\* (Mutant: the names alone are compared.)
VerifiesNames(d) == DOMAIN d.manifest # {} /\ DOMAIN d.files = DOMAIN d.manifest
Verifies(d)      == DOMAIN d.manifest # {} /\ d.files = d.manifest
EntryOf(files) == IF Entry \in DOMAIN files THEN files[Entry] ELSE None
Verify ==
  /\ pc = "verify"
  /\ LET d == disk[plugin] IN
       IF Verifies(d)
       THEN /\ logged' = EntryOf(d.manifest) /\ pc' = "enter"
            /\ verified' = verified \cup {<<plugin, EntryOf(d.manifest)>>}
            /\ UNCHANGED outcome
       ELSE Raise /\ UNCHANGED <<logged, verified>>
  /\ UNCHANGED <<hub, disk, modules, paths, own, plugin, inserted, ran, result, installs>>

\* plugin_syspath, on the way in.
EnterPath ==
  /\ pc = "enter" /\ pc' = "load"
  /\ inserted' = (plugin \notin paths) /\ paths' = paths \cup {plugin}
  /\ UNCHANGED <<hub, disk, modules, own, plugin, verified, logged, ran, result, outcome,
                 installs>>

\* load_plugin: the alias stands for the directory, so a module that is loaded already is
\* taken; a load that fails takes the alias and the directory out again.
Load ==
  /\ pc = "load"
  /\ LET e == EntryOf(disk[plugin].files) IN
     \/ modules[plugin] # None /\ ran' = modules[plugin] /\ pc' = "run"
        /\ UNCHANGED <<modules, paths, result>>
     \/ modules[plugin] = None /\ e \notin Broken \cup {None}
        /\ modules' = [modules EXCEPT ![plugin] = e] /\ ran' = e /\ pc' = "run"
        /\ UNCHANGED <<paths, result>>
     \/ modules[plugin] = None /\ e \in Broken \cup {None}
        /\ paths' = paths \ {plugin} /\ result' = "unloadable" /\ pc' = "leave"
        /\ UNCHANGED <<modules, ran>>
  /\ UNCHANGED <<hub, disk, own, plugin, inserted, verified, logged, outcome, installs>>

\* select_operation and the operation itself.
Run ==
  /\ pc = "run" /\ pc' = "leave"
  /\ \E r \in Results : result' = r
  /\ UNCHANGED <<hub, disk, modules, paths, own, plugin, inserted, verified, logged, ran,
                 outcome, installs>>

\* plugin_syspath, on the way out, and what is made of the result: success only if it
\* says so itself.
Outcome(r) == IF r = "unsupported" THEN "raised" ELSE IF r = "ok" THEN "ok" ELSE "failed"
Left(p) == IF inserted THEN paths \ {p} ELSE paths
Leave ==
  /\ pc = "leave" /\ pc' = "idle"
  /\ paths' = Left(plugin)
  /\ outcome' = Outcome(result)
  /\ UNCHANGED <<hub, disk, modules, own, plugin, inserted, verified, logged, ran, result,
                 installs>>

Rest == pc = "idle" /\ installs = MaxInstalls /\ UNCHANGED vars

Next ==
  \/ \E p \in Plugins : Begin(p) \/ OwnPath(p) \/ \E k \in Packages : Publish(p, k)
  \/ Fetch \/ Verify \/ EnterPath \/ Load \/ Run \/ Leave \/ Rest

Spec == Init /\ [][Next]_vars

-----------------------------------------------------------------------------
(* Properties                                                               *)

Contents == UNION {Range(k.files) \cup Range(k.manifest) : k \in Packages}
TypeOK ==
  /\ hub \in [Plugins -> Packages]
  /\ \A p \in Plugins : Range(disk[p].files) \cup Range(disk[p].manifest) \subseteq Contents
  /\ modules \in [Plugins -> Contents \cup {None}]
  /\ own \subseteq Plugins /\ paths \subseteq Plugins
  /\ pc \in {"idle", "fetch", "verify", "enter", "load", "run", "leave"}
  /\ plugin \in Plugins /\ inserted \in BOOLEAN
  /\ verified \subseteq Plugins \X (Contents \cup {None}) /\ logged \in Contents \cup {None}
  /\ ran \in Contents \cup {None} /\ result \in Results \cup {None, "unloadable"}
  /\ outcome \in {None, "raised", "ok", "failed"} /\ installs \in 0..MaxInstalls

\* Whatever runs comes from an owner on the allow-list, was checked against a manifest in
\* the directory it was loaded from, and finds that directory in sys.path; the user is
\* told of a success only if the plugin has run and says so; and afterwards no directory
\* is left in sys.path that the program had not put there.
OnlyVerifiedRuns ==
  /\ ran # None => plugin \in Trusted /\ <<plugin, ran>> \in verified
  /\ pc = "run" => plugin \in paths
  /\ outcome = "ok" => ran # None /\ result = "ok"
  /\ pc \in {"idle", "fetch", "verify"} => paths \subseteq own

\* The build the audit line names is the one that runs (verify_manifest's docstring:
\* what was recorded as about to run and what got imported cannot diverge).
AuditTrue == ran # None => ran = logged
=============================================================================
