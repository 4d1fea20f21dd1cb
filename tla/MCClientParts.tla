---------------------------- MODULE MCClientParts ----------------------------
(* ClientParts for TLC: what a configuration cannot write, and one beginning *)
(* for each part that a behaviour is not about.                              *)
EXTENDS ClientParts, TLC

CONSTANTS
  t1, t2,            \* threads that commit; the processes and readers of other parts
  f1, f2, f3         \* files whose bytes are counted

TwoThreads   == {t1, t2}
TwoProcesses == TwoThreads
Symmetric    == Permutations(TwoThreads)

ThreeFiles == {f1, f2, f3}
TwoBatches == f1 :> 1 @@ f2 :> 1 @@ f3 :> 2
\* The blob of f2 is already stored: it moves nothing.
MovedBytes == f1 :> 2 @@ f2 :> 0 @@ f3 :> 1

\* Packages of an agent plugin: whole, changed with its manifest, changed without it, with an
\* entry that cannot be imported, and without one.
Package(of, listed) == [files |-> of, manifest |-> listed]
PluginPackages ==
  LET lib == "lib" :> "l1" IN
  {Package("entry" :> v @@ lib, "entry" :> v @@ lib) : v \in {"v1", "bad"}}
  \cup {Package("entry" :> "v2", "entry" :> "v2"), Package("entry" :> "v3" @@ lib, "entry" :> "v1" @@ lib),
        Package(lib, lib)}

\* Where an older SDK may have left a copy.
OldLayouts == {{}, {"typed"}, {"hub_typed", "hub_flat"}, {"flat", "hub_other"}}

\* A tree of three levels: two entries at the top, one of them a directory with another in it.
TreeNodes  == {"f", "d", "g", "e", "h", "i"}
TreeParent == [n \in TreeNodes |-> CASE n \in {"f", "d"} -> "/" [] n \in {"g", "e"} -> "d"
                                   [] OTHER -> "e"]

\* Two contents of one size.
ContentSizes == "a" :> 2 @@ "b" :> 2 @@ "c" :> 1

-----------------------------------------------------------------------------
\* A part that is not shown begins in one way.
OneBeginning ==
  /\ part # "wire" => holding = (CHOOSE h \in Throttles : TRUE)
  /\ part # "revs" => revs_lock = Revs!None
  /\ part # "cache" => cache_tree = [p \in Cache!Places |-> Cache!Nothing]
  /\ part # "lock" => lock_limit = [p \in lock_Procs |-> lock_Stale]
  /\ part # "creds" => creds_cookies = Creds!None /\ creds_over = [p \in creds_Procs |-> FALSE]
  /\ part # "reqs" => reqs_token = "none" /\ reqs_public = FALSE /\ reqs_serves = {} /\ reqs_exists = FALSE
  /\ part # "repo" => repo_type = "model" /\ repo_site = "absent" /\ repo_publishes = TRUE
  /\ part # "walk" => walk_tree = {}
  /\ part # "data" => data_id = [s \in data_Sites |-> 0]
  /\ part # "plan" => plan_weights = <<>> /\ plan_budget = 0 /\ plan_cap = 1
  \* The file that changes is of the larger size at first, and there are two of that size.
  /\ change_holds = "a"

MCInit == part \in Parts /\ OneBeginning /\ PartsInit
MCSpec == MCInit /\ [][PartsNext]_allVars
=============================================================================
