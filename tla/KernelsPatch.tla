---------------------------- MODULE KernelsPatch ----------------------------
(***************************************************************************)
(* The scoped patch of the kernels library (kernels/_patch.py) under the    *)
(* wrappers of kernels/_load.py: for the time of a call, the factory        *)
(* _get_hf_api of every loaded module of the library is ModelScope's.       *)
(*                                                                          *)
(* The library is external: a module of it that is imported, by a call or   *)
(* by any other code of the process, binds the factory its home module has  *)
(* at that moment.  A kernel's own code may call a wrapper again, so scopes *)
(* nest.                                                                    *)
(*                                                                          *)
(* Patching and undoing go over a copy of sys.modules, and change the home  *)
(* module before and after it.  A module imported in between is in no copy, *)
(* or in one that takes the patch for its own factory (astray).  The modules *)
(* of a copy are changed in one step, when it is taken: an import sees the  *)
(* home module only, and calls of several threads are not told apart here.  *)
(***************************************************************************)
EXTENDS Naturals, Sequences

CONSTANTS
  Threads,
  Submodules,      \* modules of the library that bind the factory when imported
  MaxCalls,        \* wrapper calls in all (model bound)
  MaxDepth         \* calls within calls (model bound)

Modules == Submodules \cup {"home"}

ConstantsOK == /\ Threads # {} /\ "install" \in Submodules /\ "home" \notin Submodules
               /\ MaxCalls \in Nat /\ MaxDepth \in Nat \ {0}

VARIABLES
  loaded,          \* sys.modules: the modules of the library that are imported
  api,             \* _get_hf_api of each module: "hf" or "ms"
  origin,          \* _get_hf_api_origin: "hf", "ms", or "none" without that attribute
  pc,              \* where each thread is
  scopes,          \* its open patch_scope blocks: whether each one has to unpatch
  saw,             \* what unpatch_kernels_hub has read
  explicit,        \* the user has asked for the patch to stay
  calls,
  astray           \* history: the modules imported between the two halves of a change

lib    == <<loaded, api, origin, astray>>
locals == <<scopes, saw, explicit, calls>>
vars   == <<lib, pc, locals>>

Init ==
  /\ loaded = {} /\ api = [m \in Modules |-> "hf"] /\ origin = [m \in Modules |-> "none"]
  /\ pc = [t \in Threads |-> "idle"] /\ scopes = [t \in Threads |-> <<>>]
  /\ saw = [t \in Threads |-> "none"] /\ explicit = FALSE /\ calls = 0
  /\ astray = {}

Patched     == origin["home"] # "none"
Go(t, l)    == pc' = [pc EXCEPT ![t] = l]
Resting(t)  == IF scopes[t] = <<>> THEN "idle" ELSE "call"

\* Importing a module of the library, in a call or anywhere else.
HalfDone == \E t \in Threads : pc[t] \in {"sweep", "home"}
Load(m) == /\ loaded' = loaded \cup {m}
           /\ api' = IF m \in loaded THEN api ELSE [api EXCEPT ![m] = api["home"]]
           /\ astray' = IF HalfDone /\ m \notin loaded THEN astray \cup {m} ELSE astray
Import(m) ==
  /\ m \notin loaded /\ Load(m)
  /\ UNCHANGED <<origin, pc, locals>>

\* A wrapper is called, by the user or by the code of a kernel that is being loaded.
\* (The one that installs all variants first imports the module that does it.)
Enter(t) ==
  /\ pc[t] \in {"idle", "call"} /\ Len(scopes[t]) < MaxDepth
  /\ calls < MaxCalls /\ calls' = calls + 1
  /\ Go(t, "scope")
  /\ UNCHANGED <<scopes, saw, explicit>>
GetKernel(t)  == Enter(t) /\ UNCHANGED lib
InstallAll(t) == Enter(t) /\ Load("install") /\ UNCHANGED origin

\* patch_scope: an outer patch is reused, and is not this scope's to undo.
OpenScope(t, mine) == scopes' = [scopes EXCEPT ![t] = Append(@, mine)]
\* (Mutant: every scope undoes the patch.)
ScopeOwned(t) ==
  /\ pc[t] = "scope"
  /\ OpenScope(t, TRUE) /\ Go(t, "patch")
  /\ UNCHANGED <<lib, saw, explicit, calls>>
Scope(t) ==
  /\ pc[t] = "scope"
  /\ IF Patched THEN OpenScope(t, FALSE) /\ Go(t, "call")
     ELSE OpenScope(t, TRUE) /\ Go(t, "patch")
  /\ UNCHANGED <<lib, saw, explicit, calls>>

\* patch_kernels_hub, step by step as an import may see it: the check, the home module's
\* origin, its factory, and the modules loaded by then that are not patched.
Check(t) ==
  /\ pc[t] = "patch"
  /\ Go(t, IF Patched THEN Resting(t) ELSE "save")
  /\ UNCHANGED <<lib, locals>>
Save(t) ==
  /\ pc[t] = "save"
  /\ origin' = [origin EXCEPT !["home"] = api["home"]]
  /\ Go(t, "replace")
  /\ UNCHANGED <<loaded, api, astray, locals>>
Replace(t) ==
  /\ pc[t] = "replace"
  /\ api' = [api EXCEPT !["home"] = "ms"]
  /\ Go(t, "sweep")
  /\ UNCHANGED <<loaded, origin, astray, locals>>
Fresh == {m \in loaded : origin[m] = "none"}
Sweep(t) ==
  /\ pc[t] = "sweep"
  /\ origin' = [m \in Modules |-> IF m \in Fresh THEN api[m] ELSE origin[m]]
  /\ api' = [m \in Modules |-> IF m \in Fresh THEN "ms" ELSE api[m]]
  /\ Go(t, Resting(t))
  /\ UNCHANGED <<loaded, astray, locals>>

\* The call into the library is over, by its result or an exception.
Leave(t) ==
  /\ pc[t] = "call"
  /\ LET last == Len(scopes[t]) IN
       /\ scopes' = [scopes EXCEPT ![t] = SubSeq(@, 1, last - 1)]
       /\ Go(t, IF scopes[t][last] THEN "unpatch" ELSE IF last > 1 THEN "call" ELSE "idle")
  /\ UNCHANGED <<lib, saw, explicit, calls>>

\* unpatch_kernels_hub: the origin is read, every module loaded by then gets back its own,
\* or the home module's if it was imported while the patch was in effect, and the home
\* module comes last.
ReadOrigin(t) ==
  /\ pc[t] = "unpatch"
  /\ saw' = [saw EXCEPT ![t] = origin["home"]]
  /\ Go(t, IF Patched THEN "restore" ELSE Resting(t))
  /\ UNCHANGED <<lib, scopes, explicit, calls>>
Own(m)      == m \in loaded /\ origin[m] # "none"
\* (Mutant: only the modules with an origin of their own are restored.)
RestoredOwn(t, m) == IF Own(m) THEN origin[m] ELSE api[m]
Restored(t, m) ==
  IF Own(m) THEN origin[m]
  ELSE IF m \in loaded /\ api[m] = api["home"] THEN saw[t] ELSE api[m]
Restore(t) ==
  /\ pc[t] = "restore"
  /\ api' = [m \in Modules |-> IF m = "home" THEN api[m] ELSE Restored(t, m)]
  /\ origin' = [m \in Modules |-> IF m # "home" /\ Own(m) THEN "none" ELSE origin[m]]
  /\ Go(t, "home")
  /\ UNCHANGED <<loaded, astray, locals>>
RestoreHome(t) ==
  /\ pc[t] = "home"
  /\ api' = [api EXCEPT !["home"] = saw[t]]
  /\ origin' = [origin EXCEPT !["home"] = "none"]
  /\ Go(t, Resting(t))
  /\ UNCHANGED <<loaded, astray, locals>>

\* The user applies or undoes the patch for good, outside of any call of the thread.
PatchForGood(t) ==
  /\ pc[t] = "idle" /\ ~explicit
  /\ explicit' = TRUE /\ Go(t, "patch")
  /\ UNCHANGED <<lib, scopes, saw, calls>>
Unpatch(t) ==
  /\ pc[t] = "idle" /\ explicit
  /\ explicit' = FALSE /\ Go(t, "unpatch")
  /\ UNCHANGED <<lib, scopes, saw, calls>>

Next ==
  \/ \E m \in Submodules : Import(m)
  \/ \E t \in Threads :
       \/ GetKernel(t) \/ InstallAll(t) \/ Scope(t) \/ Check(t) \/ Save(t) \/ Replace(t)
       \/ Sweep(t) \/ Leave(t) \/ ReadOrigin(t) \/ Restore(t) \/ RestoreHome(t)
       \/ PatchForGood(t) \/ Unpatch(t)

Spec == Init /\ [][Next]_vars

-----------------------------------------------------------------------------
(* Properties                                                               *)

Hubs == {"hf", "ms"}
TypeOK ==
  /\ loaded \subseteq Submodules
  /\ api \in [Modules -> Hubs] /\ origin \in [Modules -> Hubs \cup {"none"}]
  /\ pc \in [Threads -> {"idle", "scope", "patch", "save", "replace", "sweep", "call",
                         "unpatch", "restore", "home"}]
  /\ scopes \in [Threads -> Seq(BOOLEAN)] /\ saw \in [Threads -> Hubs \cup {"none"}]
  /\ explicit \in BOOLEAN /\ calls \in 0..MaxCalls
  /\ astray \subseteq loaded

\* Inside a call every module of the library asks ModelScope; once no call and no
\* request of the user's is left, every one asks the Hugging Face Hub again, those
\* included that were imported in between, and a patch the user asked for stays.  Only a
\* module that other code imports in the middle of a change is not promised its own again.
CallsAskModelScope ==
  \A t \in Threads : pc[t] = "call" => \A m \in loaded \cup {"home"} : api[m] = "ms"
Settled == \A t \in Threads : pc[t] = "idle"
Asks(m) == api[m] = IF explicit THEN "ms" ELSE "hf"
Elsewhere ==
  Settled => (Patched <=> explicit) /\ \A m \in (loaded \ astray) \cup {"home"} : Asks(m)
PatchIsScoped == CallsAskModelScope /\ Elsewhere

\* Observed to be false: a module that is imported while the patch is half applied or half
\* undone goes on asking ModelScope when no call is left (_patch.py 61-65, 84-96).
RestoredEverywhere == Settled => \A m \in loaded : Asks(m)
=============================================================================
