-------------------------- MODULE ClientPartsProofs --------------------------
(***************************************************************************)
(* Theorems about the parts of the client that ClientParts brings together: *)
(* for each an invariant of its own specification and what follows from it  *)
(* for the whole, for every value of the constants.  What a proof asks of   *)
(* its constants beyond the assumptions of ClientParts is its hypothesis.   *)
(***************************************************************************)
EXTENDS ClientParts, TLAPS, FiniteSetTheorems

-----------------------------------------------------------------------------
(* Credentials: processes that log in and out of one account.               *)

Accepts == creds_Full \cup creds_Scoped

CredsTypes ==
  /\ Creds!TypeOK
  /\ creds_before \in [creds_Procs -> [token : Creds!Values, out : BOOLEAN]]

\* Only what the site has accepted is stored.
CredsFiles == creds_cookies \in Accepts \cup {Creds!None} /\ creds_git \in Accepts \cup {Creds!None}

\* What a process may hold between logins, with a token and logged out or not: what it has
\* sent last through a client and in a jar.  In one that is logged out, a token is stored
\* only if the file stayed or somebody has logged in since.
Quiet(p, t, o) ==
  /\ o => /\ ~Creds!Given(t) /\ ~Creds!Given(creds_sent[p])
          /\ creds_cookies = Creds!None \/ p \in creds_again
          /\ Creds!Given(creds_jar[p]) => ~creds_over[p] /\ p \in creds_again
  /\ t = Creds!NoUse =>
       creds_over[p] /\ ~Creds!Given(creds_sent[p]) /\ ~Creds!Given(creds_jar[p])
  /\ {t, creds_sent[p], creds_jar[p]} \cap creds_Bad = {}

\* A login that fails returns to what it found, so that has to be kept of it throughout.
CredsProc(p) ==
  IF creds_pc[p] = "idle"
  THEN /\ Quiet(p, creds_token[p], creds_out[p])
       /\ creds_out[p] => creds_client[p] = "absent" \/ ~Creds!Given(creds_client[p])
  ELSE /\ Quiet(p, creds_before[p].token, creds_before[p].out)
       /\ creds_token[p] = creds_new[p] /\ ~creds_out[p]
       /\ creds_new[p] \in IF creds_pc[p] = "ask" THEN Creds!Tokens ELSE Accepts

CredsInv == CredsTypes /\ CredsFiles /\ \A p \in creds_Procs : CredsProc(p)

\* A step of one process.
CredsStep(p) ==
  \/ \E t \in Creds!Tokens : Creds!Login(p, t)
  \/ Creds!Request(p) \/ Creds!LegacyRequest(p) \/ Creds!CookieRequest(p) \/ Creds!Accepted(p)
  \/ Creds!Refused(p) \/ Creds!AskFails(p) \/ Creds!ScopedLogin(p) \/ Creds!SaveCookies(p) \/ Creds!SaveGit(p)
  \/ Creds!SaveToken(p) \/ Creds!SaveUser(p) \/ Creds!LoginFails(p) \/ Creds!Whoami(p)
  \/ Creds!Logout(p) \/ Creds!Restart(p)

\* What the proofs take of the sets of tokens.
LEMMA CredsSets ==
  /\ Creds!Tokens \subseteq Creds!Values /\ {Creds!None, Creds!NoUse} \subseteq Creds!Values
  /\ Creds!None \notin Creds!Tokens /\ Creds!NoUse \notin Creds!Tokens
  /\ Creds!None # Creds!NoUse
  /\ \A v : Creds!Given(v) <=> v # Creds!None /\ v # Creds!NoUse
  /\ Creds!Tokens = Accepts \cup creds_Bad /\ Accepts \cap creds_Bad = {}
  /\ creds_Full \subseteq Accepts /\ creds_Scoped \subseteq Accepts /\ creds_MaxLogins \in Nat
BY CredsOK DEF Creds!ConstantsOK, Creds!Tokens, Creds!None, Creds!NoUse, Creds!Given,
   Creds!Values, Accepts

LEMMA CredsInit == Creds!Init => CredsInv
<1>. SUFFICES ASSUME Creds!Init PROVE CredsInv
  OBVIOUS
<1>. USE CredsSets DEF Creds!Init
<1>1. Creds!Fresh \in [token : Creds!Values, out : BOOLEAN]
  BY DEF Creds!Fresh
<1>2. {creds_cookies, creds_git} \subseteq Creds!Values
  OBVIOUS
<1>3. creds_token \in [creds_Procs -> Creds!Values]
  BY <1>2
<1>4. CredsTypes
  BY <1>1, <1>2, <1>3 DEF CredsTypes, Creds!TypeOK
<1>5. CredsFiles
  BY DEF CredsFiles
<1>6. \A p \in creds_Procs : CredsProc(p)
  BY DEF CredsProc, Quiet
<1>. QED  BY <1>4, <1>5, <1>6 DEF CredsInv

\* A step keeps the types.
LEMMA CredsTypesKept ==
  ASSUME CredsInv, NEW p \in creds_Procs, CredsStep(p)
  PROVE  CredsTypes'
<1>. USE CredsSets DEF CredsInv, CredsTypes, CredsProc, Creds!TypeOK, Creds!files, Creds!memory,
   Creds!login, Creds!carried, Creds!Go
<1>1. ASSUME NEW t \in Creds!Tokens, Creds!Login(p, t) PROVE CredsTypes'
  BY <1>1 DEF Creds!Login, Creds!Synced
<1>2. CASE Creds!Request(p)
  BY <1>2 DEF Creds!Request, Creds!Resolve, Creds!LoadToken
<1>3. CASE Creds!LegacyRequest(p)
  BY <1>3 DEF Creds!LegacyRequest
<1>4. CASE creds_pc[p] = "ask" /\ Creds!Restore(p)
  BY <1>4 DEF Creds!Restore, Creds!Restored, Creds!Over, Creds!Fresh, Creds!Synced
<1>5. CASE Creds!Accepted(p)
  BY <1>5 DEF Creds!Accepted
<1>6. CASE Creds!ScopedLogin(p)
  BY <1>6 DEF Creds!ScopedLogin
<1>7. CASE Creds!SaveCookies(p)
  BY <1>7 DEF Creds!SaveCookies, Creds!StoresToken, Creds!Wrote
<1>8. CASE Creds!SaveGit(p)
  BY <1>8 DEF Creds!SaveGit, Creds!Wrote
<1>9. CASE Creds!SaveToken(p)
  BY <1>9 DEF Creds!SaveToken, Creds!StoresToken, Creds!Wrote
<1>10. CASE creds_pc[p] = "user" /\ Creds!SaveUser(p)
  BY <1>10 DEF Creds!SaveUser
<1>11. CASE creds_pc[p] \notin {"idle", "ask"} /\ Creds!Over(p) /\ UNCHANGED <<Creds!files,
   Creds!memory, Creds!carried, creds_again, creds_logins>>
  BY <1>11 DEF Creds!Over, Creds!Fresh
<1>12. CASE Creds!Whoami(p)
  BY <1>12 DEF Creds!Whoami, Creds!Resolve, Creds!Over, Creds!Fresh
<1>13. CASE Creds!Logout(p)
  BY <1>13 DEF Creds!Logout, Creds!Synced
<1>14. CASE Creds!Restart(p)
  BY <1>14 DEF Creds!Restart, Creds!Over, Creds!Fresh
<1>15. CASE Creds!CookieRequest(p)
  BY <1>15 DEF Creds!CookieRequest, Creds!Jar
<1>. QED  BY <1>1, <1>2, <1>3, <1>4, <1>5, <1>6, <1>7, <1>8, <1>9, <1>10, <1>11, <1>12, <1>13,
   <1>14, <1>15 DEF CredsStep, Creds!Refused, Creds!AskFails, Creds!SaveUser, Creds!LoginFails

\* A step stores only what the site has accepted.
LEMMA CredsFilesKept ==
  ASSUME CredsInv, NEW p \in creds_Procs, CredsStep(p)
  PROVE  CredsFiles'
<1>. USE CredsSets DEF CredsInv, CredsFiles, CredsProc, Creds!files, Creds!memory, Creds!login,
   Creds!carried, Creds!Go
<1>1. CASE Creds!SaveCookies(p)
  BY <1>1 DEF Creds!SaveCookies, Creds!StoresToken, Creds!Wrote
<1>2. CASE Creds!SaveGit(p)
  BY <1>2 DEF Creds!SaveGit, Creds!Wrote
<1>3. CASE Creds!SaveToken(p)
  BY <1>3 DEF Creds!SaveToken, Creds!StoresToken, Creds!Wrote
<1>4. CASE Creds!Logout(p)
  BY <1>4 DEF Creds!Logout, Creds!Synced
<1>5. CASE UNCHANGED Creds!files
  BY <1>5
<1>. QED  BY <1>1, <1>2, <1>3, <1>4, <1>5 DEF CredsStep, Creds!Refused, Creds!AskFails,
   Creds!SaveUser, Creds!LoginFails, Creds!Login, Creds!Request, Creds!LegacyRequest,
   Creds!CookieRequest, Creds!Restore, Creds!Accepted, Creds!ScopedLogin, Creds!Whoami, Creds!Restart

\* A step of a process keeps what is said of it.
LEMMA CredsProcKept ==
  ASSUME CredsInv, NEW p \in creds_Procs, CredsStep(p)
  PROVE  CredsProc(p)'
<1>. USE CredsSets DEF CredsInv, CredsTypes, CredsFiles, CredsProc, Quiet, Creds!TypeOK,
   Creds!files, Creds!memory, Creds!login, Creds!carried, Creds!Go
<1>1. ASSUME NEW t \in Creds!Tokens, Creds!Login(p, t) PROVE CredsProc(p)'
  BY <1>1 DEF Creds!Login, Creds!Synced
<1>2. CASE Creds!Request(p)
  BY <1>2 DEF Creds!Request, Creds!Resolve, Creds!LoadToken
<1>3. CASE Creds!LegacyRequest(p)
  BY <1>3 DEF Creds!LegacyRequest
<1>4. CASE creds_pc[p] = "ask" /\ Creds!Restore(p)
  BY <1>4 DEF Creds!Restore, Creds!Restored, Creds!Over, Creds!Fresh, Creds!Synced
<1>5. CASE Creds!Accepted(p)
  BY <1>5 DEF Creds!Accepted
<1>6. CASE Creds!ScopedLogin(p)
  BY <1>6 DEF Creds!ScopedLogin
<1>7. CASE Creds!SaveCookies(p)
  BY <1>7 DEF Creds!SaveCookies, Creds!StoresToken, Creds!Wrote
<1>8. CASE Creds!SaveGit(p)
  BY <1>8 DEF Creds!SaveGit, Creds!Wrote
<1>9. CASE Creds!SaveToken(p)
  BY <1>9 DEF Creds!SaveToken, Creds!StoresToken, Creds!Wrote
<1>10. CASE creds_pc[p] = "user" /\ Creds!SaveUser(p)
  BY <1>10 DEF Creds!SaveUser
<1>11. CASE creds_pc[p] \notin {"idle", "ask"} /\ Creds!Over(p) /\ UNCHANGED <<Creds!files,
   Creds!memory, Creds!carried, creds_again, creds_logins>>
  BY <1>11 DEF Creds!Over, Creds!Fresh
<1>12. CASE Creds!Whoami(p)
  BY <1>12 DEF Creds!Whoami, Creds!Resolve, Creds!Over, Creds!Fresh
<1>13. CASE Creds!Logout(p)
  BY <1>13 DEF Creds!Logout, Creds!Synced
<1>14. CASE Creds!Restart(p)
  BY <1>14 DEF Creds!Restart, Creds!Over, Creds!Fresh
<1>15. CASE Creds!CookieRequest(p)
  BY <1>15 DEF Creds!CookieRequest, Creds!Jar
<1>. QED  BY <1>1, <1>2, <1>3, <1>4, <1>5, <1>6, <1>7, <1>8, <1>9, <1>10, <1>11, <1>12, <1>13,
   <1>14, <1>15 DEF CredsStep, Creds!Refused, Creds!AskFails, Creds!SaveUser, Creds!LoginFails

\* And what is said of the others.
LEMMA CredsOtherKept ==
  ASSUME CredsInv, NEW p \in creds_Procs, NEW q \in creds_Procs \ {p}, CredsStep(p)
  PROVE  CredsProc(q)'
<1>. USE DEF CredsInv, CredsTypes, CredsProc, Quiet, Creds!TypeOK, Creds!files, Creds!memory,
   Creds!login, Creds!carried, Creds!Go
<1>1. ASSUME NEW t \in Creds!Tokens, Creds!Login(p, t) PROVE CredsProc(q)'
  BY <1>1 DEF Creds!Login, Creds!Synced
<1>2. CASE Creds!Request(p)
  BY <1>2 DEF Creds!Request, Creds!Resolve, Creds!LoadToken
<1>3. CASE Creds!LegacyRequest(p)
  BY <1>3 DEF Creds!LegacyRequest
<1>4. CASE creds_pc[p] = "ask" /\ Creds!Restore(p)
  BY <1>4 DEF Creds!Restore, Creds!Restored, Creds!Over, Creds!Fresh, Creds!Synced
<1>5. CASE Creds!Accepted(p)
  BY <1>5 DEF Creds!Accepted
<1>6. CASE Creds!ScopedLogin(p)
  BY <1>6 DEF Creds!ScopedLogin
<1>7. CASE Creds!SaveCookies(p)
  BY <1>7 DEF Creds!SaveCookies, Creds!StoresToken, Creds!Wrote
<1>8. CASE Creds!SaveGit(p)
  BY <1>8 DEF Creds!SaveGit, Creds!Wrote
<1>9. CASE Creds!SaveToken(p)
  BY <1>9 DEF Creds!SaveToken, Creds!StoresToken, Creds!Wrote
<1>10. CASE creds_pc[p] = "user" /\ Creds!SaveUser(p)
  BY <1>10 DEF Creds!SaveUser
<1>11. CASE creds_pc[p] \notin {"idle", "ask"} /\ Creds!Over(p) /\ UNCHANGED <<Creds!files,
   Creds!memory, Creds!carried, creds_again, creds_logins>>
  BY <1>11 DEF Creds!Over, Creds!Fresh
<1>12. CASE Creds!Whoami(p)
  BY <1>12 DEF Creds!Whoami, Creds!Resolve, Creds!Over, Creds!Fresh
<1>13. CASE Creds!Logout(p)
  BY <1>13 DEF Creds!Logout, Creds!Synced
<1>14. CASE Creds!Restart(p)
  BY <1>14 DEF Creds!Restart, Creds!Over, Creds!Fresh
<1>15. CASE Creds!CookieRequest(p)
  BY <1>15 DEF Creds!CookieRequest, Creds!Jar
<1>. QED  BY <1>1, <1>2, <1>3, <1>4, <1>5, <1>6, <1>7, <1>8, <1>9, <1>10, <1>11, <1>12, <1>13,
   <1>14, <1>15 DEF CredsStep, Creds!Refused, Creds!AskFails, Creds!SaveUser, Creds!LoginFails

\* For any number of processes that log in, fail, log out, restart and send requests: what
\* the stored files, the configuration and the cached client may hold.
THEOREM CredsHold == Creds!Spec => []CredsInv
<1>1. CredsInv /\ [Creds!Next]_Creds!vars => CredsInv'
  <2>. SUFFICES ASSUME CredsInv, [Creds!Next]_Creds!vars PROVE CredsInv'
    OBVIOUS
  <2>1. ASSUME NEW p \in creds_Procs, CredsStep(p) PROVE CredsInv'
    BY <2>1, CredsTypesKept, CredsFilesKept, CredsProcKept, CredsOtherKept DEF CredsInv
  <2>2. CASE UNCHANGED Creds!vars
    BY <2>2 DEF Creds!vars, Creds!files, Creds!memory, Creds!login, Creds!carried, CredsInv,
       CredsTypes, CredsFiles, CredsProc, Quiet, Creds!TypeOK
  <2>. QED  BY <2>1, <2>2 DEF Creds!Next, CredsStep
<1>. QED  BY <1>1, CredsInit, PTL DEF Creds!Spec

\* Credentials (config.py; login, logout and get_cookies of api.py): the clients of a process
\* that is logged out hold and send no token, and a cookie jar of it only one that the logout
\* could not remove or that was stored since; a process told to use no token sends none; and
\* a token that the site rejected is neither stored nor used.
THEOREM LoginSafe == PartsSpec => []LoginHolds
<1>1. PartsInit => Creds!Init
  BY DEF PartsInit
<1>2. [PartsNext]_allVars => [Creds!Next]_Creds!vars
  BY DEF PartsNext, allVars, credsVars, Creds!vars, Creds!files, Creds!memory, Creds!login,
     Creds!carried
<1>3. CredsInv => LoginHolds
  BY CredsSets DEF CredsInv, CredsTypes, CredsFiles, CredsProc, LoginHolds, Quiet,
     Creds!LoggedOutStaysOut, Creds!NoneSendsNone, Creds!RejectedIsForgotten
<1>. QED  BY <1>1, <1>2, <1>3, CredsHold, PTL DEF PartsSpec, Creds!Spec

-----------------------------------------------------------------------------
(* Repositories: one repository, the calls that make it and other people.    *)

\* A creation that is under way has made nothing, and asks the endpoint that knows the words.
RepoCreates ==
  (repo_goal = "create" /\ repo_pc # "idle") =>
    /\ repo_pc \in {"openapi", "legacy"} /\ ~repo_auto
    /\ repo_made = "no" /\ repo_result = "none" /\ ~Repo!Refused(repo_req)
    /\ repo_pc = "openapi" => ~Repo!NeedsLegacy(repo_req)

\* The second site is asked when the first has no such repository.
RepoReads ==
  /\ repo_where \in [Repo!Sites -> {"has", "hasold", "lacks", "denies", "down"}]
  /\ repo_pc = "second" => repo_where["first"] = "lacks"
  /\ repo_pc \in Repo!Sites => repo_goal = "read"

RepoInv == Repo!TypeOK /\ RepoCreates /\ RepoReads /\ Repo!MadeAsAsked /\ Repo!ExistsIsOthers
           /\ Repo!ReadFromFirst

LEMMA RepoBounds == repo_MaxCalls \in Nat /\ repo_MaxOthers \in Nat
BY RepoOK DEF Repo!ConstantsOK

\* What is asked of a call that asks nothing.
LEMMA RepoUnasked == Repo!Unasked \in Repo!Requests /\ Repo!Unasked.gated = "none"
BY DEF Repo!Unasked, Repo!Requests, Repo!Asked

LEMMA RepoInit == Repo!Init => RepoInv
<1>. SUFFICES ASSUME Repo!Init PROVE RepoInv
  OBVIOUS
<1>0. repo_MaxCalls \in Nat /\ repo_MaxOthers \in Nat /\ repo_site \in Repo!Seen \cup {"absent"}
  BY RepoOK DEF Repo!ConstantsOK, Repo!Init, Repo!Seen
<1>1. Repo!TypeOK
  <2>1. /\ repo_type \in repo_Types /\ repo_holds \in BOOLEAN /\ repo_publishes \in BOOLEAN
        /\ repo_req \in Repo!Requests /\ repo_auto \in BOOLEAN
    BY RepoUnasked DEF Repo!Init
  <2>. QED  BY <1>0, <2>1 DEF Repo!Init, Repo!TypeOK
<1>2. RepoCreates /\ RepoReads
  BY DEF Repo!Init, RepoCreates, RepoReads, Repo!Sites
<1>3. Repo!MadeAsAsked /\ Repo!ExistsIsOthers /\ Repo!ReadFromFirst
  BY DEF Repo!Init, Repo!MadeAsAsked, Repo!ExistsIsOthers, Repo!ReadFromFirst
<1>. QED  BY <1>1, <1>2, <1>3 DEF RepoInv

\* What either endpoint makes of a request is something to be seen.
LEMMA RepoWires ==
  ASSUME NEW r \in Repo!Requests
  PROVE  /\ Repo!OpenApiWire(r) \in Repo!Seen /\ Repo!LegacyWire(r) \in Repo!Seen
         /\ Repo!SettingsWire(r) \in Repo!Seen \cup {"default"}
BY DEF Repo!Requests, Repo!Asked, Repo!Seen, Repo!OpenApiWire, Repo!LegacyWire, Repo!SettingsWire

\* And, for a model or dataset, seen by no more people than were asked for.
LEMMA RepoWiresAsAsked ==
  ASSUME repo_req \in Repo!Requests, repo_type \in Repo!Fallback, ~Repo!Refused(repo_req)
  PROVE  /\ ~Repo!NeedsLegacy(repo_req) =>
              Repo!Reach(Repo!OpenApiWire(repo_req)) <= Repo!AskedReach
         /\ Repo!Reach(Repo!LegacyWire(repo_req)) <= Repo!AskedReach
BY DEF Repo!Requests, Repo!Asked, Repo!OpenApiWire, Repo!LegacyWire, Repo!AskedReach,
   Repo!Reach, Repo!NeedsLegacy, Repo!Refused, Repo!Fallback

\* A change of the settings keeps the types.
LEMMA RepoSettings ==
  ASSUME RepoInv, NEW r \in Repo!Requests, Repo!UpdateSettings(r)
  PROVE  Repo!TypeOK'
<1>1. /\ repo_site' \in Repo!Seen \cup {"absent"} /\ repo_calls' \in 0..repo_MaxCalls
      /\ repo_result' \in {"none", "ok", "exists", "failed"}
  BY RepoWires, RepoOK DEF RepoInv, Repo!TypeOK, Repo!UpdateSettings, Repo!ConstantsOK
<1>2. /\ repo_goal' = "settings" /\ repo_req' = r /\ repo_made' = "no"
      /\ UNCHANGED <<repo_type, repo_holds, repo_publishes, repo_pc, repo_auto, repo_found,
                     repo_others>>
  BY DEF Repo!UpdateSettings, Repo!world
<1>. QED  BY <1>1, <1>2 DEF RepoInv, Repo!TypeOK

\* And so does a deletion.
LEMMA RepoDeletes ==
  ASSUME RepoInv, Repo!DeleteRepo
  PROVE  Repo!TypeOK'
<1>1. /\ repo_site' \in Repo!Seen \cup {"absent"} /\ repo_holds' \in BOOLEAN
      /\ repo_result' \in {"none", "ok", "exists", "failed"}
  BY DEF RepoInv, Repo!TypeOK, Repo!DeleteRepo
<1>2. repo_calls' \in 0..repo_MaxCalls
  BY RepoBounds DEF RepoInv, Repo!TypeOK, Repo!DeleteRepo
<1>3. /\ repo_goal' = "delete" /\ repo_req' \in Repo!Requests /\ repo_made' = "no"
      /\ UNCHANGED <<repo_type, repo_publishes, repo_pc, repo_auto, repo_found, repo_others>>
  BY RepoUnasked DEF Repo!DeleteRepo, Repo!world
<1>. QED  BY <1>1, <1>2, <1>3 DEF RepoInv, Repo!TypeOK

LEMMA RepoNow ==
  ASSUME RepoInv
  PROVE  /\ Repo!Now \in Repo!Requests
         /\ Repo!OpenApiWire(Repo!Now) \in Repo!Seen /\ Repo!LegacyWire(Repo!Now) \in Repo!Seen
BY RepoUnasked, RepoWires DEF RepoInv, Repo!TypeOK, Repo!Now

\* What a creation leaves, by whichever endpoint.
LEMMA RepoGoesOn ==
  ASSUME repo_auto \in BOOLEAN, repo_result \in {"none", "ok", "exists", "failed"},
         NEW r \in {"ok", "exists", "failed"}, NEW says \in BOOLEAN, Repo!After(r, says)
  PROVE  /\ repo_pc' \in {"idle", "openapi", "commit"} /\ repo_auto' \in BOOLEAN
         /\ repo_result' \in {"none", "ok", "exists", "failed"}
BY DEF Repo!After, Repo!End

LEMMA RepoMakes ==
  ASSUME Repo!TypeOK, NEW v \in Repo!Seen,
         Repo!Make(v) \/ ((Repo!Untouched \/ Repo!Carried(v)) /\ Repo!Fails)
  PROVE  /\ repo_site' \in Repo!Seen \cup {"absent"} /\ repo_made' \in Repo!Seen \cup {"no"}
         /\ repo_pc' \in {"idle", "openapi", "commit"} /\ repo_auto' \in BOOLEAN
         /\ repo_result' \in {"none", "ok", "exists", "failed"}
<1>0. /\ repo_auto \in BOOLEAN /\ repo_result \in {"none", "ok", "exists", "failed"}
      /\ repo_site \in Repo!Seen \cup {"absent"} /\ repo_made \in Repo!Seen \cup {"no"}
  BY DEF Repo!TypeOK
<1>1. /\ repo_site' \in {repo_site, v} /\ repo_made' \in {repo_made, v}
      /\ \E r \in {"ok", "exists", "failed"}, says \in BOOLEAN : Repo!After(r, says)
  BY DEF Repo!Make, Repo!Untouched, Repo!Carried, Repo!Fails
<1>. QED  BY <1>0, <1>1, RepoGoesOn

\* A step keeps the types.
LEMMA RepoTypes ==
  ASSUME RepoInv, Repo!Next
  PROVE  Repo!TypeOK'
<1>a. ASSUME NEW r \in Repo!Requests, Repo!UpdateSettings(r) PROVE Repo!TypeOK'
  BY <1>a, RepoSettings
<1>b. CASE Repo!DeleteRepo
  BY <1>b, RepoDeletes
<1>. USE RepoBounds DEF RepoInv, Repo!TypeOK, Repo!world, Repo!Sites
<1>1. ASSUME NEW r \in Repo!Requests, NEW g \in {"create", "push"}, Repo!Begin(g, r) PROVE Repo!TypeOK'
  BY <1>1 DEF Repo!Begin
<1>2. CASE Repo!Upload
  BY <1>2, RepoUnasked DEF Repo!Upload, Repo!Begin
<1>3. CASE Repo!ViaOpenApi
  <2>1. UNCHANGED <<repo_type, repo_publishes, repo_where, repo_holds, repo_goal, repo_req,
                    repo_found, repo_calls, repo_others>>
    BY <1>3 DEF Repo!ViaOpenApi
  <2>2. /\ repo_site' \in Repo!Seen \cup {"absent"} /\ repo_made' \in Repo!Seen \cup {"no"}
        /\ repo_pc' \in {"idle", "openapi", "legacy", "commit"} /\ repo_auto' \in BOOLEAN
        /\ repo_result' \in {"none", "ok", "exists", "failed"}
    <3>1. \/ Repo!Make(Repo!OpenApiWire(Repo!Now))
          \/ (Repo!Untouched \/ Repo!Carried(Repo!OpenApiWire(Repo!Now))) /\ Repo!Fails
          \/ /\ Repo!Untouched \/ Repo!Carried(Repo!OpenApiWire(Repo!Now))
             /\ repo_pc' = "legacy" /\ UNCHANGED <<repo_auto, repo_result>>
      BY <1>3 DEF Repo!ViaOpenApi
    <3>2. CASE repo_pc' = "legacy" /\ UNCHANGED <<repo_auto, repo_result>> /\
               (Repo!Untouched \/ Repo!Carried(Repo!OpenApiWire(Repo!Now)))
      BY <3>2, RepoNow DEF Repo!Untouched, Repo!Carried
    <3>. QED  BY <3>1, <3>2, RepoNow, RepoMakes
  <2>. QED  BY <2>1, <2>2
<1>4. CASE Repo!ViaLegacy
  <2>1. UNCHANGED <<repo_type, repo_publishes, repo_where, repo_holds, repo_goal, repo_req,
                    repo_found, repo_calls, repo_others>>
    BY <1>4 DEF Repo!ViaLegacy
  <2>2. /\ repo_site' \in Repo!Seen \cup {"absent"} /\ repo_made' \in Repo!Seen \cup {"no"}
        /\ repo_pc' \in {"idle", "openapi", "commit"} /\ repo_auto' \in BOOLEAN
        /\ repo_result' \in {"none", "ok", "exists", "failed"}
    <3>1. \/ Repo!Make(Repo!LegacyWire(Repo!Now))
          \/ (Repo!Untouched \/ Repo!Carried(Repo!LegacyWire(Repo!Now))) /\ Repo!Fails
      BY <1>4 DEF Repo!ViaLegacy
    <3>. QED  BY <3>1, RepoNow, RepoMakes
  <2>. QED  BY <2>1, <2>2
<1>5. CASE Repo!Commit
  BY <1>5 DEF Repo!Commit, Repo!End
<1>8. CASE Repo!Other
  BY <1>8 DEF Repo!Other, Repo!Seen
<1>9. CASE Repo!ResolveEndpoint
  BY <1>9, RepoUnasked DEF Repo!ResolveEndpoint
<1>10. CASE Repo!Ask("first", "second")
  BY <1>10 DEF Repo!Ask
<1>11. CASE Repo!Ask("second", "idle")
  BY <1>11 DEF Repo!Ask
<1>12. CASE Repo!Rest
  BY <1>12 DEF Repo!Rest, Repo!vars
<1>. QED  BY <1>1, <1>2, <1>3, <1>4, <1>5, <1>a, <1>b, <1>8, <1>9, <1>10, <1>11, <1>12 DEF
   Repo!Next, Repo!CreateRepo, Repo!PushModel

LEMMA RepoCreatesKept ==
  ASSUME RepoInv, Repo!Next
  PROVE  RepoCreates'
<1>. USE DEF RepoInv, RepoCreates, Repo!TypeOK, RepoReads, Repo!world, Repo!Refused,
   Repo!NeedsLegacy, Repo!Now, Repo!Fallback, Repo!Sites
<1>1. ASSUME NEW r \in Repo!Requests, NEW g \in {"create", "push"}, Repo!Begin(g, r) PROVE RepoCreates'
  BY <1>1 DEF Repo!Begin
<1>2. CASE Repo!Upload
  BY <1>2 DEF Repo!Upload, Repo!Begin
<1>3. CASE Repo!ViaOpenApi
  BY <1>3 DEF Repo!ViaOpenApi, Repo!Make, Repo!Carried, Repo!Untouched, Repo!Fails, Repo!After,
     Repo!End, Repo!FallsBack
<1>4. CASE Repo!ViaLegacy
  BY <1>4 DEF Repo!ViaLegacy, Repo!Make, Repo!Carried, Repo!Untouched, Repo!Fails, Repo!After,
     Repo!End
<1>5. CASE Repo!Commit
  BY <1>5 DEF Repo!Commit, Repo!End
<1>6. ASSUME NEW r \in Repo!Requests, Repo!UpdateSettings(r) PROVE RepoCreates'
  BY <1>6 DEF Repo!UpdateSettings
<1>7. CASE Repo!DeleteRepo
  BY <1>7 DEF Repo!DeleteRepo
<1>8. CASE Repo!Other
  BY <1>8 DEF Repo!Other, Repo!Seen
<1>9. CASE Repo!ResolveEndpoint
  BY <1>9 DEF Repo!ResolveEndpoint
<1>10. CASE Repo!Ask("first", "second")
  BY <1>10 DEF Repo!Ask
<1>11. CASE Repo!Ask("second", "idle")
  BY <1>11 DEF Repo!Ask
<1>12. CASE Repo!Rest
  BY <1>12 DEF Repo!Rest, Repo!vars
<1>. QED  BY <1>1, <1>2, <1>3, <1>4, <1>5, <1>6, <1>7, <1>8, <1>9, <1>10, <1>11, <1>12 DEF
   Repo!Next, Repo!CreateRepo, Repo!PushModel

LEMMA RepoReadsKept ==
  ASSUME RepoInv, Repo!Next
  PROVE  (RepoReads /\ Repo!ReadFromFirst)'
<1>. USE DEF RepoInv, RepoReads, Repo!TypeOK, Repo!ReadFromFirst, Repo!Has, Repo!Absent,
   Repo!world, Repo!Sites
<1>1. ASSUME NEW r \in Repo!Requests, NEW g \in {"create", "push"}, Repo!Begin(g, r) PROVE (RepoReads /\ Repo!ReadFromFirst)'
  BY <1>1 DEF Repo!Begin
<1>2. CASE Repo!Upload
  BY <1>2 DEF Repo!Upload, Repo!Begin
<1>3. CASE Repo!ViaOpenApi
  BY <1>3 DEF Repo!ViaOpenApi, Repo!Make, Repo!Carried, Repo!Untouched, Repo!Fails, Repo!After,
     Repo!End
<1>4. CASE Repo!ViaLegacy
  BY <1>4 DEF Repo!ViaLegacy, Repo!Make, Repo!Carried, Repo!Untouched, Repo!Fails, Repo!After,
     Repo!End
<1>5. CASE Repo!Commit
  BY <1>5 DEF Repo!Commit, Repo!End
<1>6. ASSUME NEW r \in Repo!Requests, Repo!UpdateSettings(r) PROVE (RepoReads /\ Repo!ReadFromFirst)'
  BY <1>6 DEF Repo!UpdateSettings
<1>7. CASE Repo!DeleteRepo
  BY <1>7 DEF Repo!DeleteRepo
<1>8. CASE Repo!Other
  BY <1>8 DEF Repo!Other, Repo!Seen
<1>9. CASE Repo!ResolveEndpoint
  BY <1>9 DEF Repo!ResolveEndpoint
<1>10. CASE Repo!Ask("first", "second")
  BY <1>10 DEF Repo!Ask
<1>11. CASE Repo!Ask("second", "idle")
  BY <1>11 DEF Repo!Ask
<1>12. CASE Repo!Rest
  BY <1>12 DEF Repo!Rest, Repo!vars
<1>. QED  BY <1>1, <1>2, <1>3, <1>4, <1>5, <1>6, <1>7, <1>8, <1>9, <1>10, <1>11, <1>12 DEF
   Repo!Next, Repo!CreateRepo, Repo!PushModel

LEMMA RepoMadeKept ==
  ASSUME RepoInv, Repo!Next
  PROVE  (Repo!MadeAsAsked /\ Repo!ExistsIsOthers)'
<1>. USE DEF RepoInv, RepoCreates, RepoReads, Repo!TypeOK, Repo!MadeAsAsked,
   Repo!ExistsIsOthers, Repo!AskedReach, Repo!world, Repo!Sites
<1>1. ASSUME NEW r \in Repo!Requests, NEW g \in {"create", "push"}, Repo!Begin(g, r) PROVE (Repo!MadeAsAsked /\ Repo!ExistsIsOthers)'
  BY <1>1 DEF Repo!Begin
<1>2. CASE Repo!Upload
  BY <1>2 DEF Repo!Upload, Repo!Begin
<1>3. CASE Repo!ViaOpenApi
  BY <1>3, RepoWiresAsAsked DEF Repo!ViaOpenApi, Repo!Make, Repo!Carried, Repo!Untouched,
     Repo!Fails, Repo!After, Repo!End, Repo!Now
<1>4. CASE Repo!ViaLegacy
  BY <1>4, RepoWiresAsAsked DEF Repo!ViaLegacy, Repo!Make, Repo!Carried, Repo!Untouched,
     Repo!Fails, Repo!After, Repo!End, Repo!Now
<1>5. CASE Repo!Commit
  BY <1>5 DEF Repo!Commit, Repo!End
<1>6. ASSUME NEW r \in Repo!Requests, Repo!UpdateSettings(r) PROVE (Repo!MadeAsAsked /\ Repo!ExistsIsOthers)'
  BY <1>6 DEF Repo!UpdateSettings
<1>7. CASE Repo!DeleteRepo
  BY <1>7 DEF Repo!DeleteRepo
<1>8. CASE Repo!Other
  BY <1>8 DEF Repo!Other, Repo!Seen
<1>9. CASE Repo!ResolveEndpoint
  BY <1>9 DEF Repo!ResolveEndpoint
<1>10. CASE Repo!Ask("first", "second")
  BY <1>10 DEF Repo!Ask
<1>11. CASE Repo!Ask("second", "idle")
  BY <1>11 DEF Repo!Ask
<1>12. CASE Repo!Rest
  BY <1>12 DEF Repo!Rest, Repo!vars
<1>. QED  BY <1>1, <1>2, <1>3, <1>4, <1>5, <1>6, <1>7, <1>8, <1>9, <1>10, <1>11, <1>12 DEF
   Repo!Next, Repo!CreateRepo, Repo!PushModel

\* For any number of calls and other people: which endpoint a creation asks and what it may have
\* made, what another may have made meanwhile, and from which sites a reader was turned away.
THEOREM RepoHolds == Repo!Spec => []RepoInv
<1>1. RepoInv /\ [Repo!Next]_Repo!vars => RepoInv'
  <2>. SUFFICES ASSUME RepoInv, [Repo!Next]_Repo!vars PROVE RepoInv'
    OBVIOUS
  <2>1. CASE Repo!Next
    BY <2>1, RepoTypes, RepoCreatesKept, RepoReadsKept, RepoMadeKept DEF RepoInv
  <2>2. CASE UNCHANGED Repo!vars
    BY <2>2 DEF Repo!vars, Repo!world, RepoInv, Repo!TypeOK, RepoCreates, RepoReads,
       Repo!MadeAsAsked, Repo!ExistsIsOthers, Repo!ReadFromFirst, Repo!Refused,
       Repo!NeedsLegacy, Repo!AskedReach, Repo!Has
  <2>. QED  BY <2>1, <2>2
<1>. QED  BY <1>1, RepoInit, PTL DEF Repo!Spec

\* Repositories (api.py): a model or dataset is never made more visible than was asked, over
\* whichever endpoint; "exists" is said of what was there before; and a reader is turned to
\* the second site only by the first one's "not found".
THEOREM RepositoriesSafe == PartsSpec => []RepositoriesHold
<1>1. PartsInit => Repo!Init
  BY DEF PartsInit
<1>2. [PartsNext]_allVars => [Repo!Next]_Repo!vars
  BY DEF PartsNext, allVars, repoVars, Repo!vars, Repo!world
<1>3. RepoInv => RepositoriesHold
  BY DEF RepoInv, RepositoriesHold
<1>. QED  BY <1>1, <1>2, <1>3, RepoHolds, PTL DEF PartsSpec, Repo!Spec

-----------------------------------------------------------------------------
(* Datasets of the old class: one name, and its numbers on every site.       *)

\* A number that is in use has been the dataset's; the one that is remembered for the own
\* site is of that site, and so is the one that a call about it found.
DataNumbers ==
  /\ \A s \in data_Sites : data_id[s] # 0 => data_id[s] \in data_named[s]
  /\ data_cache[data_Home] # 0 => data_cache[data_Home] \in data_named[data_Home]
  /\ (data_pc = "tree" /\ data_asked \in {Data!None, data_Home}) =>
       data_number \in data_named[data_Home]

DataInv == Data!TypeOK /\ DataNumbers /\ Data!ListedIsNamed

LEMMA DataBounds ==
  /\ data_Home \in data_Sites /\ Data!None \notin data_Sites
  /\ data_MaxCalls \in Nat /\ data_MaxIds \in Nat /\ data_MaxIds >= 2
BY DataOK DEF Data!ConstantsOK

\* Whatever a call was given, it reaches a site; without the name of another one, its own.
LEMMA DataReached ==
  ASSUME Data!TypeOK
  PROVE  /\ Data!Reached \in data_Sites /\ Data!Key \in data_Sites
         /\ data_asked \in {Data!None, data_Home} =>
              Data!Reached = data_Home /\ Data!Key = data_Home
         /\ Data!Key = data_Home => Data!Reached = data_Home
BY DataBounds DEF Data!TypeOK, Data!Reached, Data!Key

LEMMA DataInit == Data!Init => DataInv
<1>. SUFFICES ASSUME Data!Init PROVE DataInv
  OBVIOUS
<1>1. Data!Nothing \in Data!Acts
  BY DataBounds DEF Data!Nothing, Data!Acts, Data!None
<1>2. Data!TypeOK
  <2>1. /\ data_id \in [data_Sites -> 0..data_MaxIds]
        /\ data_named \in [data_Sites -> SUBSET (1..data_MaxIds)]
        /\ data_cache \in [data_Sites -> 0..data_MaxIds]
    BY DataBounds DEF Data!Init
  <2>2. data_local \in [site : data_Sites \cup {Data!None}, number : 0..data_MaxIds,
                       whole : BOOLEAN]
    BY DataBounds DEF Data!Init, Data!NoFile
  <2>3. /\ data_number \in 0..data_MaxIds /\ data_calls \in 0..data_MaxCalls
        /\ data_asked \in data_Sites \cup {Data!None}
    BY DataBounds DEF Data!Init
  <2>. QED  BY <1>1, <2>1, <2>2, <2>3 DEF Data!Init, Data!TypeOK
<1>3. DataNumbers /\ Data!ListedIsNamed
  BY DataBounds DEF Data!Init, DataNumbers, Data!ListedIsNamed, Data!Nothing, Data!None
<1>. QED  BY <1>2, <1>3 DEF DataInv

\* A step keeps the types.
LEMMA DataTypes ==
  ASSUME DataInv, Data!Next
  PROVE  Data!TypeOK'
<1>. USE DataBounds, DataReached DEF DataInv, Data!TypeOK, Data!call
<1>1. ASSUME NEW p \in {"id", "meta", "read", "create", "delete"}, NEW e \in data_Sites \cup
   {Data!None}, NEW t \in BOOLEAN, Data!Begin(p, e, t) PROVE Data!TypeOK'
  BY <1>1 DEF Data!Begin, Data!Acts, Data!Nothing
<1>2. CASE Data!Lookup
  BY <1>2 DEF Data!Lookup, Data!Done, Data!Fail, Data!Acts, Data!Nothing
<1>3. CASE Data!Tree
  BY <1>3 DEF Data!Tree, Data!Done, Data!Fail, Data!Acts, Data!Nothing
<1>4. CASE Data!MetaFile
  <2>0. data_local' = data_local \/ \E b \in BOOLEAN :
          data_local' = [site |-> Data!Reached, number |-> data_id[Data!Reached], whole |-> b]
    BY <1>4 DEF Data!MetaFile
  <2>1. data_local' \in [site : data_Sites \cup {Data!None}, number : 0..data_MaxIds,
                        whole : BOOLEAN]
    BY <2>0
  <2>2. data_did' \in Data!Acts /\ data_pc' = "idle"
    BY <1>4 DEF Data!MetaFile, Data!Done, Data!Fail, Data!Acts
  <2>. QED  BY <1>4, <2>1, <2>2 DEF Data!MetaFile
<1>5. CASE Data!Read
  BY <1>5 DEF Data!Read, Data!Done, Data!Fail, Data!Acts, Data!Nothing
<1>6. CASE Data!Create
  BY <1>6 DEF Data!Create, Data!MakeAt, Data!Fresh, Data!Done, Data!Fail, Data!Acts,
     Data!Nothing
<1>7. CASE Data!Delete
  BY <1>7 DEF Data!Delete, Data!Done, Data!Fail, Data!Acts, Data!Nothing
<1>8. CASE Data!Others
  BY <1>8 DEF Data!Others, Data!MakeAt, Data!Fresh, Data!Acts, Data!Nothing
<1>9. CASE UNCHANGED Data!vars
  BY <1>9 DEF Data!vars
<1>. QED  BY <1>1, <1>2, <1>3, <1>4, <1>5, <1>6, <1>7, <1>8, <1>9 DEF Data!Next

\* And what is said of the numbers: a number that was the dataset's is never forgotten.
LEMMA DataNumbersKept ==
  ASSUME DataInv, Data!Next
  PROVE  DataNumbers'
<1>. USE DataBounds, DataReached DEF DataInv, DataNumbers, Data!TypeOK, Data!call
<1>1. ASSUME NEW p \in {"id", "meta", "read", "create", "delete"}, NEW e \in data_Sites \cup
   {Data!None}, NEW t \in BOOLEAN, Data!Begin(p, e, t) PROVE DataNumbers'
  BY <1>1 DEF Data!Begin
<1>2. CASE Data!Lookup
  BY <1>2 DEF Data!Lookup, Data!Done, Data!Fail
<1>3. CASE Data!Tree
  BY <1>3 DEF Data!Tree, Data!Done, Data!Fail
<1>4. CASE Data!MetaFile
  BY <1>4 DEF Data!MetaFile, Data!Done, Data!Fail
<1>5. CASE Data!Read
  BY <1>5 DEF Data!Read, Data!Done, Data!Fail
<1>6. CASE Data!Create
  BY <1>6 DEF Data!Create, Data!MakeAt, Data!Fresh, Data!Done, Data!Fail
<1>7. CASE Data!Delete
  BY <1>7 DEF Data!Delete, Data!Done, Data!Fail
<1>8. CASE Data!Others
  BY <1>8 DEF Data!Others, Data!MakeAt, Data!Fresh
<1>9. CASE UNCHANGED Data!vars
  BY <1>9 DEF Data!vars
<1>. QED  BY <1>1, <1>2, <1>3, <1>4, <1>5, <1>6, <1>7, <1>8, <1>9 DEF Data!Next

LEMMA DataListedKept ==
  ASSUME DataInv, Data!Next
  PROVE  Data!ListedIsNamed'
<1>. USE DataBounds, DataReached DEF DataInv, DataNumbers, Data!ListedIsNamed, Data!TypeOK,
   Data!call
<1>1. ASSUME NEW p \in {"id", "meta", "read", "create", "delete"}, NEW e \in data_Sites \cup
   {Data!None}, NEW t \in BOOLEAN, Data!Begin(p, e, t) PROVE Data!ListedIsNamed'
  BY <1>1 DEF Data!Begin, Data!Nothing, Data!None, Data!Reached
<1>2. CASE Data!Lookup
  BY <1>2 DEF Data!Lookup, Data!Done, Data!Fail, Data!Nothing, Data!None, Data!Reached
<1>3. CASE Data!Tree
  BY <1>3 DEF Data!Tree, Data!Done, Data!Fail, Data!Nothing, Data!None, Data!Reached
<1>4. CASE Data!MetaFile
  BY <1>4 DEF Data!MetaFile, Data!Done, Data!Fail, Data!Nothing, Data!None, Data!Reached
<1>5. CASE Data!Read
  BY <1>5 DEF Data!Read, Data!Done, Data!Fail, Data!Nothing, Data!None, Data!Reached
<1>6. CASE Data!Create
  BY <1>6 DEF Data!Create, Data!MakeAt, Data!Fresh, Data!Done, Data!Fail, Data!Nothing,
     Data!None, Data!Reached
<1>7. CASE Data!Delete
  BY <1>7 DEF Data!Delete, Data!Done, Data!Fail, Data!Nothing, Data!None, Data!Reached
<1>8. CASE Data!Others
  <2>1. \A s \in data_Sites : data_named[s] \subseteq data_named'[s]
    BY <1>8 DEF Data!Others, Data!MakeAt, Data!Fresh
  <2>2. UNCHANGED <<data_did, data_asked>> /\ data_did.site \in data_Sites
    BY <1>8 DEF Data!Others, Data!Acts
  <2>. QED  BY <2>1, <2>2
<1>9. CASE UNCHANGED Data!vars
  BY <1>9 DEF Data!vars
<1>. QED  BY <1>1, <1>2, <1>3, <1>4, <1>5, <1>6, <1>7, <1>8, <1>9 DEF Data!Next

\* For any sites: a call about the own site lists the files of the dataset that it names.
THEOREM DataHolds == Data!Spec => []DataInv
<1>1. DataInv /\ [Data!Next]_Data!vars => DataInv'
  <2>. SUFFICES ASSUME DataInv, [Data!Next]_Data!vars PROVE DataInv'
    OBVIOUS
  <2>1. CASE Data!Next
    BY <2>1, DataTypes, DataNumbersKept, DataListedKept DEF DataInv
  <2>2. CASE UNCHANGED Data!vars
    BY <2>2 DEF Data!vars, DataInv, Data!TypeOK, DataNumbers, Data!ListedIsNamed
  <2>. QED  BY <2>1, <2>2
<1>. QED  BY <1>1, DataInit, PTL DEF Data!Spec

-----------------------------------------------------------------------------
(* Versions of an AIGC model, made by one caller: the site takes the README  *)
(* of a version from master, where another caller may have put its own.      *)

OneCaller == \A c, d \in aigc_Callers : c = d

\* The steps of a call before its request for a version.
Sending == {"preupload", "model", "weights", "readme"}

\* Calls are numbered in their order, and a request for a version is of a call for one.
AigcCaller(c) ==
  /\ aigc_call[c].nr <= aigc_calls
  /\ aigc_call[c].kind = "tag" => aigc_call[c].nr >= 1 /\ aigc_call[c].tag \in aigc_Tags
  /\ aigc_pc[c] \in {"tag", "poll"} => aigc_call[c].kind = "tag"
  /\ aigc_pc[c] \in Sending =>
       aigc_call[c].kind \in {"create", "tag"} /\ aigc_call[c].w \in aigc_Weights
  /\ aigc_result[c] = "ok" => aigc_pc[c] = "idle"

AigcNumbers ==
  /\ \A t \in aigc_Tags : aigc_tags[t].by <= aigc_calls
  /\ \A q \in aigc_late :
       q.kind = "tag" /\ q.tag \in aigc_Tags /\ q.nr >= 1 /\ q.nr <= aigc_calls
  /\ \A c \in aigc_Callers : AigcCaller(c)

\* A request that may still be carried out is of an earlier call, or the one of this call,
\* whose README master has by then.
AigcLate ==
  \A c \in aigc_Callers :
    /\ \A q \in aigc_late : q.nr = aigc_call[c].nr =>
         q = aigc_call[c] /\ aigc_pc[c] \notin Sending
    /\ (\/ aigc_pc[c] \in {"tag", "poll"}
        \/ \E q \in aigc_late : q.nr = aigc_call[c].nr) =>
         aigc_call[c].readme \in {Aigc!None, aigc_master.readme}

\* The versions that a call has made are as it was given.
AigcMade ==
  \A c \in aigc_Callers, t \in aigc_Tags :
    (aigc_call[c].kind = "tag" /\ aigc_tags[t].by = aigc_call[c].nr) =>
      /\ aigc_tags[t].w = aigc_call[c].w
      /\ aigc_call[c].readme \in {Aigc!None, aigc_tags[t].readme}

\* A call for a version that returns left one.
AigcLeft ==
  \A c \in aigc_Callers :
    (aigc_result[c] = "ok" /\ aigc_call[c].kind = "tag") =>
      aigc_tags[aigc_call[c].tag] # Aigc!NoVersion

AigcInv == Aigc!TypeOK /\ AigcNumbers /\ AigcLate /\ AigcMade /\ AigcLeft

LEMMA AigcBounds ==
  /\ Aigc!None \notin aigc_Tags \cup aigc_Weights \cup aigc_Readmes /\ aigc_MaxCalls \in Nat
  /\ Aigc!NoVersion \in Aigc!Versions /\ Aigc!NoVersion.by = 0
  /\ Aigc!NoCall \in Aigc!Calls /\ Aigc!NoCall.nr = 0 /\ Aigc!NoCall.kind = Aigc!None
  /\ Aigc!None \notin {"create", "tag", "plain", "ok", "failed"}
BY AigcOK DEF Aigc!ConstantsOK, Aigc!NoVersion, Aigc!Versions, Aigc!NoCall, Aigc!Calls, Aigc!None

LEMMA AigcInit == Aigc!Init => AigcInv
<1>. SUFFICES ASSUME Aigc!Init PROVE AigcInv
  OBVIOUS
<1>1. [w |-> Aigc!None, readme |-> Aigc!None] \in
        [w : aigc_Weights \cup {Aigc!None}, readme : aigc_Readmes \cup {Aigc!None}]
  OBVIOUS
<1>2. Aigc!TypeOK
  <2>0. aigc_exists \in BOOLEAN
    BY Zenon DEF Aigc!Init
  <2>1. /\ aigc_blobs \subseteq aigc_Weights
        /\ aigc_calls \in 0..aigc_MaxCalls /\ aigc_late \subseteq Aigc!Calls
    BY AigcBounds DEF Aigc!Init
  <2>2. aigc_tags \in [aigc_Tags -> Aigc!Versions] /\ aigc_call \in [aigc_Callers -> Aigc!Calls]
    BY AigcBounds DEF Aigc!Init
  <2>. QED  BY <1>1, <2>0, <2>1, <2>2 DEF Aigc!Init, Aigc!TypeOK, Aigc!Polls
<1>3. AigcNumbers /\ AigcLate /\ AigcMade /\ AigcLeft
  BY AigcBounds DEF Aigc!Init, AigcNumbers, AigcCaller, AigcLate, AigcMade,
     AigcLeft, Sending
<1>. QED  BY <1>2, <1>3 DEF AigcInv

\* The call that begins.
LEMMA AigcNewCall ==
  ASSUME Aigc!TypeOK, aigc_calls < aigc_MaxCalls, NEW k \in {"create", "tag"},
         NEW t \in aigc_Tags \cup {Aigc!None}, NEW w \in aigc_Weights,
         NEW r \in aigc_Readmes \cup {Aigc!None}
  PROVE  [kind |-> k, tag |-> t, w |-> w, readme |-> r, nr |-> aigc_calls + 1] \in Aigc!Calls
BY AigcBounds DEF Aigc!TypeOK, Aigc!Calls

\* A version that is taken of master alone.
LEMMA AigcPlain ==
  ASSUME Aigc!TypeOK, NEW c \in aigc_Callers, Aigc!TagPlain(c)
  PROVE  /\ aigc_pc[c] = "idle" /\ aigc_calls' = aigc_calls + 1 /\ aigc_calls' \in 0..aigc_MaxCalls
         /\ UNCHANGED <<aigc_exists, aigc_blobs, aigc_master, aigc_late, aigc_pc, aigc_polls>>
         /\ \E t \in aigc_Tags, q \in Aigc!Calls, v \in Aigc!Versions :
              /\ q.kind = "plain" /\ q.nr = aigc_calls + 1 /\ v.by = aigc_calls + 1
              /\ aigc_call' = [aigc_call EXCEPT ![c] = q]
              /\ \/ /\ aigc_tags[t] = Aigc!NoVersion /\ aigc_tags' = [aigc_tags EXCEPT ![t] = v]
                    /\ aigc_result' = [aigc_result EXCEPT ![c] = "ok"]
                 \/ UNCHANGED aigc_tags /\ aigc_result' = [aigc_result EXCEPT ![c] = "failed"]
<1>1. /\ aigc_pc[c] = "idle" /\ aigc_calls' = aigc_calls + 1 /\ aigc_calls' \in 0..aigc_MaxCalls
      /\ UNCHANGED <<aigc_exists, aigc_blobs, aigc_master, aigc_late, aigc_pc, aigc_polls>>
  BY AigcBounds DEF Aigc!TagPlain, Aigc!TypeOK
<1>2. PICK t \in aigc_Tags :
        /\ aigc_call' = [aigc_call EXCEPT ![c] =
             [Aigc!NoCall EXCEPT !.kind = "plain", !.tag = t, !.nr = aigc_calls + 1]]
        /\ \/ /\ aigc_exists /\ aigc_tags[t] = Aigc!NoVersion
              /\ aigc_tags' = [aigc_tags EXCEPT ![t] = [w |-> aigc_master.w,
                                readme |-> aigc_master.readme, by |-> aigc_calls + 1]]
              /\ aigc_result' = [aigc_result EXCEPT ![c] = "ok"]
           \/ UNCHANGED aigc_tags /\ aigc_result' = [aigc_result EXCEPT ![c] = "failed"]
  BY DEF Aigc!TagPlain
<1>. DEFINE q == [Aigc!NoCall EXCEPT !.kind = "plain", !.tag = t, !.nr = aigc_calls + 1]
            v == [w |-> aigc_master.w, readme |-> aigc_master.readme, by |-> aigc_calls + 1]
<1>3. q \in Aigc!Calls /\ q.kind = "plain" /\ q.nr = aigc_calls + 1
  BY <1>1, AigcBounds DEF Aigc!NoCall, Aigc!Calls
<1>4. v \in Aigc!Versions /\ v.by = aigc_calls + 1
  BY <1>1 DEF Aigc!TypeOK, Aigc!Versions
<1>. HIDE DEF q, v
<1>5. aigc_call' = [aigc_call EXCEPT ![c] = q]
  BY <1>2 DEF q
<1>6. \/ /\ aigc_tags[t] = Aigc!NoVersion /\ aigc_tags' = [aigc_tags EXCEPT ![t] = v]
         /\ aigc_result' = [aigc_result EXCEPT ![c] = "ok"]
      \/ UNCHANGED aigc_tags /\ aigc_result' = [aigc_result EXCEPT ![c] = "failed"]
  BY <1>2 DEF v
<1>. QED  BY <1>1, <1>3, <1>4, <1>5, <1>6

\* What becomes of a request for the model, which says nothing of versions.
LEMMA AigcModel ==
  ASSUME NEW c \in aigc_Callers, Aigc!CreateModel(c), aigc_exists \in BOOLEAN
  PROVE  /\ aigc_pc[c] = "model" /\ aigc_exists' \in BOOLEAN
         /\ UNCHANGED <<aigc_blobs, aigc_master, aigc_tags, aigc_late, aigc_call, aigc_polls,
                        aigc_calls>>
         /\ \/ Aigc!Go(c, "weights") /\ UNCHANGED aigc_result
            \/ Aigc!End(c, "failed")
<1>1. aigc_exists' \in {aigc_exists, TRUE}
  BY Zenon DEF Aigc!CreateModel
<1>. QED  BY <1>1, Zenon DEF Aigc!CreateModel, Aigc!Raise

\* What master holds stays weights and a README.
LEMMA AigcMaster ==
  ASSUME Aigc!TypeOK, NEW c \in aigc_Callers
  PROVE  /\ [aigc_master EXCEPT !.w = aigc_call[c].w] \in [w : aigc_Weights \cup {Aigc!None}, readme : aigc_Readmes \cup {Aigc!None}]
         /\ [aigc_master EXCEPT !.w = aigc_call[c].w].readme = aigc_master.readme
         /\ Aigc!ReadmeOf(c) \in [w : aigc_Weights \cup {Aigc!None}, readme : aigc_Readmes \cup {Aigc!None}]
         /\ aigc_call[c].readme \in {Aigc!None, Aigc!ReadmeOf(c).readme}
BY DEF Aigc!TypeOK, Aigc!Calls, Aigc!ReadmeOf

\* What becomes of the README.
LEMMA AigcReadme ==
  ASSUME Aigc!TypeOK, NEW c \in aigc_Callers, Aigc!UploadReadme(c)
  PROVE  /\ aigc_pc[c] = "readme"
         /\ UNCHANGED <<aigc_exists, aigc_blobs, aigc_tags, aigc_late, aigc_call, aigc_polls,
                        aigc_calls>>
         /\ aigc_master' \in [w : aigc_Weights \cup {Aigc!None},
                           readme : aigc_Readmes \cup {Aigc!None}]
         /\ \/ aigc_call[c].kind = "create" /\ Aigc!End(c, "ok")
            \/ /\ aigc_call[c].kind # "create" /\ Aigc!Go(c, "tag") /\ UNCHANGED aigc_result
               /\ aigc_call[c].readme \in {Aigc!None, aigc_master'.readme}
            \/ Aigc!End(c, "failed")
<1>1. aigc_master \in [w : aigc_Weights \cup {Aigc!None},
                           readme : aigc_Readmes \cup {Aigc!None}]
  BY DEF Aigc!TypeOK
<1>2. aigc_master' \in {aigc_master, Aigc!ReadmeOf(c)}
  BY DEF Aigc!UploadReadme
<1>. QED  BY <1>1, <1>2, AigcMaster DEF Aigc!UploadReadme, Aigc!Raise

\* What a version is that the site takes for a request.
LEMMA AigcTaken ==
  ASSUME Aigc!TypeOK, NEW q \in Aigc!Calls
  PROVE  /\ Aigc!Taken(q) \in Aigc!Versions /\ Aigc!Taken(q).w = q.w
         /\ Aigc!Taken(q).by = q.nr /\ Aigc!Taken(q).readme = aigc_master.readme
         /\ q.nr >= 1 => Aigc!Taken(q) # Aigc!NoVersion
BY DEF Aigc!TypeOK, Aigc!Taken, Aigc!Versions, Aigc!Calls, Aigc!NoVersion

\* A step keeps the types.
LEMMA AigcTypes ==
  ASSUME AigcInv, Aigc!Next
  PROVE  Aigc!TypeOK'
<1>. USE AigcBounds DEF AigcInv, AigcNumbers, AigcCaller, Sending, Aigc!TypeOK, Aigc!hub,
   Aigc!Polls
<1>1. ASSUME NEW c \in aigc_Callers, NEW k \in {"create", "tag"}, NEW t \in aigc_Tags \cup
   {Aigc!None}, k = "tag" => t \in aigc_Tags, NEW w \in aigc_Weights, NEW r \in aigc_Readmes
   \cup {Aigc!None}, Aigc!Begin(c, k, t, w, r) PROVE Aigc!TypeOK'
  BY <1>1, AigcNewCall DEF Aigc!Begin, Aigc!Go
<1>2. ASSUME NEW c \in aigc_Callers, Aigc!Preupload(c) PROVE Aigc!TypeOK'
  BY <1>2 DEF Aigc!Preupload, Aigc!Go, Aigc!End, Aigc!Raise
<1>3. ASSUME NEW c \in aigc_Callers, Aigc!CreateModel(c) PROVE Aigc!TypeOK'
  BY <1>3, AigcModel DEF Aigc!Go, Aigc!End
<1>4. ASSUME NEW c \in aigc_Callers, Aigc!UploadWeights(c) PROVE Aigc!TypeOK'
  BY <1>4, AigcMaster DEF Aigc!UploadWeights, Aigc!Go, Aigc!End, Aigc!Raise
<1>5. ASSUME NEW c \in aigc_Callers, Aigc!UploadReadme(c) PROVE Aigc!TypeOK'
  BY <1>5, AigcReadme DEF Aigc!Go, Aigc!End
<1>6. ASSUME NEW c \in aigc_Callers, Aigc!CreateTag(c) PROVE Aigc!TypeOK'
  <2>. DEFINE q == aigc_call[c]
              made == [aigc_tags EXCEPT ![q.tag] = Aigc!Taken(q)]
  <2>1. /\ UNCHANGED <<aigc_exists, aigc_blobs, aigc_master, aigc_call, aigc_calls>>
        /\ aigc_tags' \in {aigc_tags, made} /\ aigc_late' \in {aigc_late, aigc_late \cup {q}}
        /\ aigc_polls' \in {aigc_polls, [aigc_polls EXCEPT ![c] = 0]}
    BY <1>6 DEF Aigc!CreateTag
  <2>2. \/ Aigc!Go(c, "poll") /\ UNCHANGED aigc_result
        \/ \E r \in {"ok", "failed"} : Aigc!End(c, r)
    BY <1>6 DEF Aigc!CreateTag
  <2>3. q \in Aigc!Calls /\ Aigc!Taken(q) \in Aigc!Versions
    BY AigcTaken
  <2>4. aigc_tags' \in [aigc_Tags -> Aigc!Versions] /\ aigc_late' \subseteq Aigc!Calls
    BY <2>1, <2>3
  <2>5. aigc_polls' \in [aigc_Callers -> 0..Aigc!Polls]
    BY <2>1
  <2>6. /\ aigc_pc' \in [aigc_Callers -> {"idle", "preupload", "model", "weights", "readme", "tag", "poll"}]
        /\ aigc_result' \in [aigc_Callers -> {Aigc!None, "ok", "failed"}]
    BY <2>2 DEF Aigc!Go, Aigc!End
  <2>. QED  BY <2>1, <2>4, <2>5, <2>6
<1>7. ASSUME NEW c \in aigc_Callers, Aigc!Poll(c) PROVE Aigc!TypeOK'
  BY <1>7 DEF Aigc!Poll, Aigc!Seen, Aigc!Go, Aigc!End, Aigc!Raise
<1>8. ASSUME NEW c \in aigc_Callers, Aigc!TagPlain(c) PROVE Aigc!TypeOK'
  BY <1>8, AigcPlain
<1>9. CASE Aigc!Late
  BY <1>9, AigcTaken DEF Aigc!Late, Aigc!Free
<1>10. CASE UNCHANGED Aigc!vars
  BY <1>10 DEF Aigc!vars
<1>. QED  BY <1>1, <1>2, <1>3, <1>4, <1>5, <1>6, <1>7, <1>8, <1>9, <1>10 DEF Aigc!Next,
   Aigc!CreateAigc, Aigc!TagAigc, Aigc!Rest

LEMMA AigcNumbersKept ==
  ASSUME OneCaller, AigcInv, Aigc!Next
  PROVE  AigcNumbers'
<1>. USE AigcBounds DEF AigcInv, AigcNumbers, AigcCaller, Aigc!TypeOK, Aigc!hub, Sending,
   Aigc!Calls
<1>1. ASSUME NEW c \in aigc_Callers, NEW k \in {"create", "tag"}, NEW t \in aigc_Tags \cup
   {Aigc!None}, k = "tag" => t \in aigc_Tags, NEW w \in aigc_Weights, NEW r \in aigc_Readmes
   \cup {Aigc!None}, Aigc!Begin(c, k, t, w, r) PROVE AigcNumbers'
  <2>1. \A g \in aigc_Tags : aigc_tags'[g].by <= aigc_calls'
    BY <1>1, AigcNewCall DEF Aigc!Begin, Aigc!Go, Aigc!Versions
  <2>2. \A q \in aigc_late' :
          q.kind = "tag" /\ q.tag \in aigc_Tags /\ q.nr >= 1 /\ q.nr <= aigc_calls'
    BY <1>1, AigcNewCall DEF Aigc!Begin, Aigc!Go
  <2>3. \A d \in aigc_Callers : AigcCaller(d)'
    BY <1>1, AigcNewCall DEF Aigc!Begin, Aigc!Go
  <2>. QED  BY <2>1, <2>2, <2>3
<1>2. ASSUME NEW c \in aigc_Callers, Aigc!Preupload(c) PROVE AigcNumbers'
  BY <1>2 DEF Aigc!Preupload, Aigc!Go, Aigc!End, Aigc!Raise
<1>3. ASSUME NEW c \in aigc_Callers, Aigc!CreateModel(c) PROVE AigcNumbers'
  BY <1>3, AigcModel DEF Aigc!Go, Aigc!End
<1>4. ASSUME NEW c \in aigc_Callers, Aigc!UploadWeights(c) PROVE AigcNumbers'
  BY <1>4, AigcMaster DEF Aigc!UploadWeights, Aigc!Go, Aigc!End, Aigc!Raise
<1>5. ASSUME NEW c \in aigc_Callers, Aigc!UploadReadme(c) PROVE AigcNumbers'
  BY <1>5, AigcReadme DEF Aigc!Go, Aigc!End
<1>6. ASSUME NEW c \in aigc_Callers, Aigc!CreateTag(c) PROVE AigcNumbers'
  <2>1. \A g \in aigc_Tags : aigc_tags'[g].by <= aigc_calls'
    BY <1>6, AigcTaken DEF Aigc!CreateTag, Aigc!Free, Aigc!Go, Aigc!End, Aigc!Raise, Aigc!Versions
  <2>2. \A q \in aigc_late' :
          q.kind = "tag" /\ q.tag \in aigc_Tags /\ q.nr >= 1 /\ q.nr <= aigc_calls'
    BY <1>6, AigcTaken DEF Aigc!CreateTag, Aigc!Free, Aigc!Go, Aigc!End, Aigc!Raise
  <2>3. \A d \in aigc_Callers : AigcCaller(d)'
    BY <1>6, AigcTaken DEF Aigc!CreateTag, Aigc!Free, Aigc!Go, Aigc!End, Aigc!Raise
  <2>. QED  BY <2>1, <2>2, <2>3
<1>7. ASSUME NEW c \in aigc_Callers, Aigc!Poll(c) PROVE AigcNumbers'
  BY <1>7 DEF Aigc!Poll, Aigc!Seen, Aigc!Go, Aigc!End, Aigc!Raise
<1>8. ASSUME NEW c \in aigc_Callers, Aigc!TagPlain(c) PROVE AigcNumbers'
  <2>0. aigc_calls' = aigc_calls + 1 /\ \E t \in aigc_Tags, v \in Aigc!Versions :
          v.by = aigc_calls + 1 /\ aigc_tags' \in {aigc_tags, [aigc_tags EXCEPT ![t] = v]}
    BY <1>8, AigcPlain
  <2>1. \A g \in aigc_Tags : aigc_tags'[g].by <= aigc_calls'
    BY <2>0 DEF Aigc!Versions
  <2>2. \A q \in aigc_late' :
          q.kind = "tag" /\ q.tag \in aigc_Tags /\ q.nr >= 1 /\ q.nr <= aigc_calls'
    BY <1>8, AigcPlain
  <2>3. \A d \in aigc_Callers : AigcCaller(d)'
    BY <1>8, AigcPlain
  <2>. QED  BY <2>1, <2>2, <2>3
<1>9. CASE Aigc!Late
  BY <1>9, AigcTaken DEF Aigc!Late, Aigc!Free
<1>10. CASE UNCHANGED Aigc!vars
  BY <1>10 DEF Aigc!vars
<1>. QED  BY <1>1, <1>2, <1>3, <1>4, <1>5, <1>6, <1>7, <1>8, <1>9, <1>10 DEF Aigc!Next,
   Aigc!CreateAigc, Aigc!TagAigc, Aigc!Rest

LEMMA AigcLateKept ==
  ASSUME OneCaller, AigcInv, Aigc!Next
  PROVE  AigcLate'
<1>. USE AigcBounds DEF OneCaller, AigcInv, AigcNumbers, AigcCaller, AigcLate, Aigc!TypeOK,
   Aigc!hub, Sending, Aigc!Calls
<1>1. ASSUME NEW c \in aigc_Callers, NEW k \in {"create", "tag"}, NEW t \in aigc_Tags \cup
   {Aigc!None}, k = "tag" => t \in aigc_Tags, NEW w \in aigc_Weights, NEW r \in aigc_Readmes
   \cup {Aigc!None}, Aigc!Begin(c, k, t, w, r) PROVE AigcLate'
  BY <1>1, AigcNewCall DEF Aigc!Begin, Aigc!Go
<1>2. ASSUME NEW c \in aigc_Callers, Aigc!Preupload(c) PROVE AigcLate'
  BY <1>2 DEF Aigc!Preupload, Aigc!Go, Aigc!End, Aigc!Raise
<1>3. ASSUME NEW c \in aigc_Callers, Aigc!CreateModel(c) PROVE AigcLate'
  BY <1>3, AigcModel DEF Aigc!Go, Aigc!End
<1>4. ASSUME NEW c \in aigc_Callers, Aigc!UploadWeights(c) PROVE AigcLate'
  BY <1>4, AigcMaster DEF Aigc!UploadWeights, Aigc!Go, Aigc!End, Aigc!Raise
<1>5. ASSUME NEW c \in aigc_Callers, Aigc!UploadReadme(c) PROVE AigcLate'
  BY <1>5, AigcReadme DEF Aigc!Go, Aigc!End
<1>6. ASSUME NEW c \in aigc_Callers, Aigc!CreateTag(c) PROVE AigcLate'
  BY <1>6, AigcTaken DEF Aigc!CreateTag, Aigc!Free, Aigc!Go, Aigc!End, Aigc!Raise
<1>7. ASSUME NEW c \in aigc_Callers, Aigc!Poll(c) PROVE AigcLate'
  BY <1>7 DEF Aigc!Poll, Aigc!Seen, Aigc!Go, Aigc!End, Aigc!Raise
<1>8. ASSUME NEW c \in aigc_Callers, Aigc!TagPlain(c) PROVE AigcLate'
  BY <1>8, AigcPlain
<1>9. CASE Aigc!Late
  BY <1>9, AigcTaken DEF Aigc!Late, Aigc!Free
<1>10. CASE UNCHANGED Aigc!vars
  BY <1>10 DEF Aigc!vars
<1>. QED  BY <1>1, <1>2, <1>3, <1>4, <1>5, <1>6, <1>7, <1>8, <1>9, <1>10 DEF Aigc!Next,
   Aigc!CreateAigc, Aigc!TagAigc, Aigc!Rest

LEMMA AigcMadeKept ==
  ASSUME OneCaller, AigcInv, Aigc!Next
  PROVE  AigcMade'
<1>. USE AigcBounds DEF OneCaller, AigcInv, AigcNumbers, AigcCaller, AigcLate, AigcMade,
   Aigc!TypeOK, Aigc!hub, Aigc!Calls
<1>1. ASSUME NEW c \in aigc_Callers, NEW k \in {"create", "tag"}, NEW t \in aigc_Tags \cup
   {Aigc!None}, k = "tag" => t \in aigc_Tags, NEW w \in aigc_Weights, NEW r \in aigc_Readmes
   \cup {Aigc!None}, Aigc!Begin(c, k, t, w, r) PROVE AigcMade'
  BY <1>1, AigcNewCall DEF Aigc!Begin, Aigc!Go
<1>2. ASSUME NEW c \in aigc_Callers, Aigc!Preupload(c) PROVE AigcMade'
  BY <1>2 DEF Aigc!Preupload, Aigc!Go, Aigc!End, Aigc!Raise
<1>3. ASSUME NEW c \in aigc_Callers, Aigc!CreateModel(c) PROVE AigcMade'
  BY <1>3, AigcModel DEF Aigc!Go, Aigc!End
<1>4. ASSUME NEW c \in aigc_Callers, Aigc!UploadWeights(c) PROVE AigcMade'
  BY <1>4, AigcMaster DEF Aigc!UploadWeights, Aigc!Go, Aigc!End, Aigc!Raise
<1>5. ASSUME NEW c \in aigc_Callers, Aigc!UploadReadme(c) PROVE AigcMade'
  BY <1>5, AigcReadme DEF Aigc!Go, Aigc!End
<1>6. ASSUME NEW c \in aigc_Callers, Aigc!CreateTag(c) PROVE AigcMade'
  BY <1>6, AigcTaken DEF Aigc!CreateTag, Aigc!Free, Aigc!Go, Aigc!End, Aigc!Raise
<1>7. ASSUME NEW c \in aigc_Callers, Aigc!Poll(c) PROVE AigcMade'
  BY <1>7 DEF Aigc!Poll, Aigc!Seen, Aigc!Go, Aigc!End, Aigc!Raise
<1>8. ASSUME NEW c \in aigc_Callers, Aigc!TagPlain(c) PROVE AigcMade'
  BY <1>8, AigcPlain
<1>9. CASE Aigc!Late
  BY <1>9, AigcTaken DEF Aigc!Late, Aigc!Free
<1>10. CASE UNCHANGED Aigc!vars
  BY <1>10 DEF Aigc!vars
<1>. QED  BY <1>1, <1>2, <1>3, <1>4, <1>5, <1>6, <1>7, <1>8, <1>9, <1>10 DEF Aigc!Next,
   Aigc!CreateAigc, Aigc!TagAigc, Aigc!Rest

LEMMA AigcLeftKept ==
  ASSUME OneCaller, AigcInv, Aigc!Next
  PROVE  AigcLeft'
<1>. USE AigcBounds DEF OneCaller, AigcInv, AigcNumbers, AigcCaller, AigcLeft, Aigc!TypeOK,
   Aigc!hub, Aigc!Calls
<1>1. ASSUME NEW c \in aigc_Callers, NEW k \in {"create", "tag"}, NEW t \in aigc_Tags \cup
   {Aigc!None}, k = "tag" => t \in aigc_Tags, NEW w \in aigc_Weights, NEW r \in aigc_Readmes
   \cup {Aigc!None}, Aigc!Begin(c, k, t, w, r) PROVE AigcLeft'
  BY <1>1, AigcNewCall DEF Aigc!Begin, Aigc!Go
<1>2. ASSUME NEW c \in aigc_Callers, Aigc!Preupload(c) PROVE AigcLeft'
  BY <1>2 DEF Aigc!Preupload, Aigc!Go, Aigc!End, Aigc!Raise
<1>3. ASSUME NEW c \in aigc_Callers, Aigc!CreateModel(c) PROVE AigcLeft'
  BY <1>3, AigcModel DEF Aigc!Go, Aigc!End
<1>4. ASSUME NEW c \in aigc_Callers, Aigc!UploadWeights(c) PROVE AigcLeft'
  BY <1>4, AigcMaster DEF Aigc!UploadWeights, Aigc!Go, Aigc!End, Aigc!Raise
<1>5. ASSUME NEW c \in aigc_Callers, Aigc!UploadReadme(c) PROVE AigcLeft'
  BY <1>5, AigcReadme DEF Aigc!Go, Aigc!End
<1>6. ASSUME NEW c \in aigc_Callers, Aigc!CreateTag(c) PROVE AigcLeft'
  BY <1>6, AigcTaken DEF Aigc!CreateTag, Aigc!Free, Aigc!Go, Aigc!End, Aigc!Raise
<1>7. ASSUME NEW c \in aigc_Callers, Aigc!Poll(c) PROVE AigcLeft'
  BY <1>7 DEF Aigc!Poll, Aigc!Seen, Aigc!Go, Aigc!End, Aigc!Raise
<1>8. ASSUME NEW c \in aigc_Callers, Aigc!TagPlain(c) PROVE AigcLeft'
  BY <1>8, AigcPlain
<1>9. CASE Aigc!Late
  BY <1>9, AigcTaken DEF Aigc!Late, Aigc!Free
<1>10. CASE UNCHANGED Aigc!vars
  BY <1>10 DEF Aigc!vars
<1>. QED  BY <1>1, <1>2, <1>3, <1>4, <1>5, <1>6, <1>7, <1>8, <1>9, <1>10 DEF Aigc!Next,
   Aigc!CreateAigc, Aigc!TagAigc, Aigc!Rest

\* With one caller: a version that a call has made is as it was given, and a call that
\* returns left one, though the answer to its request was lost.
THEOREM AigcHolds == ASSUME OneCaller PROVE Aigc!Spec => []AigcInv
<1>1. AigcInv /\ [Aigc!Next]_Aigc!vars => AigcInv'
  <2>. SUFFICES ASSUME AigcInv, [Aigc!Next]_Aigc!vars PROVE AigcInv'
    OBVIOUS
  <2>1. CASE Aigc!Next
    BY <2>1, AigcTypes, AigcNumbersKept, AigcLateKept, AigcMadeKept, AigcLeftKept DEF AigcInv
  <2>2. CASE UNCHANGED Aigc!vars
    BY <2>2 DEF Aigc!vars, AigcInv, Aigc!TypeOK, AigcNumbers, AigcCaller, AigcLate, AigcMade, AigcLeft
  <2>. QED  BY <2>1, <2>2
<1>. QED  BY <1>1, AigcInit, PTL DEF Aigc!Spec

\* The old class (compat/hub_api.py): a version that one caller asks for is as it was given,
\* and the files of a dataset that are listed are of the dataset that was named.
THEOREM CompatSafe == ASSUME OneCaller PROVE PartsSpec => []CompatHolds
<1>1. PartsInit => Aigc!Init /\ Data!Init
  BY DEF PartsInit
<1>2. [PartsNext]_allVars => [Aigc!Next]_Aigc!vars /\ [Data!Next]_Data!vars
  BY DEF PartsNext, allVars, aigcVars, dataVars, Aigc!vars, Data!vars
<1>3. AigcInv /\ DataInv => CompatHolds
  <2>. SUFFICES ASSUME AigcInv, DataInv PROVE CompatHolds
    OBVIOUS
  <2>1. Aigc!VersionAsGiven
    BY AigcBounds DEF AigcInv, AigcNumbers, AigcCaller, AigcMade, AigcLeft, Aigc!VersionAsGiven
  <2>. QED  BY <2>1 DEF AigcInv, DataInv, CompatHolds
<1>. QED  BY <1>1, <1>2, <1>3, AigcHolds, DataHolds, PTL DEF PartsSpec, Aigc!Spec, Data!Spec

-----------------------------------------------------------------------------
(* The cache of a repository.                                                *)

\* The variables and their values, part by part; no revision lacks a file.
CacheTrees ==
  /\ cache_tree \in [Cache!Places -> Cache!Copies]
  /\ cache_remote \in [cache_Revisions -> Cache!Copies]
  /\ \A r \in cache_Revisions, f \in cache_Files : cache_remote[r][f] # 0

CacheCall ==
  /\ cache_pc \in {"idle", "list", "run", "stop"}
  /\ cache_rev \in cache_Revisions /\ cache_dest \in Cache!Places
  /\ cache_want \in Cache!Copies

CacheQueues ==
  /\ cache_queue \subseteq cache_Files /\ cache_pending \subseteq cache_Files
  /\ cache_active \subseteq cache_Files /\ cache_completed \subseteq cache_Files
  /\ cache_failures \subseteq cache_Files

CacheOutcome ==
  /\ cache_outcome \in {Cache!None, "ok", "raised", "found", "cleared"}
  /\ cache_place \in Cache!Places \cup {Cache!None} /\ cache_calls \in 0..cache_MaxCalls

CacheTypes ==
  /\ CacheTrees /\ CacheCall /\ CacheQueues /\ CacheOutcome
  /\ Cardinality(cache_pending \cup cache_active \cup cache_completed) <= Cache!PoolWindow

\* The files of a call are where they were put once, and nowhere without a call; as long as
\* there are some to submit, the calling thread has something to wait for.
CachePool ==
  /\ cache_queue \cap (cache_pending \cup cache_active \cup cache_completed) = {}
  /\ cache_pending \cap (cache_active \cup cache_completed) = {}
  /\ cache_active \cap cache_completed = {}
  /\ cache_pc # "run" => cache_queue = {} /\ cache_pending = {}
  /\ cache_pc \in {"idle", "list"} => cache_active = {} /\ cache_completed = {}
  /\ cache_pending \cup cache_active \cup cache_completed = {} => cache_queue = {}

\* The copy in a place is the one that a call was told of.
CacheGood(p, f) ==
  cache_tree[p][f] # 0 /\ (f \in cache_Hashed => cache_tree[p][f] = cache_want[f])

\* Every file of the listing is good, or on its way, or known to have failed.
CacheOnItsWay ==
  cache_pc = "run" =>
    \A f \in cache_Files :
      \/ cache_want[f] = 0 \/ CacheGood(cache_dest, f)
      \/ f \in cache_queue \cup cache_pending \cup cache_active \cup cache_failures

CacheEnded ==
  /\ cache_outcome \in {"ok", "cleared"} => cache_pc = "idle"
  /\ cache_outcome = "ok" => cache_place \in Cache!Places
  /\ cache_outcome = "ok" =>
       \A f \in cache_Files : cache_want[f] = 0 \/ CacheGood(cache_place, f)
  /\ cache_outcome = "cleared" =>
       \A p \in cache_Revisions \cup {"flat", "hub_flat"} : \A f \in cache_Files :
         cache_tree[p][f] = 0

CacheInv == CacheTypes /\ CachePool /\ CacheOnItsWay /\ CacheEnded

\* The cardinality that the instance speaks of is the one of the theorems.
LEMMA CacheCardinality ==
  \A S : Cache!Cardinality(S) = Cardinality(S) /\ (Cache!IsFiniteSet(S) <=> IsFiniteSet(S))
BY DEF Cache!Cardinality, Cardinality, Cache!IsFiniteSet, IsFiniteSet

LEMMA CacheBounds ==
  /\ IsFiniteSet(cache_Files) /\ cache_Hashed \subseteq cache_Files
  /\ "master" \in cache_Revisions /\ cache_Revisions \subseteq Cache!Places
  /\ Cache!PoolWindow \in Nat /\ Cache!PoolWindow >= 1 /\ cache_MaxWorkers \in Nat
  /\ cache_MaxCalls \in Nat /\ {"typed", "hub_typed", "flat", "hub_flat"} \subseteq Cache!Places
  /\ \A S \in SUBSET cache_Files : IsFiniteSet(S)
<1>1. /\ IsFiniteSet(cache_Files) /\ cache_Hashed \subseteq cache_Files
      /\ "master" \in cache_Revisions /\ cache_MaxCalls \in Nat
      /\ cache_MaxWorkers \in Nat \ {0}
  BY CacheOK, CacheCardinality, Zenon DEF Cache!ConstantsOK
<1>2. Cache!PoolWindow \in Nat /\ Cache!PoolWindow >= 1
  BY <1>1 DEF Cache!PoolWindow
<1>3. /\ cache_Revisions \subseteq Cache!Places
      /\ {"typed", "hub_typed", "flat", "hub_flat"} \subseteq Cache!Places
  BY DEF Cache!Places, Cache!Legacy
<1>. QED  BY <1>1, <1>2, <1>3, FS_Subset

\* One copy is stored, and every other one stays.
LEMMA CacheStore ==
  ASSUME cache_tree \in [Cache!Places -> Cache!Copies], NEW d \in Cache!Places,
         NEW f \in cache_Files, NEW v \in 0..2
  PROVE  /\ [cache_tree EXCEPT ![d][f] = v] \in [Cache!Places -> Cache!Copies]
         /\ [cache_tree EXCEPT ![d][f] = v][d][f] = v
         /\ \A p \in Cache!Places, g \in cache_Files : (p # d \/ g # f) =>
              [cache_tree EXCEPT ![d][f] = v][p][g] = cache_tree[p][g]
BY DEF Cache!Copies

\* What is found in the cache is one of its places.
LEMMA CacheResolvedIn ==
  ASSUME NEW r \in cache_Revisions \cup {Cache!None}
  PROVE  /\ Cache!LegacyDir \in Cache!Places \cup {Cache!None}
         /\ Cache!Resolved(r) \in Cache!Places \cup {Cache!None}
<1>1. Cache!LegacyDir \in Cache!Places \cup {Cache!None}
  BY CacheBounds DEF Cache!LegacyDir
<1>2. Cardinality(Cache!Snapshots) = 1 =>
        (CHOOSE s \in Cache!Snapshots : TRUE) \in Cache!Snapshots
  <2>1. Cardinality(Cache!Snapshots) = 1 => Cache!Snapshots # {}
    BY FS_EmptySet
  <2>. QED  BY <2>1
<1>3. Cache!Snapshots \subseteq Cache!Places
  BY CacheBounds DEF Cache!Snapshots
<1>4. Cache!Resolved(r) \in Cache!Places \cup {Cache!None}
  BY <1>1, <1>2, <1>3, CacheBounds DEF Cache!Resolved
<1>. QED  BY <1>1, <1>4

\* ... and the same for one file.
LEMMA CacheResolved ==
  ASSUME NEW r \in cache_Revisions \cup {Cache!None}, NEW f \in cache_Files
  PROVE  Cache!ResolvedFile(r, f) \in Cache!Places \cup {Cache!None}
<1>1. Cache!LegacyDir \in Cache!Places \cup {Cache!None}
  BY CacheResolvedIn
<1>2. Cardinality(Cache!FileIn[f]) = 1 =>
        (CHOOSE s \in Cache!FileIn[f] : TRUE) \in Cache!FileIn[f]
  <2>1. Cardinality(Cache!FileIn[f]) = 1 => Cache!FileIn[f] # {}
    BY FS_EmptySet
  <2>. QED  BY <2>1
<1>3. Cache!FileIn[f] \subseteq Cache!Places
  BY CacheBounds DEF Cache!FileIn
<1>. QED  BY <1>1, <1>2, <1>3, CacheBounds DEF Cache!ResolvedFile

\* A tree that is removed is empty, and nothing is added to the others.
LEMMA CacheRemoved ==
  ASSUME CacheTrees, NEW targets, NEW n, NEW left, Cache!Remove(targets, n, left)
  PROVE  cache_tree' \in [Cache!Places -> Cache!Copies]
BY DEF Cache!Remove, CacheTrees, Cache!Copies

LEMMA CacheInit == Cache!Init => CacheInv
<1>. SUFFICES ASSUME Cache!Init PROVE CacheInv
  OBVIOUS
<1>1. CacheTrees
  BY DEF Cache!Init, Cache!Copies, Cache!Nothing, CacheTrees
<1>2. CacheCall
  BY CacheBounds DEF Cache!Init, Cache!Copies, Cache!Nothing, CacheCall
<1>3. Cardinality(cache_pending \cup cache_active \cup cache_completed) <= Cache!PoolWindow
  <2>1. cache_pending \cup cache_active \cup cache_completed = {}
    BY DEF Cache!Init
  <2>. QED  BY <2>1, FS_EmptySet, CacheBounds
<1>4. CacheQueues
  BY DEF Cache!Init, CacheQueues
<1>5. CacheOutcome
  BY CacheBounds DEF Cache!Init, CacheOutcome
<1>6. CachePool /\ CacheOnItsWay /\ CacheEnded
  BY DEF Cache!Init, CachePool, CacheOnItsWay, CacheEnded, Cache!None
<1>. QED  BY <1>1, <1>2, <1>3, <1>4, <1>5, <1>6 DEF CacheInv, CacheTypes

\* What a listing leaves to submit, and how many futures it submits.
LEMMA CacheListed ==
  ASSUME NEW sel \in SUBSET cache_Files, Cache!List(sel)
  PROVE  /\ cache_pending' \subseteq sel /\ cache_queue' = sel \ cache_pending'
         /\ Cardinality(cache_pending') <= Cache!PoolWindow
         /\ cache_pending' = {} => sel = {}
         /\ cache_pc = "list" /\ cache_pc' = "run"
         /\ UNCHANGED <<cache_active, cache_completed, cache_failures>>
<1>1. \E head \in SUBSET sel :
        /\ Cache!Cardinality(head) =
             IF Cache!Cardinality(sel) < Cache!PoolWindow THEN Cache!Cardinality(sel)
             ELSE Cache!PoolWindow
        /\ cache_pending' = head /\ cache_queue' = sel \ head
  BY DEF Cache!List
<1>2. PICK head \in SUBSET sel :
        /\ Cardinality(head) = IF Cardinality(sel) < Cache!PoolWindow THEN Cardinality(sel)
                                ELSE Cache!PoolWindow
        /\ cache_pending' = head /\ cache_queue' = sel \ head
  BY <1>1, CacheCardinality
<1>3. IsFiniteSet(sel) /\ Cardinality(sel) \in Nat
  BY CacheBounds, FS_CardinalityType
<1>4. Cardinality(head) <= Cache!PoolWindow
  BY <1>2, <1>3, CacheBounds
<1>5. head = {} => sel = {}
  <2>1. head = {} => Cardinality(head) = 0
    BY FS_EmptySet
  <2>. QED  BY <1>2, <1>3, <2>1, CacheBounds, FS_EmptySet
<1>. QED  BY <1>2, <1>4, <1>5 DEF Cache!List

\* A step keeps the files of a call apart.
LEMMA CachePoolKept ==
  ASSUME CacheInv, Cache!Next
  PROVE  CachePool'
<1>. USE DEF CacheInv, CachePool, Cache!call, Cache!pool
<1>1. ASSUME NEW r \in cache_Revisions, Cache!Begin(r) PROVE CachePool'
  BY <1>1 DEF Cache!Begin, Cache!Idle
<1>2. ASSUME NEW r \in cache_Revisions, NEW f \in cache_Files, Cache!Publish(r, f) PROVE CachePool'
  BY <1>2 DEF Cache!Publish
<1>3. ASSUME NEW sel \in SUBSET cache_Files, Cache!List(sel) PROVE CachePool'
  BY <1>3, CacheListed
<1>4. CASE Cache!ListFails
  BY <1>4 DEF Cache!ListFails, Cache!Raise
<1>5. ASSUME NEW f \in cache_Files, Cache!Start(f) PROVE CachePool'
  BY <1>5 DEF Cache!Start, Cache!Hit
<1>6. ASSUME NEW f \in cache_Files, Cache!Stored(f) PROVE CachePool'
  BY <1>6 DEF Cache!Stored, Cache!Ends
<1>7. ASSUME NEW f \in cache_Files, Cache!Failed(f) PROVE CachePool'
  BY <1>7 DEF Cache!Failed, Cache!Ends
<1>8. ASSUME NEW f \in cache_Files, Cache!Collect(f) PROVE CachePool'
  BY <1>8 DEF Cache!Collect
<1>9. CASE Cache!Interrupt
  BY <1>9 DEF Cache!Interrupt
<1>10. CASE Cache!Stopped
  BY <1>10 DEF Cache!Stopped, Cache!Raise
<1>11. CASE Cache!Done
  BY <1>11 DEF Cache!Done, Cache!Complete
<1>12. CASE Cache!Crash
  BY <1>12 DEF Cache!Crash, Cache!Raise
<1>13. ASSUME NEW r \in cache_Revisions \cup {Cache!None}, Cache!Offline(r) \/ \E f \in
   cache_Files : Cache!OfflineFile(r, f) PROVE CachePool'
  BY <1>13 DEF Cache!Offline, Cache!OfflineFile
<1>14. CASE Cache!ClearRepo \/ Cache!ClearType
  BY <1>14 DEF Cache!ClearRepo, Cache!ClearType, Cache!Clear
<1>15. CASE UNCHANGED Cache!vars
  BY <1>15 DEF Cache!vars
<1>. QED  BY <1>1, <1>2, <1>3, <1>4, <1>5, <1>6, <1>7, <1>8, <1>9, <1>10, <1>11, <1>12, <1>13,
   <1>14, <1>15 DEF Cache!Next, Cache!Rest

\* And their number within the window of the pool.
LEMMA CacheWindowKept ==
  ASSUME CacheInv, Cache!Next
  PROVE  Cardinality(cache_pending' \cup cache_active' \cup cache_completed') <= Cache!PoolWindow
<1>. DEFINE Now  == cache_pending \cup cache_active \cup cache_completed
            Then == cache_pending' \cup cache_active' \cup cache_completed'
<1>1. /\ Cardinality(Now) <= Cache!PoolWindow /\ Now \in SUBSET cache_Files
      /\ cache_pending \subseteq cache_Files /\ cache_queue \subseteq cache_Files
  BY DEF CacheInv, CacheTypes, CacheQueues
<1>2. IsFiniteSet(Now) /\ Cardinality(Now) \in Nat
  BY <1>1, CacheBounds, FS_CardinalityType
<1>3. CASE Then \subseteq Now
  BY <1>1, <1>2, <1>3, FS_Subset, FS_CardinalityType, CacheBounds
<1>4. ASSUME NEW sel \in SUBSET cache_Files, Cache!List(sel)
      PROVE  Cardinality(Then) <= Cache!PoolWindow
  <2>1. Then = cache_pending'
    BY <1>4, CacheListed DEF CacheInv, CachePool
  <2>. QED  BY <1>4, <2>1, CacheListed
<1>5. ASSUME NEW f \in cache_Files, Cache!Collect(f), cache_queue # {}
      PROVE  Cardinality(Then) <= Cache!PoolWindow
  <2>1. PICK g \in cache_queue : cache_pending' = cache_pending \cup {g}
    BY <1>5, Zenon DEF Cache!Collect
  <2>2. /\ f \in Now /\ g \notin Now
        /\ Then = (Now \ {f}) \cup {g}
    BY <1>5, <2>1 DEF Cache!Collect, CacheInv, CachePool
  <2>3. Cardinality(Now \ {f}) = Cardinality(Now) - 1 /\ IsFiniteSet(Now \ {f})
    BY <1>2, <2>2, FS_RemoveElement
  <2>4. Cardinality((Now \ {f}) \cup {g}) = Cardinality(Now \ {f}) + 1
    BY <2>2, <2>3, FS_AddElement
  <2>5. Cardinality(Then) = Cardinality(Now)
    <3>. HIDE DEF Now, Then
    <3>. QED  BY <1>2, <2>2, <2>3, <2>4
  <2>. QED  BY <1>1, <2>5
<1>6. CASE Then = {}
  BY <1>6, FS_EmptySet, CacheBounds
<1>. USE DEF Cache!call, Cache!pool
<1>7. ASSUME NEW f \in cache_Files, Cache!Start(f) \/ Cache!Stored(f) \/ Cache!Failed(f)
      PROVE  Then \subseteq Now
  BY <1>7 DEF Cache!Start, Cache!Stored, Cache!Failed, Cache!Ends
<1>8. ASSUME NEW f \in cache_Files, Cache!Collect(f), cache_queue = {} PROVE Then \subseteq Now
  BY <1>8 DEF Cache!Collect
<1>9. ASSUME Cache!Interrupt \/ Cache!Done \/ Cache!ClearRepo \/ Cache!ClearType \/ Cache!Rest
             \/ Cache!ListFails \/ Cache!Stopped \/ Cache!Crash
      PROVE  Then \subseteq Now
  BY <1>9 DEF Cache!Interrupt, Cache!Done, Cache!ClearRepo, Cache!ClearType, Cache!Clear,
     Cache!Rest, Cache!vars, Cache!ListFails, Cache!Stopped, Cache!Crash
<1>10. ASSUME NEW r \in cache_Revisions, Cache!Begin(r) PROVE Then \subseteq Now
  BY <1>10 DEF Cache!Begin
<1>11. ASSUME NEW r \in cache_Revisions, NEW f \in cache_Files, Cache!Publish(r, f)
       PROVE  Then \subseteq Now
  BY <1>11 DEF Cache!Publish
<1>12. ASSUME NEW r \in cache_Revisions \cup {Cache!None},
              Cache!Offline(r) \/ \E f \in cache_Files : Cache!OfflineFile(r, f)
       PROVE  Then \subseteq Now
  BY <1>12 DEF Cache!Offline, Cache!OfflineFile
<1>13. \/ Cache!Interrupt \/ Cache!Done \/ Cache!ClearRepo \/ Cache!ClearType \/ Cache!Rest
       \/ Cache!ListFails \/ Cache!Stopped \/ Cache!Crash
       \/ \E r \in cache_Revisions : Cache!Begin(r)
       \/ \E r \in cache_Revisions, f \in cache_Files : Cache!Publish(r, f)
       \/ \E r \in cache_Revisions \cup {Cache!None} : Cache!Offline(r)
       \/ \E r \in cache_Revisions \cup {Cache!None}, f \in cache_Files : Cache!OfflineFile(r, f)
       \/ \E sel \in SUBSET cache_Files : Cache!List(sel)
       \/ \E f \in cache_Files :
            Cache!Start(f) \/ Cache!Stored(f) \/ Cache!Failed(f) \/ Cache!Collect(f)
  BY Zenon DEF Cache!Next
<1>. QED  BY <1>3, <1>4, <1>5, <1>7, <1>8, <1>9, <1>10, <1>11, <1>12, <1>13

\* What the remote tells of a file.
LEMMA CacheRemote ==
  ASSUME CacheTrees, NEW r \in cache_Revisions
  PROVE  \A f \in cache_Files : cache_remote[r][f] \in 0..2
BY DEF CacheTrees, Cache!Copies

\* A step leaves copies in the places, and the files of a revision.
LEMMA CacheTreesKept ==
  ASSUME CacheInv, Cache!Next
  PROVE  CacheTrees'
<1>1. CacheTrees /\ cache_dest \in Cache!Places /\ cache_rev \in cache_Revisions
  BY Zenon DEF CacheInv, CacheTypes, CacheTrees, CacheCall, CacheQueues, CacheOutcome
<1>2. ASSUME NEW r \in cache_Revisions, NEW f \in cache_Files, Cache!Publish(r, f)
      PROVE  CacheTrees'
  BY <1>1, <1>2 DEF CacheTrees, Cache!Publish, Cache!Copies
<1>3. ASSUME NEW f \in cache_Files, Cache!Start(f) PROVE CacheTrees'
  <2>1. CASE Cache!Hit(f)
    BY <1>1, <1>3, <2>1 DEF Cache!Start, CacheTrees
  <2>2. CASE ~Cache!Hit(f)
    <3>1. /\ UNCHANGED cache_remote
          /\ cache_tree' = [cache_tree EXCEPT ![cache_dest][f] = 0]
      BY <1>3, <2>2 DEF Cache!Start
    <3>2. cache_tree' \in [Cache!Places -> Cache!Copies]
      <4>1. 0 \in 0..2 /\ cache_tree \in [Cache!Places -> Cache!Copies]
        BY <1>1 DEF CacheTrees
      <4>. QED  BY <1>1, <3>1, <4>1, CacheStore
    <3>. QED  BY <1>1, <3>1, <3>2 DEF CacheTrees
  <2>. QED  BY <2>1, <2>2
<1>4. ASSUME NEW f \in cache_Files, Cache!Stored(f) PROVE CacheTrees'
  <2>1. /\ UNCHANGED cache_remote
        /\ cache_tree' = [cache_tree EXCEPT ![cache_dest][f] = cache_remote[cache_rev][f]]
    BY <1>4, Zenon DEF Cache!Stored, Cache!Ends
  <2>2. cache_remote[cache_rev][f] \in 0..2
    BY <1>1, CacheRemote
  <2>3. cache_tree' \in [Cache!Places -> Cache!Copies]
    BY <1>1, <2>1, <2>2, CacheStore DEF CacheTrees
  <2>. QED  BY <1>1, <2>1, <2>3 DEF CacheTrees
<1>5. CASE Cache!ClearRepo \/ Cache!ClearType
  <2>1. UNCHANGED cache_remote /\ cache_tree' \in [Cache!Places -> Cache!Copies]
    BY <1>5, CacheRemoved
       DEF Cache!ClearRepo, Cache!ClearType, Cache!Clear, CacheInv, CacheTypes
  <2>. QED  BY <1>1, <2>1 DEF CacheTrees
<1>6. CASE UNCHANGED <<cache_tree, cache_remote>>
  BY <1>1, <1>6 DEF CacheTrees
<1>7. ASSUME NEW r \in cache_Revisions \cup {Cache!None},
             Cache!Offline(r) \/ \E f \in cache_Files : Cache!OfflineFile(r, f)
      PROVE  CacheTrees'
  BY <1>6, <1>7 DEF Cache!Offline, Cache!OfflineFile
<1>8. ASSUME NEW f \in cache_Files, Cache!Failed(f) \/ Cache!Collect(f) PROVE CacheTrees'
  BY <1>6, <1>8 DEF Cache!Failed, Cache!Collect, Cache!Ends
<1>9. ASSUME NEW r \in cache_Revisions, Cache!Begin(r) PROVE CacheTrees'
  BY <1>6, <1>9 DEF Cache!Begin
<1>10. ASSUME NEW sel \in SUBSET cache_Files, Cache!List(sel) PROVE CacheTrees'
  BY <1>6, <1>10 DEF Cache!List
<1>11. CASE Cache!ListFails \/ Cache!Interrupt \/ Cache!Stopped \/ Cache!Done \/ Cache!Crash
            \/ Cache!Rest
  BY <1>6, <1>11 DEF Cache!ListFails, Cache!Interrupt, Cache!Stopped, Cache!Done, Cache!Crash,
     Cache!Rest, Cache!vars
<1>. QED  BY <1>2, <1>3, <1>4, <1>5, <1>7, <1>8, <1>9, <1>10, <1>11 DEF Cache!Next

\* A step leaves a call with its revision, its place and its listing ...
LEMMA CacheCallKept ==
  ASSUME CacheInv, Cache!Next
  PROVE  CacheCall'
<1>1. CacheCall
  BY Zenon DEF CacheInv, CacheTypes
<1>. USE <1>1 DEF CacheCall, Cache!call, Cache!pool
<1>2. ASSUME NEW r \in cache_Revisions, Cache!Begin(r) PROVE CacheCall'
  <2>1. cache_dest' \in Cache!Places
    <3>1. Cache!LegacyDir # Cache!None => Cache!LegacyDir \in Cache!Places
      BY CacheBounds DEF Cache!LegacyDir
    <3>. QED  BY <1>2, <3>1, CacheBounds DEF Cache!Begin
  <2>. QED  BY <1>2, <2>1 DEF Cache!Begin
<1>3. ASSUME NEW sel \in SUBSET cache_Files, Cache!List(sel) PROVE CacheCall'
  <2>1. \A f \in cache_Files : cache_remote[cache_rev][f] \in 0..2
    BY CacheRemote DEF CacheInv, CacheTypes
  <2>2. cache_want' \in Cache!Copies
    BY <1>3, <2>1 DEF Cache!List, Cache!Listing, Cache!Copies
  <2>. QED  BY <1>3, <2>2 DEF Cache!List
<1>4. CASE Cache!Interrupt \/ Cache!Stopped \/ Cache!Done \/ Cache!Crash \/ Cache!ListFails
  BY <1>4 DEF Cache!Interrupt, Cache!Stopped, Cache!Done, Cache!Crash, Cache!ListFails,
     Cache!Raise
<1>5. CASE UNCHANGED <<cache_pc, cache_rev, cache_dest, cache_want>>
  BY <1>5
<1>. QED  BY <1>2, <1>3, <1>4, <1>5 DEF Cache!Next, Cache!Rest, Cache!Publish, Cache!Start,
   Cache!Stored, Cache!Ends, Cache!Failed, Cache!Collect, Cache!Clear, Cache!ClearRepo,
   Cache!ClearType, Cache!Offline, Cache!OfflineFile, Cache!vars

\* ... the pool with files of the repository ...
LEMMA CacheQueuesKept ==
  ASSUME CacheInv, Cache!Next
  PROVE  CacheQueues'
<1>1. CacheQueues
  BY Zenon DEF CacheInv, CacheTypes
<1>. USE <1>1 DEF CacheQueues, Cache!call, Cache!pool
<1>2. ASSUME NEW r \in cache_Revisions, Cache!Begin(r) PROVE CacheQueues'
  BY <1>2 DEF Cache!Begin
<1>3. ASSUME NEW sel \in SUBSET cache_Files, Cache!List(sel) PROVE CacheQueues'
  BY <1>3, CacheListed
<1>4. ASSUME NEW f \in cache_Files, Cache!Start(f) PROVE CacheQueues'
  BY <1>4 DEF Cache!Start
<1>5. ASSUME NEW f \in cache_Files, Cache!Stored(f) \/ Cache!Failed(f) PROVE CacheQueues'
  BY <1>5 DEF Cache!Stored, Cache!Failed, Cache!Ends
<1>6. ASSUME NEW f \in cache_Files, Cache!Collect(f) PROVE CacheQueues'
  BY <1>6 DEF Cache!Collect
<1>7. CASE Cache!Interrupt \/ Cache!Stopped \/ Cache!Crash
  BY <1>7 DEF Cache!Interrupt, Cache!Stopped, Cache!Crash
<1>8. CASE UNCHANGED Cache!pool
  BY <1>8
<1>. QED  BY <1>2, <1>3, <1>4, <1>5, <1>6, <1>7, <1>8 DEF Cache!Next, Cache!Rest, Cache!Publish,
   Cache!Done, Cache!ListFails, Cache!Clear, Cache!ClearRepo, Cache!ClearType, Cache!Offline,
   Cache!OfflineFile, Cache!vars

\* ... and an outcome with a place.
LEMMA CacheOutcomeKept ==
  ASSUME CacheInv, Cache!Next
  PROVE  CacheOutcome'
<1>1. CacheOutcome /\ cache_dest \in Cache!Places
  BY Zenon DEF CacheInv, CacheTypes, CacheCall
<1>2. cache_MaxCalls \in Nat
  BY CacheBounds
<1>3. Cache!Idle => cache_calls' \in 0..cache_MaxCalls
  BY <1>1, <1>2 DEF CacheOutcome, Cache!Idle
<1>. USE <1>1 DEF CacheOutcome
<1>4. ASSUME NEW r \in cache_Revisions, Cache!Begin(r) PROVE CacheOutcome'
  BY <1>3, <1>4 DEF Cache!Begin
<1>5. CASE Cache!ListFails \/ Cache!Stopped \/ Cache!Crash
  BY <1>5 DEF Cache!ListFails, Cache!Stopped, Cache!Crash, Cache!Raise
<1>6. CASE Cache!Done
  BY <1>6 DEF Cache!Done
<1>7. CASE Cache!ClearRepo \/ Cache!ClearType
  BY <1>3, <1>7 DEF Cache!ClearRepo, Cache!ClearType, Cache!Clear
<1>8. ASSUME NEW r \in cache_Revisions \cup {Cache!None}, Cache!Offline(r) PROVE CacheOutcome'
  <2>1. Cache!Resolved(r) \in Cache!Places \cup {Cache!None}
    BY CacheResolvedIn
  <2>. QED  BY <1>3, <1>8, <2>1 DEF Cache!Offline, Cache!Found1
<1>9. ASSUME NEW r \in cache_Revisions \cup {Cache!None}, NEW f \in cache_Files,
             Cache!OfflineFile(r, f)
      PROVE  CacheOutcome'
  <2>1. Cache!ResolvedFile(r, f) \in Cache!Places \cup {Cache!None}
    BY CacheResolved
  <2>. QED  BY <1>3, <1>9, <2>1 DEF Cache!OfflineFile, Cache!Found1
<1>10. CASE UNCHANGED <<cache_outcome, cache_place, cache_calls>>
  BY <1>10
<1>. QED  BY <1>4, <1>5, <1>6, <1>7, <1>8, <1>9, <1>10 DEF Cache!Next, Cache!Rest, Cache!Publish,
   Cache!List, Cache!Start, Cache!Stored, Cache!Failed, Cache!Ends, Cache!Collect,
   Cache!Interrupt, Cache!vars

LEMMA CacheTypesKept ==
  ASSUME CacheInv, Cache!Next
  PROVE  CacheTypes'
<1>1. CacheTrees' /\ CacheCall' /\ CacheQueues' /\ CacheOutcome'
  BY CacheTreesKept, CacheCallKept, CacheQueuesKept, CacheOutcomeKept
<1>2. Cardinality(cache_pending' \cup cache_active' \cup cache_completed') <= Cache!PoolWindow
  BY CacheWindowKept
<1>. QED  BY <1>1, <1>2 DEF CacheTypes

\* A step loses no file of the listing.
LEMMA CacheOnItsWayKept ==
  ASSUME CacheInv, Cache!Next
  PROVE  CacheOnItsWay'
<1>. USE DEF CacheInv, CacheTypes, CacheOnItsWay, CacheGood, CachePool, CacheTrees, CacheCall,
   CacheQueues,
   Cache!call, Cache!pool
<1>1. ASSUME NEW r \in cache_Revisions, Cache!Begin(r) PROVE CacheOnItsWay'
  BY <1>1 DEF Cache!Begin, Cache!Idle
<1>2. ASSUME NEW r \in cache_Revisions, NEW f \in cache_Files, Cache!Publish(r, f) PROVE CacheOnItsWay'
  BY <1>2 DEF Cache!Publish
<1>3. ASSUME NEW sel \in SUBSET cache_Files, Cache!List(sel) PROVE CacheOnItsWay'
  BY <1>3 DEF Cache!List, Cache!Listing
<1>4. CASE Cache!ListFails
  BY <1>4 DEF Cache!ListFails, Cache!Raise
<1>5. ASSUME NEW f \in cache_Files, Cache!Start(f) PROVE CacheOnItsWay'
  <2>1. /\ UNCHANGED <<cache_pc, cache_dest, cache_want, cache_queue, cache_failures>>
        /\ f \in cache_pending /\ cache_pending' = cache_pending \ {f}
    BY <1>5 DEF Cache!Start
  <2>2. CASE Cache!Hit(f)
    <3>1. UNCHANGED <<cache_tree, cache_active>> /\ CacheGood(cache_dest, f)
      BY <1>5, <2>2 DEF Cache!Start, Cache!Hit
    <3>. QED  BY <2>1, <3>1
  <2>3. CASE ~Cache!Hit(f)
    <3>1. /\ cache_active' = cache_active \cup {f}
          /\ cache_tree' = [cache_tree EXCEPT ![cache_dest][f] = 0]
      BY <1>5, <2>3 DEF Cache!Start
    <3>2. \A g \in cache_Files : g # f => cache_tree'[cache_dest][g] = cache_tree[cache_dest][g]
      BY <3>1, CacheStore
    <3>. QED  BY <2>1, <3>1, <3>2
  <2>. QED  BY <2>2, <2>3
<1>6. ASSUME NEW f \in cache_Files, Cache!Stored(f) PROVE CacheOnItsWay'
  <2>1. /\ UNCHANGED <<cache_pc, cache_dest, cache_want, cache_queue, cache_failures>>
        /\ UNCHANGED <<cache_pending, cache_rev>> /\ cache_active' = cache_active \ {f}
        /\ cache_tree' = [cache_tree EXCEPT ![cache_dest][f] = cache_remote[cache_rev][f]]
        /\ f \in cache_Hashed => cache_remote[cache_rev][f] = cache_want[f]
    BY <1>6 DEF Cache!Stored, Cache!Ends
  <2>2. cache_remote[cache_rev][f] \in 0..2 /\ cache_remote[cache_rev][f] # 0
    BY CacheRemote
  <2>3. /\ cache_tree'[cache_dest][f] = cache_remote[cache_rev][f]
        /\ \A g \in cache_Files : g # f => cache_tree'[cache_dest][g] = cache_tree[cache_dest][g]
    <3>1. cache_tree \in [Cache!Places -> Cache!Copies] /\ cache_dest \in Cache!Places
      OBVIOUS
    <3>. HIDE DEF CacheInv, CacheTypes, CacheOnItsWay, CacheGood, CachePool, CacheTrees,
         CacheCall, CacheQueues
    <3>. QED  BY <2>1, <2>2, <3>1, CacheStore
  <2>. QED  BY <2>1, <2>2, <2>3
<1>7. ASSUME NEW f \in cache_Files, Cache!Failed(f) PROVE CacheOnItsWay'
  BY <1>7 DEF Cache!Failed, Cache!Ends
<1>8. ASSUME NEW f \in cache_Files, Cache!Collect(f) PROVE CacheOnItsWay'
  BY <1>8 DEF Cache!Collect
<1>9. CASE Cache!Interrupt
  BY <1>9 DEF Cache!Interrupt
<1>10. CASE Cache!Stopped
  BY <1>10 DEF Cache!Stopped, Cache!Raise
<1>11. CASE Cache!Done
  BY <1>11 DEF Cache!Done, Cache!Complete
<1>12. CASE Cache!Crash
  BY <1>12 DEF Cache!Crash, Cache!Raise
<1>13. ASSUME NEW r \in cache_Revisions \cup {Cache!None}, Cache!Offline(r) \/ \E f \in
   cache_Files : Cache!OfflineFile(r, f) PROVE CacheOnItsWay'
  BY <1>13 DEF Cache!Offline, Cache!OfflineFile, Cache!Found1, Cache!Idle
<1>14. CASE Cache!ClearRepo \/ Cache!ClearType
  BY <1>14 DEF Cache!ClearRepo, Cache!ClearType, Cache!Clear, Cache!Idle
<1>15. CASE UNCHANGED Cache!vars
  BY <1>15 DEF Cache!vars
<1>. QED  BY <1>1, <1>2, <1>3, <1>4, <1>5, <1>6, <1>7, <1>8, <1>9, <1>10, <1>11, <1>12, <1>13,
   <1>14, <1>15 DEF Cache!Next, Cache!Rest

\* What is said of a call that has ended stays so.
LEMMA CacheEndedKept ==
  ASSUME CacheInv, Cache!Next
  PROVE  CacheEnded'
<1>0. cache_dest \in Cache!Places
  BY DEF CacheInv, CacheTypes, CacheCall
<1>. USE CacheBounds DEF CacheInv, CacheTypes, CacheEnded, CacheOnItsWay, CacheGood, CachePool,
   Cache!TypeOK, Cache!None, Cache!call, Cache!pool
<1>1. ASSUME NEW r \in cache_Revisions, Cache!Begin(r) PROVE CacheEnded'
  BY <1>1 DEF Cache!Begin, Cache!Idle
<1>2. ASSUME NEW r \in cache_Revisions, NEW f \in cache_Files, Cache!Publish(r, f) PROVE CacheEnded'
  BY <1>2 DEF Cache!Publish
<1>3. ASSUME NEW sel \in SUBSET cache_Files, Cache!List(sel) PROVE CacheEnded'
  BY <1>3 DEF Cache!List, Cache!Listing
<1>4. CASE Cache!ListFails
  BY <1>4 DEF Cache!ListFails, Cache!Raise
<1>5. ASSUME NEW f \in cache_Files, Cache!Start(f) PROVE CacheEnded'
  BY <1>5 DEF Cache!Start, Cache!Hit
<1>6. ASSUME NEW f \in cache_Files, Cache!Stored(f) PROVE CacheEnded'
  BY <1>6 DEF Cache!Stored, Cache!Ends
<1>7. ASSUME NEW f \in cache_Files, Cache!Failed(f) PROVE CacheEnded'
  BY <1>7 DEF Cache!Failed, Cache!Ends
<1>8. ASSUME NEW f \in cache_Files, Cache!Collect(f) PROVE CacheEnded'
  BY <1>8 DEF Cache!Collect
<1>9. CASE Cache!Interrupt
  BY <1>9 DEF Cache!Interrupt
<1>10. CASE Cache!Stopped
  BY <1>10 DEF Cache!Stopped, Cache!Raise
<1>11. CASE Cache!Done
  <2>1. CASE cache_failures = {}
    <3>1. /\ cache_outcome' = "ok" /\ cache_place' = cache_dest /\ cache_pc' = "idle"
          /\ UNCHANGED <<cache_tree, cache_want>>
      BY <1>11, <2>1 DEF Cache!Done, Cache!Complete
    <3>2. cache_pc = "run" /\ cache_pending \cup cache_active \cup cache_completed = {}
      BY <1>11 DEF Cache!Done
    <3>3. \A f \in cache_Files : cache_want[f] = 0 \/ CacheGood(cache_dest, f)
      BY <2>1, <3>2
    <3>4. \A f \in cache_Files : (cache_want[f] = 0 \/ CacheGood(cache_place, f))'
      BY <3>1, <3>3
    <3>. HIDE DEF CacheInv, CacheTypes, CacheOnItsWay, CacheGood, CachePool, CacheTrees,
         CacheCall, CacheQueues
    <3>. QED  BY <3>1, <3>4, <1>0
  <2>2. CASE cache_failures # {}
    BY <1>11, <2>2 DEF Cache!Done, Cache!Complete
  <2>. QED  BY <2>1, <2>2
<1>12. CASE Cache!Crash
  BY <1>12 DEF Cache!Crash, Cache!Raise
<1>13. ASSUME NEW r \in cache_Revisions \cup {Cache!None}, Cache!Offline(r) \/ \E f \in
   cache_Files : Cache!OfflineFile(r, f) PROVE CacheEnded'
  BY <1>13 DEF Cache!Offline, Cache!OfflineFile, Cache!Found1, Cache!Idle
<1>14. CASE Cache!ClearRepo \/ Cache!ClearType
  <2>1. CASE cache_outcome' # "cleared"
    BY <1>14, <2>1 DEF Cache!ClearRepo, Cache!ClearType, Cache!Clear, Cache!Idle
  <2>2. CASE cache_outcome' = "cleared"
    <3>1. Cache!Remove(Cache!Targets, Len(Cache!Targets), {}) /\ UNCHANGED cache_pc
      BY <1>14, <2>2 DEF Cache!ClearRepo, Cache!ClearType, Cache!Clear
    <3>2. /\ Len(Cache!Targets) = 3 /\ Cache!Targets[1] = cache_Revisions
          /\ Cache!Targets[2] = {"flat"} /\ Cache!Targets[3] = {"hub_flat"}
      BY DEF Cache!Targets
    <3>3. \A p \in cache_Revisions \cup {"flat", "hub_flat"} :
            \E i \in 1..3 : p \in Cache!Targets[i]
      BY <3>2
    <3>4. \A p \in cache_Revisions \cup {"flat", "hub_flat"} : \A f \in cache_Files :
            cache_tree'[p][f] = 0
      BY <3>1, <3>2, <3>3 DEF Cache!Remove
    <3>. QED  BY <1>14, <2>2, <3>4 DEF Cache!ClearRepo, Cache!ClearType, Cache!Clear, Cache!Idle
  <2>. QED  BY <2>1, <2>2
<1>15. CASE UNCHANGED Cache!vars
  BY <1>15 DEF Cache!vars
<1>. QED  BY <1>1, <1>2, <1>3, <1>4, <1>5, <1>6, <1>7, <1>8, <1>9, <1>10, <1>11, <1>12, <1>13,
   <1>14, <1>15 DEF Cache!Next, Cache!Rest

\* The invariant gives what is said of downloaded snapshots and of cleared repositories.
LEMMA CacheGives ==
  CacheInv => Cache!TypeOK /\ Cache!SnapshotIsWhole /\ Cache!ClearedIsUnreported
<1>. SUFFICES ASSUME CacheInv
             PROVE  Cache!TypeOK /\ Cache!SnapshotIsWhole /\ Cache!ClearedIsUnreported
  OBVIOUS
<1>1. Cache!TypeOK
  <2>1. CacheTrees /\ CacheCall /\ CacheQueues /\ CacheOutcome
    BY DEF CacheInv, CacheTypes
  <2>2. Cardinality(cache_pending \cup cache_active \cup cache_completed) <= Cache!PoolWindow
    BY DEF CacheInv, CacheTypes
  <2>3. Cache!Cardinality(cache_pending \cup cache_active \cup cache_completed)
          <= Cache!PoolWindow
    BY <2>2, CacheCardinality
  <2>. QED  BY <2>1, <2>3, Zenon DEF CacheQueues, CacheTrees, CacheCall, CacheOutcome,
            Cache!TypeOK
<1>2. Cache!SnapshotIsWhole
  BY DEF CacheInv, CacheEnded, CacheGood, Cache!SnapshotIsWhole
<1>3. Cache!ClearedIsUnreported
  BY DEF CacheInv, CacheEnded, Cache!ClearedIsUnreported, Cache!Scanned, Cache!Snapshots,
     Cache!Entries
<1>. QED  BY <1>1, <1>2, <1>3

\* For any number of files, workers, revisions and commits: what the pool of a download holds
\* of its listing, and what a call that has ended leaves in the cache.
THEOREM CacheKept == Cache!Spec => []CacheInv
<1>1. CacheInv /\ [Cache!Next]_Cache!vars => CacheInv'
  <2>. SUFFICES ASSUME CacheInv, [Cache!Next]_Cache!vars PROVE CacheInv'
    OBVIOUS
  <2>1. CASE Cache!Next
    BY <2>1, CacheTypesKept, CachePoolKept, CacheOnItsWayKept, CacheEndedKept DEF CacheInv
  <2>2. CASE UNCHANGED Cache!vars
    <3>. USE <2>2 DEF CacheInv, Cache!vars, Cache!call, Cache!pool
    <3>1. CacheTypes'
      BY DEF CacheTypes, CacheTrees, CacheCall, CacheQueues, CacheOutcome
    <3>2. CachePool'
      BY DEF CachePool
    <3>3. CacheOnItsWay'
      BY DEF CacheOnItsWay, CacheGood
    <3>4. CacheEnded'
      BY DEF CacheEnded, CacheGood
    <3>. QED  BY <3>1, <3>2, <3>3, <3>4
  <2>. QED  BY <2>1, <2>2
<1>. QED  BY <1>1, CacheInit, PTL DEF Cache!Spec

-----------------------------------------------------------------------------
(* The lock of a download where there is no flock.  A lock file outlives its   *)
(* process, and a waiter with a limit above the stale age may remove it.       *)

LockTypes ==
  /\ lock_now \in 0..lock_MaxNow /\ lock_made \in 0..Lock!NoFile
  /\ lock_crashes \in 0..lock_MaxCrashes /\ lock_outstayed \in BOOLEAN
  /\ lock_limit \in [lock_Procs -> lock_Limits]
  /\ lock_pc \in [lock_Procs -> {"idle", "try", "stat", "unlink", "hold", "gaveup"}]
  /\ lock_soft \in [lock_Procs -> BOOLEAN]
  /\ lock_since \in [lock_Procs -> 0..lock_MaxNow]
  /\ lock_base \in [lock_Procs -> 0..lock_MaxNow]
  /\ lock_tried \subseteq lock_Procs /\ lock_behind \subseteq lock_Procs

\* Nothing is of a later time.
LockClock ==
  /\ lock_made # Lock!NoFile => lock_made <= lock_now
  /\ \A p \in lock_Procs : lock_since[p] <= lock_now /\ lock_base[p] <= lock_now

\* A wait begins no earlier than its counting, and where no limit is above the stale age it
\* ends before a file's age is looked at.
LockDefault == \A p \in lock_Procs : lock_limit[p] <= lock_Stale
LockCounts ==
  \A p \in lock_Procs :
    /\ lock_pc[p] \in {"try", "stat", "unlink"} => lock_since[p] <= lock_base[p]
    /\ lock_pc[p] = "stat" => ~LockDefault

\* As long as no holder has died or stayed too long, or else by default, nobody removes the
\* file of the one holder.
LockCalm  == lock_crashes = 0 /\ ~lock_outstayed
LockYoung ==
  LockCalm =>
    \A p \in lock_Procs : lock_pc[p] = "hold" => lock_now - lock_since[p] < lock_Stale
LockLive ==
  LockCalm \/ LockDefault =>
    \A p \in lock_Procs :
      /\ lock_pc[p] # "unlink"
      /\ lock_pc[p] = "hold" =>
           /\ lock_made = lock_since[p]
           /\ \A q \in lock_Procs : lock_pc[q] = "hold" => q = p
LockFree ==
  LockCalm /\ (\A p \in lock_Procs : lock_pc[p] # "hold") => lock_made = Lock!NoFile

\* A waiter that nobody held the lock before.
LockAlone(p) == lock_pc[p] \in {"try", "stat", "unlink"} /\ p \notin lock_behind

\* The file that keeps it waiting is of a dead process and older than its wait, and one
\* attempt after the file looks stale it is gone.
LockWait(p) ==
  /\ \A q \in lock_Procs : lock_pc[q] # "hold"
  /\ lock_made # Lock!NoFile =>
       /\ lock_made <= lock_since[p] /\ lock_base[p] = lock_since[p]
       /\ lock_now - lock_since[p] <= lock_Stale
       /\ lock_pc[p] = "try" /\ p \in lock_tried => lock_now - lock_since[p] < lock_Stale
       /\ lock_pc[p] = "stat" => lock_now - lock_since[p] = lock_Stale
  /\ lock_made = Lock!NoFile =>
       /\ lock_now - lock_since[p] <= lock_Stale + 1
       /\ p \in lock_tried \/ lock_pc[p] # "try" => lock_now - lock_since[p] <= lock_Stale
LockWaits == \A p \in lock_Procs : LockAlone(p) => LockWait(p)

LockEnded ==
  \A p \in lock_Procs :
    lock_pc[p] = "gaveup" /\ lock_limit[p] >= lock_Stale + 2 => p \in lock_behind

LockInv ==
  /\ LockTypes /\ LockClock /\ LockCounts /\ LockYoung /\ LockLive /\ LockFree
  /\ LockWaits /\ LockEnded

LEMMA LockBounds ==
  /\ lock_MaxNow \in Nat /\ lock_Stale \in Nat /\ lock_Stale >= 1
  /\ lock_MaxCrashes \in Nat /\ Lock!NoFile = lock_MaxNow + 1
BY LockOK DEF Lock!ConstantsOK, Lock!NoFile

LEMMA LockLimits == ASSUME LockTypes, NEW p \in lock_Procs PROVE lock_limit[p] \in Int
<1>1. lock_limit[p] \in lock_Limits
  BY DEF LockTypes
<1>2. \A x \in lock_Limits : x \in Int
  BY LockOK DEF Lock!ConstantsOK
<1>. QED  BY <1>1, <1>2

\* One entry of a function is changed.
LEMMA LockUpdate ==
  ASSUME NEW S, NEW f \in [lock_Procs -> S], NEW p \in lock_Procs, NEW v \in S
  PROVE  /\ [f EXCEPT ![p] = v] \in [lock_Procs -> S]
         /\ [f EXCEPT ![p] = v][p] = v
         /\ \A q \in lock_Procs : q # p => [f EXCEPT ![p] = v][q] = f[q]
OBVIOUS

LEMMA LockInit == Lock!Init => LockInv
<1>. SUFFICES ASSUME Lock!Init PROVE LockInv
  OBVIOUS
<1>1. LockTypes
  <2>1. lock_limit \in [lock_Procs -> lock_Limits]
    BY DEF Lock!Init
  <2>2. /\ lock_now \in 0..lock_MaxNow /\ lock_made \in 0..Lock!NoFile
        /\ lock_crashes \in 0..lock_MaxCrashes
    <3>. lock_now = 0 /\ lock_made = Lock!NoFile /\ lock_crashes = 0
      BY DEF Lock!Init
    <3>. QED  BY LockBounds
  <2>3. /\ lock_pc \in [lock_Procs -> {"idle"}] /\ lock_soft \in [lock_Procs -> BOOLEAN]
        /\ lock_tried \subseteq lock_Procs /\ lock_behind \subseteq lock_Procs
    BY DEF Lock!Init
  <2>4. lock_since \in [lock_Procs -> 0..lock_MaxNow] /\ lock_base \in [lock_Procs -> 0..lock_MaxNow]
    BY LockBounds DEF Lock!Init
  <2>5. lock_outstayed \in BOOLEAN
    BY Zenon DEF Lock!Init
  <2>. QED  BY <2>1, <2>2, <2>3, <2>4, <2>5 DEF LockTypes
<1>2. LockClock
  BY LockBounds DEF Lock!Init, LockClock
<1>3. LockCounts /\ LockYoung /\ LockLive /\ LockFree /\ LockWaits /\ LockEnded
  BY DEF Lock!Init, LockCounts, LockYoung, LockLive, LockFree, LockWaits, LockAlone, LockEnded
<1>. QED  BY <1>1, <1>2, <1>3 DEF LockInv

\* A step keeps the types ...
LEMMA LockTypesKept ==
  ASSUME LockInv, Lock!Next
  PROVE  LockTypes'
<1>. USE LockBounds DEF LockInv, LockTypes, Lock!Go, Lock!locals, Lock!past
<1>1. ASSUME NEW p \in lock_Procs, Lock!Start(p) PROVE LockTypes'
  BY <1>1 DEF Lock!Start
<1>2. ASSUME NEW p \in lock_Procs, Lock!GiveUp(p) PROVE LockTypes'
  BY <1>2 DEF Lock!GiveUp
<1>3. ASSUME NEW p \in lock_Procs, Lock!FallBack(p) PROVE LockTypes'
  BY <1>3 DEF Lock!FallBack
<1>4. ASSUME NEW p \in lock_Procs, Lock!Acquire(p) PROVE LockTypes'
  BY <1>4 DEF Lock!Acquire, Lock!Waiting, Lock!At
<1>5. ASSUME NEW p \in lock_Procs, Lock!TimesOut(p) PROVE LockTypes'
  BY <1>5 DEF Lock!TimesOut
<1>6. ASSUME NEW p \in lock_Procs, Lock!Stat(p) PROVE LockTypes'
  BY <1>6 DEF Lock!Stat, Lock!LooksStale
<1>7. ASSUME NEW p \in lock_Procs, Lock!Unlink(p) PROVE LockTypes'
  BY <1>7, LockUpdate DEF Lock!Unlink
<1>8. ASSUME NEW p \in lock_Procs, Lock!Release(p) PROVE LockTypes'
  BY <1>8 DEF Lock!Release
<1>9. ASSUME NEW p \in lock_Procs, Lock!Crash(p) PROVE LockTypes'
  BY <1>9 DEF Lock!Crash
<1>10. CASE Lock!Tick
  BY <1>10 DEF Lock!Tick
<1>11. CASE UNCHANGED Lock!vars
  BY <1>11 DEF Lock!vars
<1>12. ASSUME NEW p \in lock_Procs, Lock!Leave(p) PROVE LockTypes'
  BY <1>12 DEF Lock!Leave
<1>. QED  BY <1>1, <1>2, <1>3, <1>4, <1>5, <1>6, <1>7, <1>8, <1>9, <1>10, <1>11, <1>12 DEF
   Lock!Next, Lock!Rest

\* ... and the order of the times.
LEMMA LockClockKept ==
  ASSUME LockInv, Lock!Next
  PROVE  LockClock'
<1>. USE LockBounds DEF LockInv, LockTypes, LockClock, Lock!Go, Lock!locals, Lock!past
<1>1. ASSUME NEW p \in lock_Procs, Lock!Start(p) PROVE LockClock'
  BY <1>1 DEF Lock!Start
<1>2. ASSUME NEW p \in lock_Procs, Lock!GiveUp(p) PROVE LockClock'
  BY <1>2 DEF Lock!GiveUp
<1>3. ASSUME NEW p \in lock_Procs, Lock!FallBack(p) PROVE LockClock'
  BY <1>3 DEF Lock!FallBack
<1>4. ASSUME NEW p \in lock_Procs, Lock!Acquire(p) PROVE LockClock'
  BY <1>4 DEF Lock!Acquire
<1>5. ASSUME NEW p \in lock_Procs, Lock!TimesOut(p) PROVE LockClock'
  BY <1>5 DEF Lock!TimesOut
<1>6. ASSUME NEW p \in lock_Procs, Lock!Stat(p) PROVE LockClock'
  BY <1>6 DEF Lock!Stat
<1>7. ASSUME NEW p \in lock_Procs, Lock!Unlink(p) PROVE LockClock'
  BY <1>7 DEF Lock!Unlink
<1>8. ASSUME NEW p \in lock_Procs, Lock!Release(p) PROVE LockClock'
  BY <1>8 DEF Lock!Release
<1>9. ASSUME NEW p \in lock_Procs, Lock!Crash(p) PROVE LockClock'
  BY <1>9 DEF Lock!Crash
<1>10. CASE Lock!Tick
  BY <1>10 DEF Lock!Tick
<1>11. CASE UNCHANGED Lock!vars
  BY <1>11 DEF Lock!vars
<1>12. ASSUME NEW p \in lock_Procs, Lock!Leave(p) PROVE LockClock'
  BY <1>12 DEF Lock!Leave
<1>. QED  BY <1>1, <1>2, <1>3, <1>4, <1>5, <1>6, <1>7, <1>8, <1>9, <1>10, <1>11, <1>12 DEF
   Lock!Next, Lock!Rest

\* A wait is counted from its beginning or later, and by default ends before a file is
\* looked at.
LEMMA LockCountsKept ==
  ASSUME LockInv, Lock!Next
  PROVE  LockCounts'
<1>. USE LockBounds DEF LockInv, LockTypes, LockClock, LockCounts, LockDefault,
   Lock!Go, Lock!locals, Lock!past
<1>1. ASSUME NEW p \in lock_Procs, Lock!Start(p) PROVE LockCounts'
  BY <1>1 DEF Lock!Start
<1>2. ASSUME NEW p \in lock_Procs, Lock!GiveUp(p) PROVE LockCounts'
  BY <1>2 DEF Lock!GiveUp
<1>3. ASSUME NEW p \in lock_Procs, Lock!FallBack(p) PROVE LockCounts'
  BY <1>3 DEF Lock!FallBack
<1>4. ASSUME NEW p \in lock_Procs, Lock!Acquire(p) PROVE LockCounts'
  BY <1>4 DEF Lock!Acquire
<1>5. ASSUME NEW p \in lock_Procs, Lock!TimesOut(p) PROVE LockCounts'
  <2>1. ~(LockDefault /\ lock_now - lock_base[p] >= lock_Stale)
    <3>1. lock_since[p] <= lock_base[p] /\ ~(lock_now - lock_since[p] >= lock_limit[p])
      BY <1>5 DEF Lock!TimesOut, Lock!Expired
    <3>2. /\ lock_now \in Int /\ lock_since[p] \in Int /\ lock_base[p] \in Int
          /\ lock_limit[p] \in Int /\ lock_Stale \in Int
      BY LockLimits
    <3>. QED  BY <3>1, <3>2
  <2>2. lock_pc'[p] = "stat" => ~LockDefault'
    BY <1>5, <2>1 DEF Lock!TimesOut
  <2>3. lock_pc'[p] \in {"try", "stat"} /\ \A q \in lock_Procs : q # p => lock_pc'[q] = lock_pc[q]
    BY <1>5 DEF Lock!TimesOut
  <2>4. UNCHANGED <<lock_since, lock_base, lock_limit>> /\ lock_pc[p] = "try"
    BY <1>5 DEF Lock!TimesOut
  <2>. QED  BY <2>2, <2>3, <2>4
<1>6. ASSUME NEW p \in lock_Procs, Lock!Stat(p) PROVE LockCounts'
  BY <1>6 DEF Lock!Stat
<1>7. ASSUME NEW p \in lock_Procs, Lock!Unlink(p) PROVE LockCounts'
  BY <1>7 DEF Lock!Unlink
<1>8. ASSUME NEW p \in lock_Procs, Lock!Release(p) PROVE LockCounts'
  BY <1>8 DEF Lock!Release
<1>9. ASSUME NEW p \in lock_Procs, Lock!Crash(p) PROVE LockCounts'
  BY <1>9 DEF Lock!Crash
<1>10. CASE Lock!Tick
  BY <1>10 DEF Lock!Tick
<1>11. CASE UNCHANGED Lock!vars
  BY <1>11 DEF Lock!vars
<1>12. ASSUME NEW p \in lock_Procs, Lock!Leave(p) PROVE LockCounts'
  BY <1>12 DEF Lock!Leave
<1>. QED  BY <1>1, <1>2, <1>3, <1>4, <1>5, <1>6, <1>7, <1>8, <1>9, <1>10, <1>11, <1>12 DEF
   Lock!Next, Lock!Rest

\* A holder is young until one has stayed too long.
LEMMA LockYoungKept ==
  ASSUME LockInv, Lock!Next
  PROVE  LockYoung'
<1>. USE LockBounds DEF LockInv, LockTypes, LockClock, LockYoung, LockCalm,
   Lock!Go, Lock!locals, Lock!past
<1>1. ASSUME NEW p \in lock_Procs, Lock!Start(p) PROVE LockYoung'
  BY <1>1 DEF Lock!Start
<1>2. ASSUME NEW p \in lock_Procs, Lock!GiveUp(p) PROVE LockYoung'
  BY <1>2 DEF Lock!GiveUp
<1>3. ASSUME NEW p \in lock_Procs, Lock!FallBack(p) PROVE LockYoung'
  BY <1>3 DEF Lock!FallBack
<1>4. ASSUME NEW p \in lock_Procs, Lock!Acquire(p) PROVE LockYoung'
  BY <1>4 DEF Lock!Acquire
<1>5. ASSUME NEW p \in lock_Procs, Lock!TimesOut(p) PROVE LockYoung'
  BY <1>5 DEF Lock!TimesOut
<1>6. ASSUME NEW p \in lock_Procs, Lock!Stat(p) PROVE LockYoung'
  BY <1>6 DEF Lock!Stat
<1>7. ASSUME NEW p \in lock_Procs, Lock!Unlink(p) PROVE LockYoung'
  BY <1>7 DEF Lock!Unlink
<1>8. ASSUME NEW p \in lock_Procs, Lock!Release(p) PROVE LockYoung'
  BY <1>8 DEF Lock!Release
<1>9. ASSUME NEW p \in lock_Procs, Lock!Crash(p) PROVE LockYoung'
  BY <1>9 DEF Lock!Crash
<1>10. CASE Lock!Tick
  <2>. SUFFICES ASSUME LockCalm', NEW p \in lock_Procs, lock_pc'[p] = "hold"
                PROVE  lock_now' - lock_since'[p] < lock_Stale
    OBVIOUS
  <2>1. lock_since'[p] = lock_since[p] /\ ~(lock_now' - lock_since[p] >= lock_Stale)
    BY <1>10 DEF Lock!Tick, Lock!At
  <2>2. lock_now' \in Int /\ lock_since[p] \in Int
    BY <1>10 DEF Lock!Tick
  <2>. QED  BY <2>1, <2>2
<1>11. CASE UNCHANGED Lock!vars
  BY <1>11 DEF Lock!vars
<1>12. ASSUME NEW p \in lock_Procs, Lock!Leave(p) PROVE LockYoung'
  BY <1>12 DEF Lock!Leave
<1>. QED  BY <1>1, <1>2, <1>3, <1>4, <1>5, <1>6, <1>7, <1>8, <1>9, <1>10, <1>11, <1>12 DEF
   Lock!Next, Lock!Rest

\* Nobody removes the file of a holder, and so no second one gets in.
LEMMA LockLiveKept ==
  ASSUME LockInv, Lock!Next
  PROVE  LockLive'
<1>. USE LockBounds DEF LockInv, LockTypes, LockClock, LockCounts,
   LockYoung, LockLive, LockFree, LockCalm, LockDefault, Lock!Go, Lock!locals, Lock!past
<1>1. ASSUME NEW p \in lock_Procs, Lock!Start(p) PROVE LockLive'
  BY <1>1 DEF Lock!Start
<1>2. ASSUME NEW p \in lock_Procs, Lock!GiveUp(p) PROVE LockLive'
  BY <1>2 DEF Lock!GiveUp
<1>3. ASSUME NEW p \in lock_Procs, Lock!FallBack(p) PROVE LockLive'
  BY <1>3 DEF Lock!FallBack
<1>4. ASSUME NEW p \in lock_Procs, Lock!Acquire(p) PROVE LockLive'
  BY <1>4 DEF Lock!Acquire
<1>5. ASSUME NEW p \in lock_Procs, Lock!TimesOut(p) PROVE LockLive'
  BY <1>5 DEF Lock!TimesOut
<1>6. ASSUME NEW p \in lock_Procs, Lock!Stat(p) PROVE LockLive'
  BY <1>6 DEF Lock!Stat, Lock!LooksStale
<1>7. ASSUME NEW p \in lock_Procs, Lock!Unlink(p) PROVE LockLive'
  BY <1>7 DEF Lock!Unlink
<1>8. ASSUME NEW p \in lock_Procs, Lock!Release(p) PROVE LockLive'
  BY <1>8 DEF Lock!Release
<1>9. ASSUME NEW p \in lock_Procs, Lock!Crash(p) PROVE LockLive'
  BY <1>9 DEF Lock!Crash
<1>10. CASE Lock!Tick
  BY <1>10 DEF Lock!Tick, Lock!At
<1>11. CASE UNCHANGED Lock!vars
  BY <1>11 DEF Lock!vars
<1>12. ASSUME NEW p \in lock_Procs, Lock!Leave(p) PROVE LockLive'
  BY <1>12 DEF Lock!Leave
<1>. QED  BY <1>1, <1>2, <1>3, <1>4, <1>5, <1>6, <1>7, <1>8, <1>9, <1>10, <1>11, <1>12 DEF
   Lock!Next, Lock!Rest

\* A lock that nobody holds has no file before one has died.
LEMMA LockFreeKept ==
  ASSUME LockInv, Lock!Next
  PROVE  LockFree'
<1>. USE LockBounds DEF LockInv, LockTypes, LockLive, LockFree, LockCalm,
   Lock!Go, Lock!locals, Lock!past
<1>1. ASSUME NEW p \in lock_Procs, Lock!Start(p) PROVE LockFree'
  BY <1>1 DEF Lock!Start
<1>2. ASSUME NEW p \in lock_Procs, Lock!GiveUp(p) PROVE LockFree'
  BY <1>2 DEF Lock!GiveUp
<1>3. ASSUME NEW p \in lock_Procs, Lock!FallBack(p) PROVE LockFree'
  BY <1>3 DEF Lock!FallBack
<1>4. ASSUME NEW p \in lock_Procs, Lock!Acquire(p) PROVE LockFree'
  BY <1>4 DEF Lock!Acquire
<1>5. ASSUME NEW p \in lock_Procs, Lock!TimesOut(p) PROVE LockFree'
  BY <1>5 DEF Lock!TimesOut
<1>6. ASSUME NEW p \in lock_Procs, Lock!Stat(p) PROVE LockFree'
  BY <1>6 DEF Lock!Stat
<1>7. ASSUME NEW p \in lock_Procs, Lock!Unlink(p) PROVE LockFree'
  BY <1>7 DEF Lock!Unlink
<1>8. ASSUME NEW p \in lock_Procs, Lock!Release(p) PROVE LockFree'
  BY <1>8 DEF Lock!Release
<1>9. ASSUME NEW p \in lock_Procs, Lock!Crash(p) PROVE LockFree'
  BY <1>9 DEF Lock!Crash
<1>10. CASE Lock!Tick
  BY <1>10 DEF Lock!Tick
<1>11. CASE UNCHANGED Lock!vars
  BY <1>11 DEF Lock!vars
<1>12. ASSUME NEW p \in lock_Procs, Lock!Leave(p) PROVE LockFree'
  BY <1>12 DEF Lock!Leave
<1>. QED  BY <1>1, <1>2, <1>3, <1>4, <1>5, <1>6, <1>7, <1>8, <1>9, <1>10, <1>11, <1>12 DEF
   Lock!Next, Lock!Rest

\* A step leaves a waiter that nobody held the lock before with its times.
LEMMA LockWaitsKept ==
  ASSUME LockInv, Lock!Next
  PROVE  LockWaits'
<1>. USE LockBounds DEF LockInv, LockTypes, LockClock, LockWaits, LockAlone, LockWait, Lock!Go,
   Lock!locals, Lock!past
<1>1. ASSUME NEW p \in lock_Procs, Lock!Start(p) PROVE LockWaits'
  BY <1>1 DEF Lock!Start, Lock!At
<1>2. ASSUME NEW p \in lock_Procs, Lock!GiveUp(p) PROVE LockWaits'
  BY <1>2 DEF Lock!GiveUp
<1>3. ASSUME NEW p \in lock_Procs, Lock!FallBack(p) PROVE LockWaits'
  BY <1>3 DEF Lock!FallBack
<1>4. ASSUME NEW p \in lock_Procs, Lock!Acquire(p) PROVE LockWaits'
  BY <1>4 DEF Lock!Acquire, Lock!At, Lock!Waiting
<1>5. ASSUME NEW p \in lock_Procs, Lock!TimesOut(p) PROVE LockWaits'
  BY <1>5 DEF Lock!TimesOut
<1>6. ASSUME NEW p \in lock_Procs, Lock!Stat(p) PROVE LockWaits'
  BY <1>6 DEF Lock!Stat, Lock!LooksStale
<1>7. ASSUME NEW p \in lock_Procs, Lock!Unlink(p) PROVE LockWaits'
  BY <1>7 DEF Lock!Unlink
<1>8. ASSUME NEW p \in lock_Procs, Lock!Release(p) PROVE LockWaits'
  BY <1>8 DEF Lock!Release
<1>9. ASSUME NEW p \in lock_Procs, Lock!Crash(p) PROVE LockWaits'
  BY <1>9 DEF Lock!Crash
<1>10. CASE Lock!Tick
  BY <1>10 DEF Lock!Tick, Lock!At
<1>11. CASE UNCHANGED Lock!vars
  BY <1>11 DEF Lock!vars
<1>12. ASSUME NEW p \in lock_Procs, Lock!Leave(p) PROVE LockWaits'
  BY <1>12 DEF Lock!Leave
<1>. QED  BY <1>1, <1>2, <1>3, <1>4, <1>5, <1>6, <1>7, <1>8, <1>9, <1>10, <1>11, <1>12 DEF
   Lock!Next, Lock!Rest

\* One that gives up was behind a download.
LEMMA LockEndedKept ==
  ASSUME LockInv, Lock!Next
  PROVE  LockEnded'
<1>. USE LockBounds DEF LockInv, LockTypes, LockWaits, LockAlone, LockWait, LockEnded,
   Lock!Go, Lock!locals, Lock!past
<1>1. ASSUME NEW p \in lock_Procs, Lock!Start(p) PROVE LockEnded'
  BY <1>1 DEF Lock!Start
<1>2. ASSUME NEW p \in lock_Procs, Lock!GiveUp(p) PROVE LockEnded'
  <2>1. ASSUME lock_limit[p] >= lock_Stale + 2 PROVE p \in lock_behind
    <3>1. lock_pc[p] = "try" /\ lock_now - lock_since[p] >= lock_limit[p]
      BY <1>2 DEF Lock!GiveUp, Lock!Expired
    <3>2. lock_now \in Int /\ lock_since[p] \in Int /\ lock_limit[p] \in Int
      BY LockLimits
    <3>3. p \notin lock_behind => lock_now - lock_since[p] <= lock_Stale + 1
      BY <3>1, <3>2
    <3>. QED  BY <2>1, <3>1, <3>2, <3>3
  <2>. QED  BY <1>2, <2>1 DEF Lock!GiveUp
<1>3. ASSUME NEW p \in lock_Procs, Lock!FallBack(p) PROVE LockEnded'
  BY <1>3 DEF Lock!FallBack
<1>4. ASSUME NEW p \in lock_Procs, Lock!Acquire(p) PROVE LockEnded'
  BY <1>4 DEF Lock!Acquire, Lock!Waiting, Lock!At
<1>5. ASSUME NEW p \in lock_Procs, Lock!TimesOut(p) PROVE LockEnded'
  BY <1>5 DEF Lock!TimesOut
<1>6. ASSUME NEW p \in lock_Procs, Lock!Stat(p) PROVE LockEnded'
  BY <1>6 DEF Lock!Stat
<1>7. ASSUME NEW p \in lock_Procs, Lock!Unlink(p) PROVE LockEnded'
  BY <1>7 DEF Lock!Unlink
<1>8. ASSUME NEW p \in lock_Procs, Lock!Release(p) PROVE LockEnded'
  BY <1>8 DEF Lock!Release
<1>9. ASSUME NEW p \in lock_Procs, Lock!Crash(p) PROVE LockEnded'
  BY <1>9 DEF Lock!Crash
<1>10. CASE Lock!Tick
  BY <1>10 DEF Lock!Tick
<1>11. CASE UNCHANGED Lock!vars
  BY <1>11 DEF Lock!vars
<1>12. ASSUME NEW p \in lock_Procs, Lock!Leave(p) PROVE LockEnded'
  BY <1>12 DEF Lock!Leave
<1>. QED  BY <1>1, <1>2, <1>3, <1>4, <1>5, <1>6, <1>7, <1>8, <1>9, <1>10, <1>11, <1>12 DEF
   Lock!Next, Lock!Rest

\* For any number of processes and deaths: what the times of a lock file and of its waiters
\* are to each other.
THEOREM LockHolds == Lock!Spec => []LockInv
<1>1. LockInv /\ [Lock!Next]_Lock!vars => LockInv'
  <2>. SUFFICES ASSUME LockInv, [Lock!Next]_Lock!vars PROVE LockInv'
    OBVIOUS
  <2>1. CASE Lock!Next
    BY <2>1, LockTypesKept, LockClockKept, LockCountsKept, LockYoungKept, LockLiveKept,
       LockFreeKept, LockWaitsKept, LockEndedKept DEF LockInv
  <2>2. CASE UNCHANGED Lock!vars
    BY <2>2 DEF Lock!vars, Lock!locals, Lock!past, LockInv, LockTypes, LockClock, LockCounts,
       LockYoung, LockLive, LockFree, LockCalm, LockDefault, LockWaits, LockAlone, LockWait,
       LockEnded
  <2>. QED  BY <2>1, <2>2
<1>. QED  BY <1>1, LockInit, PTL DEF Lock!Spec

\* The invariant gives what is said of the lock.
LEMMA LockGives == LockInv => Lock!TypeOK /\ Lock!SoftLockHolds
<1>. SUFFICES ASSUME LockInv PROVE Lock!TypeOK /\ Lock!SoftLockHolds
  OBVIOUS
<1>1. Lock!TypeOK
  BY DEF LockInv, LockTypes, Lock!TypeOK
<1>2. ASSUME LockCalm \/ LockDefault PROVE ~(Lock!Cardinality(Lock!At("hold")) > 1)
  <2>1. Lock!At("hold") = {} \/ \E p \in lock_Procs : Lock!At("hold") = {p}
    BY <1>2 DEF LockInv, LockLive, Lock!At
  <2>2. Cardinality(Lock!At("hold")) = 0 \/ Cardinality(Lock!At("hold")) = 1
    <3>1. Cardinality({}) = 0
      BY FS_EmptySet
    <3>2. \A p \in lock_Procs : Cardinality({p}) = 1
      BY FS_Singleton
    <3>. QED  BY <2>1, <3>1, <3>2
  <2>3. Lock!Cardinality(Lock!At("hold")) = Cardinality(Lock!At("hold"))
    BY DEF Lock!Cardinality, Cardinality
  <2>. QED  BY <2>2, <2>3
<1>3. ASSUME ~LockCalm, ~LockDefault
      PROVE  (\E p \in lock_Procs : lock_limit[p] > lock_Stale) /\ (lock_crashes > 0 \/ lock_outstayed)
  <2>1. lock_Stale \in Int /\ \A p \in lock_Procs : lock_limit[p] \in Int
    BY LockBounds, LockLimits DEF LockInv
  <2>2. \E p \in lock_Procs : lock_limit[p] > lock_Stale
    BY <1>3, <2>1 DEF LockDefault
  <2>3. lock_crashes \in Nat /\ (lock_crashes # 0 \/ lock_outstayed)
    BY <1>3, LockBounds DEF LockInv, LockTypes, LockCalm
  <2>. QED  BY <2>2, <2>3
<1>4. Lock!DeadLockFreed
  BY DEF LockInv, LockEnded, Lock!DeadLockFreed, Lock!At
<1>. QED  BY <1>1, <1>2, <1>3, <1>4 DEF Lock!SoftLockHolds, Lock!LiveLockKept

\* Cached repositories and their locks, for any number of files, threads, processes and deaths:
\* a snapshot that is returned is whole, and what was cleared is not offered again.  A soft
\* lock has one holder where no limit is above the stale age, and elsewhere until a holder
\* dies or stays too long; and a waiter whose limit is above it is not kept out by the file of a
\* dead process.
THEOREM CacheSafe == PartsSpec => []CacheHolds
<1>1. PartsInit => Cache!Init /\ Lock!Init
  BY DEF PartsInit
<1>2. [PartsNext]_allVars => [Cache!Next]_Cache!vars /\ [Lock!Next]_Lock!vars
  BY DEF PartsNext, allVars, cacheVars, lockVars, Cache!vars, Cache!call, Cache!pool, Lock!vars,
     Lock!locals, Lock!past
<1>3. CacheInv /\ LockInv => CacheHolds
  BY CacheGives, LockGives DEF CacheHolds
<1>. QED  BY <1>1, <1>2, <1>3, CacheKept, LockHolds, PTL DEF PartsSpec, Cache!Spec, Lock!Spec

-----------------------------------------------------------------------------
(* Requests of the OpenAPI client.                                             *)

\* What is known while a call is under way: nothing was made for it yet, and the verb is the
\* endpoint's, or GET for a list whose site does not know PUT.
ReqsCall ==
  reqs_call # Reqs!None =>
    /\ reqs_times = 0 /\ reqs_answer = Reqs!None
    /\ \/ reqs_verb = Reqs!Endpoints[reqs_call].verb
       \/ reqs_call = "list_mcp_servers" /\ reqs_verb = "GET"
    /\ reqs_call = "list_mcp_servers" /\ reqs_verb = "GET" => "PUT" \notin reqs_serves
    /\ Reqs!Endpoints[reqs_call].does = "readown" => ~reqs_anon /\ reqs_token # "none"

ReqsAnswer == Reqs!AppliedOnce /\ reqs_answer # "empty" /\ Reqs!VerbRemembered

ReqsSite ==
  /\ reqs_token \in {"none", "stale", "reads", "writes"} /\ reqs_public \in BOOLEAN
  /\ reqs_serves \subseteq {"PUT", "GET"}
ReqsItem ==
  /\ reqs_exists \in BOOLEAN /\ reqs_stored \in {"nothing", "whole", "empty"}
  /\ reqs_times \in 0..2
ReqsControl ==
  /\ reqs_gets \in {"unknown", "yes", "no"}
  /\ reqs_call \in DOMAIN Reqs!Endpoints \cup {Reqs!None}
  /\ reqs_verb \in {"GET", "PUT", "POST", "PATCH", "DELETE"}
  /\ reqs_attempt \in 0..reqs_MaxRetries + 1 /\ reqs_calls \in 0..reqs_MaxCalls
ReqsFlags == reqs_anon \in BOOLEAN /\ reqs_read \in BOOLEAN
ReqsVerdict ==
  reqs_answer \in {Reqs!None, "ok", "empty", "denied", "taken", "absent", "unsupported",
                   "failed", "busy"}

ReqsInv ==
  /\ ReqsSite /\ ReqsItem /\ ReqsControl /\ ReqsFlags /\ ReqsVerdict
  /\ ReqsCall /\ ReqsAnswer

\* What the client knows of an endpoint: whatever adds up is a POST, the data of the account
\* goes with the token or not at all, and one endpoint lists the MCP servers.
ReqsEndpoint(e, r) ==
  /\ r.verb \in {"GET", "PUT", "POST", "PATCH", "DELETE"}
  /\ r.does \in {"add", "store", "issue"} => r.verb = "POST"
  /\ r.does = "readown" => r.token = "must" /\ ~r.open
  /\ e = "list_mcp_servers" => r.does = "read" /\ r.verb = "PUT"

LEMMA ReqsEndpoints ==
  \A e \in DOMAIN Reqs!Endpoints : ReqsEndpoint(e, Reqs!Endpoints[e])
<1>. DEFINE Good(g) == \A e \in DOMAIN g : ReqsEndpoint(e, g[e])
            groups  == {Reqs!ModelReads, Reqs!ModelWrites, Reqs!Datasets, Reqs!FileUploads,
                        Reqs!Skills, Reqs!StudioReads, Reqs!Studios, Reqs!StudioSettings,
                        Reqs!AgentIds, Reqs!AgentTokens, Reqs!McpServers, Reqs!McpList}
<1>. USE DEF ReqsEndpoint, Reqs!Catalogue, Reqs!OpenData, Reqs!OwnData, Reqs!Write, Reqs!Signed
<1>1. Good(Reqs!ModelReads)
  BY DEF Reqs!ModelReads
<1>2. Good(Reqs!ModelWrites)
  BY DEF Reqs!ModelWrites
<1>3. Good(Reqs!Datasets)
  BY DEF Reqs!Datasets
<1>4. Good(Reqs!FileUploads)
  BY DEF Reqs!FileUploads
<1>5. Good(Reqs!Skills)
  BY DEF Reqs!Skills
<1>6. Good(Reqs!StudioReads)
  BY DEF Reqs!StudioReads
<1>7. Good(Reqs!Studios)
  BY DEF Reqs!Studios
<1>8. Good(Reqs!StudioSettings)
  BY DEF Reqs!StudioSettings
<1>9. Good(Reqs!AgentIds)
  BY DEF Reqs!AgentIds
<1>10. Good(Reqs!AgentTokens)
  BY DEF Reqs!AgentTokens
<1>11. Good(Reqs!McpServers)
  BY DEF Reqs!McpServers
<1>12. Good(Reqs!McpList)
  BY DEF Reqs!McpList
<1>13. \A g \in groups : Good(g)
  BY <1>1, <1>2, <1>3, <1>4, <1>5, <1>6, <1>7, <1>8, <1>9, <1>10, <1>11, <1>12
<1>14. Reqs!Endpoints = Reqs!Merged(groups)
  BY DEF Reqs!Endpoints
<1>. HIDE DEF groups, ReqsEndpoint
<1>. QED  BY <1>13, <1>14 DEF Reqs!Merged

\* The names of the endpoints.
LEMMA ReqsNames ==
  /\ {"list_models", "get_model", "list_aigc_model_options"} \subseteq DOMAIN Reqs!Endpoints
  /\ {"create_model", "set_model_category", "update_model_category",
     "update_model_settings", "delete_model_files"} \subseteq DOMAIN Reqs!Endpoints
  /\ {"list_datasets", "get_dataset", "create_dataset", "set_dataset_category",
     "update_dataset_category", "update_dataset_settings", "delete_dataset_files"} \subseteq
     DOMAIN Reqs!Endpoints
  /\ {"upload_file"} \subseteq DOMAIN Reqs!Endpoints
  /\ {"list_skills", "get_skill", "create_skill", "update_skill_settings"} \subseteq DOMAIN
     Reqs!Endpoints
  /\ {"list_studios", "list_studio_hardware", "list_studio_base_images",
     "list_studio_sdk_versions"} \subseteq DOMAIN Reqs!Endpoints
  /\ {"get_studio", "create_studio", "deploy_studio", "stop_studio", "get_studio_logs"}
     \subseteq DOMAIN Reqs!Endpoints
  /\ {"list_studio_secrets", "list_studio_variables", "add_studio_secret",
     "add_studio_variable", "update_studio_secret", "update_studio_variable",
     "delete_studio_secret", "delete_studio_variable", "update_studio_settings"} \subseteq
     DOMAIN Reqs!Endpoints
  /\ {"create_agent_identity", "get_agent_identity", "list_agent_token_records",
     "list_user_agent_identities", "update_agent_identity", "delete_agent_identity",
     "reset_agent_key_pair", "pause_agent"} \subseteq DOMAIN Reqs!Endpoints
  /\ {"issue_agent_token", "get_agent_id_configuration", "get_agent_id_jwks"} \subseteq
     DOMAIN Reqs!Endpoints
  /\ {"list_operational_mcp_servers", "get_mcp_server", "deploy_mcp_server",
     "undeploy_mcp_server"} \subseteq DOMAIN Reqs!Endpoints
  /\ {"list_mcp_servers"} \subseteq DOMAIN Reqs!Endpoints
<1>. DEFINE groups == {Reqs!ModelReads, Reqs!ModelWrites, Reqs!Datasets, Reqs!FileUploads,
                       Reqs!Skills, Reqs!StudioReads, Reqs!Studios, Reqs!StudioSettings,
                       Reqs!AgentIds, Reqs!AgentTokens, Reqs!McpServers, Reqs!McpList}
<1>1. \A g \in groups : DOMAIN g \subseteq DOMAIN Reqs!Endpoints
  BY DEF Reqs!Endpoints, Reqs!Merged
<1>2. {"list_models", "get_model", "list_aigc_model_options"} = DOMAIN Reqs!ModelReads
  BY DEF Reqs!ModelReads
<1>3. {"create_model", "set_model_category", "update_model_category",
   "update_model_settings", "delete_model_files"} = DOMAIN Reqs!ModelWrites
  BY DEF Reqs!ModelWrites
<1>4. {"list_datasets", "get_dataset", "create_dataset", "set_dataset_category",
   "update_dataset_category", "update_dataset_settings", "delete_dataset_files"} = DOMAIN
   Reqs!Datasets
  BY DEF Reqs!Datasets
<1>5. {"upload_file"} = DOMAIN Reqs!FileUploads
  BY DEF Reqs!FileUploads
<1>6. {"list_skills", "get_skill", "create_skill", "update_skill_settings"} = DOMAIN
   Reqs!Skills
  BY DEF Reqs!Skills
<1>7. {"list_studios", "list_studio_hardware", "list_studio_base_images",
   "list_studio_sdk_versions"} = DOMAIN Reqs!StudioReads
  BY DEF Reqs!StudioReads
<1>8. {"get_studio", "create_studio", "deploy_studio", "stop_studio", "get_studio_logs"} =
   DOMAIN Reqs!Studios
  BY DEF Reqs!Studios
<1>9. {"list_studio_secrets", "list_studio_variables", "add_studio_secret",
   "add_studio_variable", "update_studio_secret", "update_studio_variable",
   "delete_studio_secret", "delete_studio_variable", "update_studio_settings"} = DOMAIN
   Reqs!StudioSettings
  BY DEF Reqs!StudioSettings
<1>10. {"create_agent_identity", "get_agent_identity", "list_agent_token_records",
   "list_user_agent_identities", "update_agent_identity", "delete_agent_identity",
   "reset_agent_key_pair", "pause_agent"} = DOMAIN Reqs!AgentIds
  BY DEF Reqs!AgentIds
<1>11. {"issue_agent_token", "get_agent_id_configuration", "get_agent_id_jwks"} = DOMAIN
   Reqs!AgentTokens
  BY DEF Reqs!AgentTokens
<1>12. {"list_operational_mcp_servers", "get_mcp_server", "deploy_mcp_server",
   "undeploy_mcp_server"} = DOMAIN Reqs!McpServers
  BY DEF Reqs!McpServers
<1>13. {"list_mcp_servers"} = DOMAIN Reqs!McpList
  BY DEF Reqs!McpList
<1>. QED  BY <1>1, <1>2, <1>3, <1>4, <1>5, <1>6, <1>7, <1>8, <1>9, <1>10, <1>11, <1>12, <1>13

\* A call of HubApi asks for one of them.
LEMMA ReqsHubCalls ==
  \A c \in DOMAIN Reqs!HubCalls : \A t \in DOMAIN Reqs!HubCalls[c] :
    Reqs!HubCalls[c][t] \in DOMAIN Reqs!Endpoints
<1>. DEFINE Good(g) == \A c \in DOMAIN g : \A t \in DOMAIN g[c] : g[c][t] \in DOMAIN Reqs!Endpoints
            calls   == {Reqs!Lists, Reqs!Creations, Reqs!GetRepo, Reqs!Details, Reqs!Options,
                        Reqs!ModelZones, Reqs!DatasetZones, Reqs!GenericFile, Reqs!Running,
                        Reqs!Settings, Reqs!Secrets, Reqs!Variables, Reqs!Hardware,
                        Reqs!Mcp, Reqs!Identities}
<1>1. Good(Reqs!Lists)
  BY ReqsNames DEF Reqs!Lists
<1>2. Good(Reqs!Creations)
  BY ReqsNames DEF Reqs!Creations
<1>3. Good(Reqs!GetRepo)
  BY ReqsNames DEF Reqs!GetRepo
<1>4. Good(Reqs!Details)
  BY ReqsNames DEF Reqs!Details
<1>5. Good(Reqs!Options)
  BY ReqsNames DEF Reqs!Options
<1>6. Good(Reqs!ModelZones)
  BY ReqsNames DEF Reqs!ModelZones
<1>7. Good(Reqs!DatasetZones)
  BY ReqsNames DEF Reqs!DatasetZones
<1>8. Good(Reqs!GenericFile)
  BY ReqsNames DEF Reqs!GenericFile
<1>9. Good(Reqs!Running)
  BY ReqsNames DEF Reqs!Running
<1>10. Good(Reqs!Settings)
  BY ReqsNames DEF Reqs!Settings
<1>11. Good(Reqs!Secrets)
  BY ReqsNames DEF Reqs!Secrets
<1>12. Good(Reqs!Variables)
  BY ReqsNames DEF Reqs!Variables
<1>13. Good(Reqs!Hardware)
  BY ReqsNames DEF Reqs!Hardware
<1>14. Good(Reqs!Mcp)
  BY ReqsNames DEF Reqs!Mcp, Reqs!McpServers, Reqs!McpList
<1>15. Good(Reqs!Identities)
  BY ReqsNames DEF Reqs!Identities, Reqs!AgentIds, Reqs!AgentTokens
<1>16. \A g \in calls : Good(g)
  BY <1>1, <1>2, <1>3, <1>4, <1>5, <1>6, <1>7, <1>8, <1>9, <1>10, <1>11, <1>12, <1>13, <1>14,
     <1>15
<1>17. Reqs!HubCalls = Reqs!Merged(calls)
  BY DEF Reqs!HubCalls
<1>. HIDE DEF calls
<1>. QED  BY <1>16, <1>17 DEF Reqs!Merged

\* What the site says of an attempt.
LEMMA ReqsReply ==
  ASSUME reqs_call \in DOMAIN Reqs!Endpoints
  PROVE  /\ Reqs!Reply \in {"ok", "empty", "denied", "taken", "absent", "unsupported"}
         /\ Reqs!Reply = "unsupported" <=>
              reqs_call = "list_mcp_servers" /\ reqs_verb \notin reqs_serves
         /\ Reqs!Reply = "empty" =>
              Reqs!Endpoints[reqs_call].does = "readown" /\ Reqs!Credential = "none"
<1>. DEFINE does == Reqs!Endpoints[reqs_call].does
            list == reqs_call = "list_mcp_servers" /\ reqs_verb \notin reqs_serves
<1>1. CASE list
  BY <1>1 DEF Reqs!Reply
<1>2. CASE ~list /\ Reqs!Credential = "stale"
  BY <1>2 DEF Reqs!Reply
<1>3. CASE ~list /\ Reqs!Credential # "stale" /\ does = "read"
  BY <1>3 DEF Reqs!Reply
<1>4. CASE ~list /\ Reqs!Credential # "stale" /\ does = "readown"
  BY <1>4 DEF Reqs!Reply
<1>5. CASE ~list /\ Reqs!Credential # "stale" /\ does \notin {"read", "readown"}
  BY <1>5 DEF Reqs!Reply
<1>. QED  BY <1>1, <1>2, <1>3, <1>4, <1>5

\* What it does, when it does anything.
LEMMA ReqsEffect ==
  ASSUME Reqs!Effect, ReqsItem
  PROVE  /\ reqs_exists' \in BOOLEAN /\ reqs_stored' \in {"nothing", "whole", "empty"}
         /\ reqs_times' \in 0..2
         /\ reqs_times' # reqs_times =>
              /\ reqs_times' = reqs_times + 1 /\ Reqs!Reply = "ok"
              /\ Reqs!Endpoints[reqs_call].does \in {"add", "store", "issue"}
<1>1. reqs_times \in 0..2 /\ reqs_exists \in BOOLEAN
      /\ reqs_stored \in {"nothing", "whole", "empty"}
  BY Zenon DEF ReqsItem
<1>2. CASE Reqs!Reply # "ok"
  BY <1>1, <1>2 DEF Reqs!Effect, Reqs!item
<1>3. CASE Reqs!Reply = "ok"
  <2>. DEFINE does == Reqs!Endpoints[reqs_call].does
  <2>1. /\ reqs_times' = IF does \in {"add", "store", "issue"} /\ reqs_times < 2
                         THEN reqs_times + 1 ELSE reqs_times
        /\ reqs_exists' = CASE does = "add" -> TRUE [] does = "remove" -> FALSE
                            [] OTHER -> reqs_exists
        /\ reqs_stored' = IF does = "store" THEN (IF reqs_read THEN "empty" ELSE "whole")
                          ELSE reqs_stored
    BY <1>3 DEF Reqs!Effect
  <2>. HIDE DEF does
  <2>2. reqs_exists' \in BOOLEAN
    BY <1>1, <2>1
  <2>3. reqs_stored' \in {"nothing", "whole", "empty"}
    BY <1>1, <2>1
  <2>4. reqs_times' # reqs_times =>
          reqs_times' = reqs_times + 1 /\ does \in {"add", "store", "issue"}
    BY <2>1
  <2>5. reqs_times' \in 0..2
    BY <1>1, <2>1
  <2>. QED  BY <1>3, <2>2, <2>3, <2>4, <2>5 DEF does
<1>. QED  BY <1>2, <1>3

LEMMA ReqsBounds == reqs_MaxRetries \in Nat /\ reqs_MaxCalls \in Nat
BY ReqsOK DEF Reqs!ConstantsOK

LEMMA ReqsInit == Reqs!Init => ReqsInv
<1>. SUFFICES ASSUME Reqs!Init PROVE ReqsInv
  OBVIOUS
<1>1. ReqsSite
  BY DEF Reqs!Init, ReqsSite
<1>2. ReqsItem /\ ReqsControl
  BY ReqsBounds DEF Reqs!Init, ReqsItem, ReqsControl
<1>3. ReqsFlags
  BY Zenon DEF Reqs!Init, ReqsFlags
<1>4. ReqsVerdict /\ ReqsCall
  BY DEF Reqs!Init, ReqsVerdict, ReqsCall
<1>5. ReqsAnswer
  BY DEF Reqs!Init, ReqsAnswer, Reqs!AppliedOnce, Reqs!VerbRemembered, Reqs!None
<1>. QED  BY <1>1, <1>2, <1>3, <1>4, <1>5 DEF ReqsInv

\* A call begins.
LEMMA ReqsBegins ==
  ASSUME ReqsInv, NEW e \in DOMAIN Reqs!Endpoints, Reqs!Call(e)
  PROVE  ReqsInv'
<1>. DEFINE r == Reqs!Endpoints[e]
<1>1. /\ UNCHANGED <<reqs_token, reqs_public, reqs_serves, reqs_exists, reqs_stored, reqs_gets>>
      /\ reqs_calls < reqs_MaxCalls /\ reqs_calls' = reqs_calls + 1
      /\ reqs_times' = 0 /\ reqs_read' = FALSE
  BY DEF Reqs!Call, Reqs!site, Reqs!item
<1>2. ReqsSite' /\ ReqsItem' /\ reqs_calls' \in 0..reqs_MaxCalls
  BY <1>1, ReqsBounds DEF ReqsInv, ReqsSite, ReqsItem, ReqsControl
<1>3. CASE r.token = "must" /\ reqs_token = "none"
  <2>1. /\ reqs_answer' = "denied" /\ reqs_call' = Reqs!None
        /\ UNCHANGED <<reqs_verb, reqs_attempt, reqs_anon>>
    BY <1>3 DEF Reqs!Call
  <2>2. ReqsControl' /\ ReqsVerdict' /\ ReqsCall'
    BY <1>1, <1>2, <2>1 DEF ReqsInv, ReqsControl, ReqsVerdict, ReqsCall
  <2>4. ReqsFlags'
    BY <1>1, <2>1, Zenon DEF ReqsInv, ReqsFlags
  <2>3. ReqsAnswer'
    BY <1>1, <2>1 DEF ReqsInv, ReqsAnswer, Reqs!AppliedOnce, Reqs!VerbRemembered
  <2>. QED  BY <1>2, <2>2, <2>3, <2>4 DEF ReqsInv
<1>4. CASE ~(r.token = "must" /\ reqs_token = "none")
  <2>1. /\ reqs_answer' = Reqs!None /\ reqs_call' = e /\ reqs_attempt' = 1
        /\ reqs_anon' = (r.token = "never")
        /\ reqs_verb' = IF e = "list_mcp_servers" /\ reqs_gets = "yes" THEN "GET" ELSE r.verb
    BY <1>4 DEF Reqs!Call
  <2>2. /\ r.verb \in {"GET", "PUT", "POST", "PATCH", "DELETE"}
        /\ r.does = "readown" => r.token = "must"
        /\ e = "list_mcp_servers" => r.does = "read" /\ r.verb = "PUT"
    BY ReqsEndpoints DEF ReqsEndpoint
  <2>3. ReqsControl'
    <3>1. e = "list_mcp_servers" => reqs_verb' \in {"GET", "PUT"}
      BY <2>1, <2>2
    <3>2. reqs_verb' \in {"GET", "PUT", "POST", "PATCH", "DELETE"}
      BY <2>1, <2>2
    <3>3. reqs_gets \in {"unknown", "yes", "no"}
      BY DEF ReqsInv, ReqsControl
    <3>. QED  BY <1>1, <1>2, <2>1, <3>2, <3>3, ReqsBounds DEF ReqsControl
  <2>4. ReqsVerdict'
    BY <2>1 DEF ReqsVerdict
  <2>7. ReqsFlags'
    BY <1>1, <2>1, Zenon DEF ReqsFlags
  <2>5. ReqsCall'
    BY <1>1, <1>4, <2>1, <2>2 DEF ReqsInv, ReqsAnswer, Reqs!VerbRemembered, ReqsCall
  <2>6. ReqsAnswer'
    BY <1>1, <2>1 DEF ReqsInv, ReqsAnswer, Reqs!AppliedOnce, Reqs!VerbRemembered, Reqs!None
  <2>. QED  BY <1>2, <2>3, <2>4, <2>5, <2>6, <2>7 DEF ReqsInv
<1>. QED  BY <1>3, <1>4

LEMMA ReqsHubCall ==
  ASSUME ReqsInv, NEW c \in DOMAIN Reqs!HubCalls, NEW t \in Reqs!Kinds, Reqs!HubCall(c, t)
  PROVE  ReqsInv'
<1>1. CASE t \in DOMAIN Reqs!HubCalls[c]
  <2>1. Reqs!Call(Reqs!HubCalls[c][t]) /\ Reqs!HubCalls[c][t] \in DOMAIN Reqs!Endpoints
    BY <1>1, ReqsHubCalls DEF Reqs!HubCall
  <2>. QED  BY <2>1, ReqsBegins
<1>2. CASE t \notin DOMAIN Reqs!HubCalls[c]
  <2>1. /\ reqs_calls < reqs_MaxCalls /\ reqs_calls' = reqs_calls + 1
        /\ reqs_answer' = "unsupported" /\ reqs_times' = 0 /\ reqs_read' = FALSE
        /\ reqs_call = Reqs!None
        /\ UNCHANGED <<reqs_token, reqs_public, reqs_serves, reqs_exists, reqs_stored, reqs_gets,
                       reqs_call, reqs_verb, reqs_attempt, reqs_anon>>
    BY <1>2 DEF Reqs!HubCall, Reqs!site, Reqs!item
  <2>2. ReqsSite' /\ ReqsItem' /\ ReqsVerdict'
    BY <2>1 DEF ReqsInv, ReqsSite, ReqsItem, ReqsVerdict
  <2>3. ReqsControl' /\ ReqsFlags'
    <3>1. reqs_calls' \in 0..reqs_MaxCalls
      BY <2>1, ReqsBounds DEF ReqsInv, ReqsControl
    <3>2. ReqsControl'
      BY <2>1, <3>1 DEF ReqsInv, ReqsControl
    <3>3. ReqsFlags'
      BY <2>1, Zenon DEF ReqsInv, ReqsFlags
    <3>. QED  BY <3>2, <3>3
  <2>4. ReqsCall' /\ ReqsAnswer'
    BY <2>1 DEF ReqsInv, ReqsCall, ReqsAnswer, Reqs!AppliedOnce, Reqs!VerbRemembered
  <2>. QED  BY <2>2, <2>3, <2>4 DEF ReqsInv
<1>. QED  BY <1>1, <1>2

\* A call ends: what it came to, and how often something was made for it.
LEMMA ReqsEnds ==
  ASSUME ReqsInv, NEW a, Reqs!End(a), UNCHANGED <<reqs_token, reqs_public, reqs_serves>>,
         ReqsItem', reqs_read' \in BOOLEAN, reqs_gets' \in {"unknown", "yes", "no"},
         a \in {"ok", "denied", "taken", "absent", "unsupported", "failed", "busy"},
         reqs_times' <= 1, a = "taken" => reqs_times' = 0, Reqs!VerbRemembered'
  PROVE  ReqsInv'
<1>1. /\ reqs_answer' = a /\ reqs_call' = Reqs!None /\ reqs_attempt' = 0 /\ reqs_anon' = FALSE
      /\ UNCHANGED <<reqs_verb, reqs_calls>>
  BY DEF Reqs!End
<1>2. ReqsSite' /\ ReqsVerdict' /\ ReqsCall'
  BY <1>1 DEF ReqsInv, ReqsSite, ReqsVerdict, ReqsCall
<1>3. ReqsControl' /\ ReqsFlags'
  <2>1. reqs_attempt' \in 0..reqs_MaxRetries + 1
    BY <1>1, ReqsBounds
  <2>2. ReqsControl'
    BY <1>1, <2>1 DEF ReqsInv, ReqsControl
  <2>3. ReqsFlags'
    BY <1>1, Zenon DEF ReqsFlags
  <2>. QED  BY <2>2, <2>3
<1>4. ReqsAnswer'
  BY <1>1 DEF ReqsAnswer, Reqs!AppliedOnce
<1>. QED  BY <1>2, <1>3, <1>4 DEF ReqsInv

\* An attempt is made again: nothing was made by the one before.
LEMMA ReqsAgain ==
  ASSUME ReqsInv, UNCHANGED <<reqs_token, reqs_public, reqs_serves>>, reqs_call # Reqs!None,
         ReqsItem', reqs_times' = 0, reqs_read' \in BOOLEAN,
         UNCHANGED <<reqs_gets, reqs_call, reqs_answer, reqs_calls>>,
         reqs_attempt' \in 0..reqs_MaxRetries + 1, reqs_anon' \in BOOLEAN,
         \/ UNCHANGED reqs_verb
         \/ reqs_call = "list_mcp_servers" /\ reqs_verb' = "GET" /\ "PUT" \notin reqs_serves,
         Reqs!Endpoints[reqs_call].does = "readown" => ~reqs_anon'
  PROVE  ReqsInv'
<1>1. ReqsSite' /\ ReqsVerdict' /\ ReqsControl'
  BY DEF ReqsInv, ReqsSite, ReqsVerdict, ReqsControl
<1>4. ReqsFlags'
  BY Zenon DEF ReqsFlags
<1>2. ReqsCall'
  BY DEF ReqsInv, ReqsCall
<1>3. ReqsAnswer'
  BY DEF ReqsInv, ReqsCall, ReqsAnswer, Reqs!AppliedOnce, Reqs!VerbRemembered
<1>. QED  BY <1>1, <1>2, <1>3, <1>4 DEF ReqsInv

\* What an attempt finds of the call that is under way.
LEMMA ReqsUnderWay ==
  ASSUME ReqsInv, reqs_call # Reqs!None
  PROVE  /\ reqs_call \in DOMAIN Reqs!Endpoints /\ reqs_times = 0
         /\ ReqsItem /\ reqs_read \in BOOLEAN /\ reqs_gets \in {"unknown", "yes", "no"}
         /\ reqs_attempt \in Nat /\ reqs_anon \in BOOLEAN /\ Reqs!VerbRemembered
         /\ Reqs!Endpoints[reqs_call].does \in {"add", "store", "issue"} =>
              ~Reqs!Idempotent(reqs_call)
         /\ Reqs!Endpoints[reqs_call].does = "readown" =>
              ~reqs_anon /\ ~Reqs!Open(reqs_call) /\ Reqs!Credential # "none"
         /\ reqs_call = "list_mcp_servers" => Reqs!Endpoints[reqs_call].does = "read"
<1>1. /\ reqs_call \in DOMAIN Reqs!Endpoints /\ reqs_times = 0
      /\ ReqsItem /\ reqs_read \in BOOLEAN /\ reqs_gets \in {"unknown", "yes", "no"}
      /\ reqs_attempt \in Nat /\ reqs_anon \in BOOLEAN /\ Reqs!VerbRemembered
  BY ReqsBounds DEF ReqsInv, ReqsCall, ReqsControl, ReqsFlags, ReqsAnswer
<1>2. ReqsEndpoint(reqs_call, Reqs!Endpoints[reqs_call])
  BY <1>1, ReqsEndpoints
<1>3. reqs_call = "list_mcp_servers" => Reqs!Endpoints[reqs_call].does = "read"
  BY <1>2 DEF ReqsEndpoint
<1>4. Reqs!Endpoints[reqs_call].does \in {"add", "store", "issue"} =>
        ~Reqs!Idempotent(reqs_call)
  BY <1>2, <1>3 DEF ReqsEndpoint, ReqsInv, ReqsCall, Reqs!Idempotent
<1>5. Reqs!Endpoints[reqs_call].does = "readown" =>
        ~reqs_anon /\ ~Reqs!Open(reqs_call) /\ Reqs!Credential # "none"
  BY <1>2 DEF ReqsEndpoint, ReqsInv, ReqsCall, Reqs!Open, Reqs!Credential
<1>. QED  BY <1>1, <1>3, <1>4, <1>5

\* What an attempt that reached the site did there.
LEMMA ReqsReached ==
  ASSUME ReqsInv, reqs_call # Reqs!None, Reqs!Effect \/ Reqs!NoEffect
  PROVE  /\ ReqsItem' /\ reqs_times' <= 1
         /\ Reqs!Idempotent(reqs_call) => reqs_times' = 0
         /\ Reqs!Effect /\ Reqs!Reply # "ok" => reqs_times' = 0
<1>1. reqs_times = 0 /\ ReqsItem
  BY ReqsUnderWay
<1>2. CASE Reqs!NoEffect
  BY <1>1, <1>2, ReqsEffect DEF Reqs!NoEffect, Reqs!item, ReqsItem
<1>3. CASE Reqs!Effect
  BY <1>1, <1>3, ReqsEffect, ReqsUnderWay DEF ReqsItem
<1>. QED  BY <1>2, <1>3

LEMMA ReqsSent ==
  ASSUME ReqsInv, reqs_call # Reqs!None, Reqs!Sent
  PROVE  reqs_read' \in BOOLEAN
BY ReqsUnderWay, Zenon DEF Reqs!Sent

LEMMA ReqsLostKept ==
  ASSUME ReqsInv, Reqs!Lost
  PROVE  ReqsInv'
<1>1. /\ reqs_call # Reqs!None /\ Reqs!Sent /\ (Reqs!Effect \/ Reqs!NoEffect)
      /\ UNCHANGED <<reqs_token, reqs_public, reqs_serves>>
      /\ Reqs!Repeat(Reqs!Idempotent(reqs_call), "failed")
  BY DEF Reqs!Lost, Reqs!site
<1>2. ReqsItem' /\ reqs_times' <= 1 /\ reqs_read' \in BOOLEAN
  BY <1>1, ReqsReached, ReqsSent
<1>3. CASE Reqs!Idempotent(reqs_call) /\ reqs_attempt < reqs_MaxRetries
  <2>1. /\ reqs_attempt' = reqs_attempt + 1
        /\ UNCHANGED <<reqs_gets, reqs_call, reqs_verb, reqs_anon, reqs_answer, reqs_calls>>
    BY <1>1, <1>3, Zenon DEF Reqs!Repeat
  <2>2. reqs_attempt' \in 0..reqs_MaxRetries + 1
    BY <1>1, <1>3, <2>1, ReqsUnderWay, ReqsBounds
  <2>3. reqs_times' = 0
    BY <1>1, <1>3, ReqsReached
  <2>4. reqs_anon' \in BOOLEAN /\ (Reqs!Endpoints[reqs_call].does = "readown" => ~reqs_anon')
    BY <1>1, <2>1, ReqsUnderWay
  <2>. QED  BY <1>1, <1>2, <2>1, <2>2, <2>3, <2>4, ReqsAgain
<1>4. CASE ~(Reqs!Idempotent(reqs_call) /\ reqs_attempt < reqs_MaxRetries)
  <2>1. Reqs!End("failed") /\ UNCHANGED reqs_gets
    BY <1>1, <1>4, Zenon DEF Reqs!Repeat, Reqs!Raise
  <2>2. Reqs!VerbRemembered'
    BY <1>1, <2>1, ReqsUnderWay DEF Reqs!VerbRemembered
  <2>. QED  BY <1>1, <1>2, <2>1, <2>2, ReqsEnds, ReqsUnderWay
<1>. QED  BY <1>3, <1>4

LEMMA ReqsBusyKept ==
  ASSUME ReqsInv, Reqs!Busy
  PROVE  ReqsInv'
<1>1. /\ reqs_call # Reqs!None /\ Reqs!Sent /\ Reqs!NoEffect
      /\ UNCHANGED <<reqs_token, reqs_public, reqs_serves>> /\ Reqs!Repeat(TRUE, "busy")
  BY DEF Reqs!Busy, Reqs!site
<1>2. ReqsItem' /\ reqs_times' = 0 /\ reqs_read' \in BOOLEAN
  BY <1>1, ReqsReached, ReqsSent, ReqsUnderWay DEF Reqs!NoEffect
<1>3. CASE reqs_attempt < reqs_MaxRetries
  <2>1. /\ reqs_attempt' = reqs_attempt + 1
        /\ UNCHANGED <<reqs_gets, reqs_call, reqs_verb, reqs_anon, reqs_answer, reqs_calls>>
    BY <1>1, <1>3, Zenon DEF Reqs!Repeat
  <2>2. reqs_attempt' \in 0..reqs_MaxRetries + 1
    BY <1>1, <1>3, <2>1, ReqsUnderWay, ReqsBounds
  <2>4. reqs_anon' \in BOOLEAN /\ (Reqs!Endpoints[reqs_call].does = "readown" => ~reqs_anon')
    BY <1>1, <2>1, ReqsUnderWay
  <2>. QED  BY <1>1, <1>2, <2>1, <2>2, <2>4, ReqsAgain
<1>4. CASE ~(reqs_attempt < reqs_MaxRetries)
  <2>1. Reqs!End("busy") /\ UNCHANGED reqs_gets
    BY <1>1, <1>4, Zenon DEF Reqs!Repeat, Reqs!Raise
  <2>2. Reqs!VerbRemembered'
    BY <1>1, <2>1, ReqsUnderWay DEF Reqs!VerbRemembered
  <2>. QED  BY <1>1, <1>2, <2>1, <2>2, ReqsEnds, ReqsUnderWay
<1>. QED  BY <1>3, <1>4

\* A rejected token is left out where the endpoint allows it.
ReqsAnonymous ==
  Reqs!Reply = "denied" /\ Reqs!Open(reqs_call) /\ ~reqs_anon /\ reqs_token # "none"

LEMMA ReqsAnsweredKept ==
  ASSUME ReqsInv, Reqs!Answered
  PROVE  ReqsInv'
<1>1. /\ reqs_call # Reqs!None /\ Reqs!Sent /\ Reqs!Effect
      /\ UNCHANGED <<reqs_token, reqs_public, reqs_serves>>
  BY DEF Reqs!Answered, Reqs!site
<1>2. ReqsItem' /\ reqs_times' <= 1 /\ reqs_read' \in BOOLEAN
      /\ (Reqs!Reply # "ok" => reqs_times' = 0)
  BY <1>1, ReqsReached, ReqsSent
<1>3. CASE ReqsAnonymous
  <2>1. /\ reqs_anon' = TRUE /\ reqs_attempt' = 1
        /\ UNCHANGED <<reqs_gets, reqs_call, reqs_verb, reqs_answer, reqs_calls>>
    BY <1>3, Zenon DEF Reqs!Answered, ReqsAnonymous
  <2>2. reqs_attempt' \in 0..reqs_MaxRetries + 1 /\ reqs_anon' \in BOOLEAN
    BY <2>1, ReqsBounds
  <2>3. Reqs!Endpoints[reqs_call].does # "readown" /\ reqs_times' = 0
    BY <1>1, <1>2, <1>3, ReqsUnderWay DEF ReqsAnonymous
  <2>. QED  BY <1>1, <1>2, <2>1, <2>2, <2>3, ReqsAgain
<1>4. CASE ~ReqsAnonymous
  <2>1. Reqs!End(Reqs!Reply) /\ UNCHANGED reqs_gets
    BY <1>4, Zenon DEF Reqs!Answered, ReqsAnonymous, Reqs!Raise
  <2>2. Reqs!VerbRemembered'
    BY <1>1, <2>1, ReqsUnderWay DEF Reqs!VerbRemembered
  <2>3. Reqs!Reply \in {"ok", "denied", "taken", "absent", "unsupported"}
    BY <1>1, ReqsReply, ReqsUnderWay
  <2>4. Reqs!Reply = "taken" => reqs_times' = 0
    BY <1>2
  <2>5. reqs_gets' \in {"unknown", "yes", "no"}
    BY <1>1, <2>1, ReqsUnderWay
  <2>. QED  BY <1>1, <1>2, <2>1, <2>2, <2>3, <2>4, <2>5, ReqsEnds
<1>. QED  BY <1>3, <1>4

LEMMA ReqsListAnsweredKept ==
  ASSUME ReqsInv, Reqs!ListAnswered
  PROVE  ReqsInv'
<1>1. /\ reqs_call = "list_mcp_servers" /\ reqs_call # Reqs!None
      /\ UNCHANGED <<reqs_token, reqs_public, reqs_serves, reqs_exists, reqs_stored,
                     reqs_times, reqs_read>>
  BY DEF Reqs!ListAnswered, Reqs!site, Reqs!item, Reqs!None
<1>2. ReqsItem' /\ reqs_times' = 0 /\ reqs_read' \in BOOLEAN
  BY <1>1, ReqsUnderWay DEF ReqsItem
<1>3. Reqs!Endpoints[reqs_call].does = "read"
  BY <1>1, ReqsUnderWay
<1>4. CASE ReqsAnonymous
  <2>1. /\ reqs_anon' = TRUE /\ reqs_attempt' = 1
        /\ UNCHANGED <<reqs_gets, reqs_call, reqs_verb, reqs_answer, reqs_calls>>
    BY <1>4, Zenon DEF Reqs!ListAnswered, ReqsAnonymous
  <2>2. reqs_attempt' \in 0..reqs_MaxRetries + 1 /\ reqs_anon' \in BOOLEAN
    BY <2>1, ReqsBounds
  <2>. QED  BY <1>1, <1>2, <1>3, <2>1, <2>2, ReqsAgain
<1>5. CASE ~ReqsAnonymous /\ reqs_verb = "PUT" /\ Reqs!Unsupported /\ reqs_gets = "unknown"
  <2>1. /\ reqs_verb' = "GET" /\ reqs_attempt' = 1 /\ reqs_anon' = FALSE
        /\ UNCHANGED <<reqs_gets, reqs_call, reqs_answer, reqs_calls>>
    BY <1>5, Zenon DEF Reqs!ListAnswered, ReqsAnonymous
  <2>2. "PUT" \notin reqs_serves
    BY <1>1, <1>5, ReqsReply, ReqsUnderWay DEF Reqs!Unsupported
  <2>3. reqs_attempt' \in 0..reqs_MaxRetries + 1
    BY <2>1, ReqsBounds
  <2>4. reqs_anon' \in BOOLEAN /\ ~reqs_anon'
    BY <2>1, Zenon
  <2>. QED  BY <1>1, <1>2, <1>3, <2>1, <2>2, <2>3, <2>4, ReqsAgain
<1>6. CASE ~ReqsAnonymous
           /\ ~(reqs_verb = "PUT" /\ Reqs!Unsupported /\ reqs_gets = "unknown")
  <2>1. /\ Reqs!End(Reqs!Reply)
        /\ reqs_gets' = IF reqs_verb = "PUT" \/ reqs_gets = "yes" THEN reqs_gets
                        ELSE CASE Reqs!Reply = "ok" -> "yes" [] Reqs!Reply = "unsupported" -> "no"
                               [] OTHER -> reqs_gets
    BY <1>6, Zenon DEF Reqs!ListAnswered, ReqsAnonymous, Reqs!Unsupported
  <2>2. Reqs!Reply \in {"ok", "denied", "taken", "absent", "unsupported"}
    BY <1>1, <1>3, ReqsReply, ReqsUnderWay
  <2>3. reqs_verb # "PUT" => reqs_verb = "GET" /\ "PUT" \notin reqs_serves
    <3>1. Reqs!Endpoints[reqs_call].verb = "PUT"
      BY <1>1, ReqsUnderWay, ReqsEndpoints DEF ReqsEndpoint
    <3>. QED  BY <1>1, <3>1 DEF ReqsInv, ReqsCall
  <2>4. Reqs!Unsupported <=> reqs_verb \notin reqs_serves
    BY <1>1, ReqsReply, ReqsUnderWay DEF Reqs!Unsupported
  <2>5. Reqs!Reply = "ok" => ~Reqs!Unsupported
    BY DEF Reqs!Unsupported
  <2>6. /\ reqs_gets' \in {"unknown", "yes", "no"}
        /\ reqs_gets' # reqs_gets =>
             /\ reqs_verb # "PUT"
             /\ \/ reqs_gets' = "yes" /\ Reqs!Reply = "ok"
                \/ reqs_gets' = "no" /\ Reqs!Unsupported
    <3>1. reqs_gets \in {"unknown", "yes", "no"}
      BY <1>1, ReqsUnderWay
    <3>2. CASE reqs_verb = "PUT" \/ reqs_gets = "yes"
      BY <2>1, <3>1, <3>2
    <3>3. CASE ~(reqs_verb = "PUT" \/ reqs_gets = "yes") /\ Reqs!Reply = "ok"
      <4>1. reqs_gets' = "yes"
        BY <2>1, <3>3
      <4>. QED  BY <3>3, <4>1
    <3>4. CASE ~(reqs_verb = "PUT" \/ reqs_gets = "yes") /\ Reqs!Unsupported
      BY <2>1, <3>4 DEF Reqs!Unsupported
    <3>5. CASE ~(reqs_verb = "PUT" \/ reqs_gets = "yes") /\ Reqs!Reply # "ok"
               /\ ~Reqs!Unsupported
      BY <2>1, <3>1, <3>5 DEF Reqs!Unsupported
    <3>. QED  BY <3>2, <3>3, <3>4, <3>5
  <2>7. Reqs!VerbRemembered'
    <3>1. Reqs!VerbRemembered /\ reqs_serves \subseteq {"PUT", "GET"}
      BY DEF ReqsInv, ReqsAnswer, ReqsSite
    <3>2. reqs_gets' # reqs_gets /\ reqs_gets' = "yes" => reqs_serves = {"GET"}
      BY <2>3, <2>4, <2>5, <2>6, <3>1
    <3>3. reqs_gets' # reqs_gets /\ reqs_gets' = "no" => reqs_serves = {}
      BY <2>3, <2>4, <2>6, <3>1
    <3>. QED  BY <1>1, <3>1, <3>2, <3>3 DEF Reqs!VerbRemembered
  <2>. QED  BY <1>1, <1>2, <2>1, <2>2, <2>6, <2>7, ReqsEnds
<1>. QED  BY <1>4, <1>5, <1>6

\* For any number of attempts and calls: nothing that adds up is done twice, the data of the
\* account is not asked for without the token, and what is remembered of the verbs is so.
THEOREM ReqsHold == Reqs!Spec => []ReqsInv
<1>1. ReqsInv /\ [Reqs!Next]_Reqs!vars => ReqsInv'
  <2>. SUFFICES ASSUME ReqsInv, [Reqs!Next]_Reqs!vars PROVE ReqsInv'
    OBVIOUS
  <2>1. ASSUME NEW c \in DOMAIN Reqs!HubCalls, NEW t \in Reqs!Kinds, Reqs!HubCall(c, t)
        PROVE  ReqsInv'
    BY <2>1, ReqsHubCall
  <2>2. ASSUME NEW e \in Reqs!ClientOnly, Reqs!Call(e) PROVE ReqsInv'
    <3>1. e \in DOMAIN Reqs!Endpoints
      BY ReqsNames DEF Reqs!ClientOnly
    <3>. QED  BY <2>2, <3>1, ReqsBegins
  <2>3. CASE Reqs!Lost \/ Reqs!Busy \/ Reqs!Answered \/ Reqs!ListAnswered
    BY <2>3, ReqsLostKept, ReqsBusyKept, ReqsAnsweredKept, ReqsListAnsweredKept
  <2>4. CASE UNCHANGED Reqs!vars
    BY <2>4 DEF Reqs!vars, Reqs!site, Reqs!item, ReqsInv, ReqsSite, ReqsItem, ReqsControl,
       ReqsFlags, ReqsVerdict, ReqsCall, ReqsAnswer, Reqs!AppliedOnce, Reqs!VerbRemembered
  <2>. QED  BY <2>1, <2>2, <2>3, <2>4 DEF Reqs!Next, Reqs!Rest
<1>. QED  BY <1>1, ReqsInit, PTL DEF Reqs!Spec

\* The invariant gives what is said of requests.
LEMMA ReqsGives ==
  ReqsInv => Reqs!TypeOK /\ Reqs!AppliedOnce /\ Reqs!OwnNeverAnonymous /\ Reqs!VerbRemembered
<1>. SUFFICES ASSUME ReqsInv
             PROVE  Reqs!TypeOK /\ Reqs!AppliedOnce /\ Reqs!OwnNeverAnonymous
                    /\ Reqs!VerbRemembered
  OBVIOUS
<1>1. ReqsSite /\ ReqsItem /\ ReqsControl /\ ReqsFlags /\ ReqsVerdict /\ ReqsCall /\ ReqsAnswer
  BY DEF ReqsInv
<1>2. Reqs!TypeOK
  BY <1>1, Zenon DEF ReqsSite, ReqsItem, ReqsControl, ReqsFlags, ReqsVerdict, Reqs!TypeOK
<1>3. Reqs!OwnNeverAnonymous
  BY <1>1 DEF ReqsCall, ReqsAnswer, Reqs!OwnNeverAnonymous
<1>. QED  BY <1>1, <1>2, <1>3 DEF ReqsAnswer

\* Requests, over any number of calls and attempts: one item, file or token for a call whatever
\* was lost on the way, own data with the token or not at all, the verbs as the site knows them.
THEOREM RequestsSafe == PartsSpec => []RequestsHold
<1>1. PartsInit => Reqs!Init
  BY DEF PartsInit
<1>2. [PartsNext]_allVars => [Reqs!Next]_Reqs!vars
  BY DEF PartsNext, allVars, reqsVars, Reqs!vars, Reqs!site, Reqs!item
<1>3. ReqsInv => RequestsHold
  BY ReqsGives DEF RequestsHold
<1>. QED  BY <1>1, <1>2, <1>3, ReqsHold, PTL DEF PartsSpec, Reqs!Spec

-----------------------------------------------------------------------------
(* Revisions of kernel repositories: a hash that the process has made stands   *)
(* for one ref, and a lock file holds the hash of the ref it was made for.     *)

RevsTypes ==
  /\ revs_refs \subseteq Revs!Refs /\ Revs!Master \in revs_refs
  /\ revs_synthetic \subseteq Revs!Refs /\ revs_cached \subseteq Revs!Refs
  /\ revs_asked \in Revs!Refs \cup {Revs!None} /\ revs_ops \in 0..revs_MaxOps
  /\ revs_got \in Revs!Refs \cup {Revs!None, Revs!Ref("offline", 0), Revs!Ref("missing", 0)}

RevsLock ==
  \/ revs_lock \in {Revs!None, Revs!Foreign} /\ revs_pinned = Revs!None
  \/ revs_pinned \in Revs!Refs /\ revs_lock = Revs!Oid(revs_pinned)

RevsInv == RevsTypes /\ RevsLock /\ Revs!FetchedIsAskedFor

\* A ref, its hash and the hash of another hub's commit are three things, and two refs have
\* two hashes.
LEMMA RevsKinds ==
  /\ \A r \in Revs!Refs : r = Revs!Ref("branch", r.of)
  /\ \A r \in Revs!Refs : Revs!Oid(r) \notin Revs!Refs /\ Revs!Oid(r) # Revs!Foreign
  /\ \A r \in Revs!Refs, q \in Revs!Refs : Revs!Oid(r) = Revs!Oid(q) => r = q
  /\ {Revs!Foreign, Revs!None, Revs!Ref("offline", 0), Revs!Ref("missing", 0)} \cap Revs!Refs = {}
  /\ \A r \in Revs!Refs : Revs!Oid(r) # Revs!None
  /\ Revs!Master \in Revs!Refs /\ \A n \in revs_Versions : Revs!Version(n) \in Revs!Refs
<1>1. \A r \in Revs!Refs : r = Revs!Ref("branch", r.of)
  BY DEF Revs!Refs, Revs!Master, Revs!Version, Revs!Ref
<1>2. \A r \in Revs!Refs : r.kind = "branch"
  BY <1>1 DEF Revs!Ref
<1>3. \A r \in Revs!Refs : Revs!Oid(r).kind = "oid" /\ Revs!Oid(r).of = r.of
  BY DEF Revs!Oid, Revs!Ref
<1>4. /\ Revs!Foreign.kind = "commit" /\ Revs!None.kind = "none"
      /\ Revs!Ref("offline", 0).kind = "offline" /\ Revs!Ref("missing", 0).kind = "missing"
  BY DEF Revs!Foreign, Revs!None, Revs!Ref
<1>5. \A r \in Revs!Refs, q \in Revs!Refs : Revs!Oid(r) = Revs!Oid(q) => r = q
  BY <1>1, <1>3
<1>6. \A r \in Revs!Refs :
        Revs!Oid(r) \notin Revs!Refs /\ Revs!Oid(r) # Revs!Foreign /\ Revs!Oid(r) # Revs!None
  BY <1>2, <1>3, <1>4
<1>7. {Revs!Foreign, Revs!None, Revs!Ref("offline", 0), Revs!Ref("missing", 0)} \cap Revs!Refs = {}
  BY <1>2, <1>4
<1>8. Revs!Master \in Revs!Refs /\ \A n \in revs_Versions : Revs!Version(n) \in Revs!Refs
  BY DEF Revs!Refs
<1>. QED  BY <1>1, <1>5, <1>6, <1>7, <1>8

\* A hash that is known is mapped back to its ref; any other revision stays what it is.
LEMMA RevsMapped ==
  ASSUME NEW known \in SUBSET Revs!Refs, NEW r \in Revs!Refs
  PROVE  /\ Revs!MsRevision(r, known) = r
         /\ Revs!MsRevision(Revs!Oid(r), known) \in {r, Revs!Oid(r)}
         /\ r \in known => Revs!MsRevision(Revs!Oid(r), known) = r
         /\ Revs!MsRevision(Revs!Foreign, known) = Revs!Foreign
<1>1. Revs!MsRevision(r, known) = r
  BY RevsKinds DEF Revs!MsRevision
<1>2. Revs!MsRevision(Revs!Foreign, known) = Revs!Foreign
  BY RevsKinds DEF Revs!MsRevision
<1>3. CASE \E q \in known : Revs!Oid(q) = Revs!Oid(r)
  <2>1. r \in known /\ \A q \in known : Revs!Oid(q) = Revs!Oid(r) => q = r
    BY <1>3, RevsKinds
  <2>2. (CHOOSE q \in known : Revs!Oid(q) = Revs!Oid(r)) = r
    BY <1>3, <2>1
  <2>. QED  BY <1>1, <1>2, <1>3, <2>1, <2>2 DEF Revs!MsRevision
<1>4. CASE ~\E q \in known : Revs!Oid(q) = Revs!Oid(r)
  <2>1. r \notin known
    BY <1>4
  <2>. QED  BY <1>1, <1>2, <1>4, <2>1 DEF Revs!MsRevision
<1>. QED  BY <1>3, <1>4

\* A version that is offered stands for a ref the repository has.
LEMMA RevsOffered ==
  ASSUME RevsInv, NEW n \in DOMAIN Revs!Offered
  PROVE  Revs!Offered[n] \in revs_refs
<1>1. CASE Revs!Numbered = {}
  BY <1>1 DEF Revs!Offered, RevsInv, RevsTypes
<1>2. CASE Revs!Numbered # {}
  <2>1. PICK r \in Revs!Numbered : n = r.of
    BY <1>2 DEF Revs!Offered
  <2>2. Revs!Offered[n] = Revs!Version(n) /\ r \in revs_refs /\ r \in Revs!Refs
    BY <1>2, <2>1 DEF Revs!Offered, Revs!Numbered, RevsInv, RevsTypes
  <2>3. r = Revs!Version(n)
    BY <2>1, <2>2, RevsKinds DEF Revs!Version
  <2>. QED  BY <2>2, <2>3
<1>. QED  BY <1>1, <1>2

\* What an operation fetches of a ref, by its name or by its hash.
LEMMA RevsFetched ==
  ASSUME RevsInv, NEW known \in SUBSET Revs!Refs, NEW r \in Revs!Refs, NEW rev,
         rev \in {r, Revs!Oid(r)}, NEW offline \in BOOLEAN,
         Revs!Download(rev, known, offline) \/ Revs!ListTree(rev, known)
  PROVE  revs_got' \in {r, Revs!Ref("offline", 0), Revs!Ref("missing", 0)}
<1>1. Revs!MsRevision(rev, known) \in {r, Revs!Oid(r)}
  BY RevsMapped
<1>2. Revs!Oid(r) \notin revs_refs /\ Revs!Oid(r) \notin revs_cached
  BY RevsKinds DEF RevsInv, RevsTypes
<1>. QED  BY <1>1, <1>2 DEF Revs!Download, Revs!ListTree

\* What it leaves in the cache.
LEMMA RevsCached ==
  ASSUME RevsInv, NEW known, NEW rev, NEW offline, Revs!Download(rev, known, offline)
  PROVE  revs_cached' \subseteq Revs!Refs
BY DEF Revs!Download, RevsInv, RevsTypes

\* An operation that fetched a ref, or nothing, by what it was asked for.
LEMMA RevsDone ==
  ASSUME RevsInv, Revs!Step, NEW r \in Revs!Refs \cup {Revs!None}, revs_asked' = r,
         UNCHANGED revs_refs, revs_synthetic' \subseteq Revs!Refs, revs_cached' \subseteq Revs!Refs,
         RevsLock',
         revs_got' \in {r, Revs!Ref("offline", 0), Revs!Ref("missing", 0)}
  PROVE  RevsInv'
<1>1. revs_ops' \in 0..revs_MaxOps
  BY RevsOK DEF RevsInv, RevsTypes, Revs!Step, Revs!ConstantsOK
<1>2. RevsTypes'
  BY <1>1 DEF RevsInv, RevsTypes
<1>3. Revs!FetchedIsAskedFor'
  BY RevsKinds DEF Revs!FetchedIsAskedFor
<1>. QED  BY <1>2, <1>3 DEF RevsInv

LEMMA RevsInit == Revs!Init => RevsInv
<1>. SUFFICES ASSUME Revs!Init PROVE RevsInv
  OBVIOUS
<1>1. RevsTypes
  BY RevsKinds, RevsOK DEF Revs!Init, RevsTypes, Revs!ConstantsOK
<1>. QED  BY <1>1, RevsKinds DEF Revs!Init, RevsInv, RevsLock, Revs!FetchedIsAskedFor

LEMMA RevsKept == ASSUME RevsInv, Revs!Next PROVE RevsInv'
<1>1. ASSUME NEW n \in revs_Versions, Revs!GetVersion(n) PROVE RevsInv'
  <2>. DEFINE r == Revs!Offered[n]
  <2>1. /\ Revs!Step /\ n \in DOMAIN Revs!Offered /\ revs_synthetic' = revs_synthetic \cup revs_refs
        /\ revs_asked' = r /\ UNCHANGED revs_refs
        /\ Revs!Download(Revs!Oid(r), revs_synthetic', FALSE)
        /\ UNCHANGED <<revs_lock, revs_pinned>>
    BY <1>1 DEF Revs!GetVersion, Revs!Listed
  <2>2. r \in revs_refs /\ r \in Revs!Refs /\ revs_synthetic' \in SUBSET Revs!Refs
    BY <2>1, RevsOffered DEF RevsInv, RevsTypes
  <2>3. revs_got' \in {r, Revs!Ref("offline", 0), Revs!Ref("missing", 0)}
    <3>. HIDE DEF r
    <3>. QED  BY <2>1, <2>2, RevsFetched
  <2>4. revs_cached' \subseteq Revs!Refs
    BY <2>1, RevsCached DEF RevsInv, RevsTypes
  <2>5. RevsLock'
    BY <2>1, <2>2 DEF RevsInv, RevsLock
  <2>. HIDE DEF r
  <2>. QED  BY <2>1, <2>2, <2>3, <2>4, <2>5, RevsDone
<1>2. ASSUME NEW n \in revs_Versions, Revs!Variants(n) PROVE RevsInv'
  <2>. DEFINE r == Revs!Offered[n]
  <2>1. /\ Revs!Step /\ n \in DOMAIN Revs!Offered /\ revs_synthetic' = revs_synthetic \cup revs_refs
        /\ revs_asked' = r /\ UNCHANGED revs_refs
        /\ Revs!ListTree(Revs!Oid(r), revs_synthetic')
        /\ UNCHANGED <<revs_lock, revs_pinned, revs_cached>>
    BY <1>2 DEF Revs!Variants, Revs!Listed
  <2>2. r \in revs_refs /\ r \in Revs!Refs /\ revs_synthetic' \in SUBSET Revs!Refs
    BY <2>1, RevsOffered DEF RevsInv, RevsTypes
  <2>3. revs_got' \in {r, Revs!Ref("offline", 0), Revs!Ref("missing", 0)}
    <3>. HIDE DEF r
    <3>. QED  BY <2>1, <2>2, RevsFetched
  <2>4. revs_cached' \subseteq Revs!Refs
    BY <2>1, RevsCached DEF RevsInv, RevsTypes
  <2>5. RevsLock'
    BY <2>1, <2>2 DEF RevsInv, RevsLock
  <2>. HIDE DEF r
  <2>. QED  BY <2>1, <2>2, <2>3, <2>4, <2>5, RevsDone
<1>3. ASSUME NEW n \in revs_Versions, Revs!InstallAll(n) PROVE RevsInv'
  <2>. DEFINE r == Revs!Offered[n]
  <2>1. /\ Revs!Step /\ n \in DOMAIN Revs!Offered /\ revs_synthetic' = revs_synthetic \cup revs_refs
        /\ revs_asked' = r /\ UNCHANGED revs_refs
        /\ Revs!Download(Revs!Oid(r), revs_synthetic', FALSE)
        /\ revs_lock' = Revs!Oid(r) /\ revs_pinned' = r
    BY <1>3 DEF Revs!InstallAll, Revs!Listed
  <2>2. r \in revs_refs /\ r \in Revs!Refs /\ revs_synthetic' \in SUBSET Revs!Refs
    BY <2>1, RevsOffered DEF RevsInv, RevsTypes
  <2>3. revs_got' \in {r, Revs!Ref("offline", 0), Revs!Ref("missing", 0)}
    <3>. HIDE DEF r
    <3>. QED  BY <2>1, <2>2, RevsFetched
  <2>4. revs_cached' \subseteq Revs!Refs
    BY <2>1, RevsCached DEF RevsInv, RevsTypes
  <2>5. RevsLock'
    BY <2>1, <2>2 DEF RevsInv, RevsLock
  <2>. HIDE DEF r
  <2>. QED  BY <2>1, <2>2, <2>3, <2>4, <2>5, RevsDone
<1>4. ASSUME NEW r \in revs_refs, Revs!GetRevision(r) PROVE RevsInv'
  <2>1. /\ Revs!Step /\ revs_asked' = r /\ Revs!Download(r, revs_synthetic, FALSE)
        /\ UNCHANGED <<revs_refs, revs_synthetic, revs_lock, revs_pinned>>
    BY <1>4 DEF Revs!GetRevision
  <2>2. r \in Revs!Refs /\ revs_synthetic \in SUBSET Revs!Refs /\ RevsLock'
    BY <1>4, <2>1 DEF RevsInv, RevsTypes, RevsLock
  <2>3. revs_got' \in {r, Revs!Ref("offline", 0), Revs!Ref("missing", 0)}
    BY <2>1, <2>2, RevsFetched
  <2>4. revs_cached' \subseteq Revs!Refs
    BY <2>1, RevsCached
  <2>. QED  BY <2>1, <2>2, <2>3, <2>4, RevsDone
<1>5. CASE Revs!GetLocked
  <2>1. /\ Revs!Step /\ revs_lock # Revs!None /\ revs_asked' = revs_pinned
        /\ Revs!Download(revs_lock, revs_synthetic, FALSE)
        /\ UNCHANGED <<revs_refs, revs_synthetic, revs_lock, revs_pinned>>
    BY <1>5 DEF Revs!GetLocked
  <2>2. revs_cached' \subseteq Revs!Refs /\ RevsLock' /\ revs_synthetic \in SUBSET Revs!Refs
    BY <2>1, RevsCached DEF RevsInv, RevsTypes, RevsLock
  <2>3. CASE revs_pinned \in Revs!Refs /\ revs_lock = Revs!Oid(revs_pinned)
    <3>1. revs_got' \in {revs_pinned, Revs!Ref("offline", 0), Revs!Ref("missing", 0)}
      BY <2>1, <2>2, <2>3, RevsFetched
    <3>. QED  BY <2>1, <2>2, <2>3, <3>1, RevsDone
  <2>4. CASE revs_lock = Revs!Foreign /\ revs_pinned = Revs!None
    <3>1. Revs!MsRevision(Revs!Foreign, revs_synthetic) = Revs!Foreign
      BY <2>2, RevsMapped, RevsKinds
    <3>2. Revs!Foreign \notin revs_refs /\ Revs!Foreign \notin revs_cached
      BY RevsKinds DEF RevsInv, RevsTypes
    <3>3. revs_got' \in {Revs!Ref("offline", 0), Revs!Ref("missing", 0)}
      BY <2>1, <2>4, <3>1, <3>2 DEF Revs!Download
    <3>. QED  BY <2>1, <2>2, <2>4, <3>3, RevsDone
  <2>. QED  BY <2>1, <2>3, <2>4 DEF RevsInv, RevsLock
<1>6. CASE Revs!LoadLocked
  <2>1. /\ Revs!Step /\ revs_lock # Revs!None /\ revs_asked' = revs_pinned
        /\ Revs!Download(revs_lock, revs_synthetic, TRUE)
        /\ UNCHANGED <<revs_refs, revs_synthetic, revs_lock, revs_pinned>>
    BY <1>6 DEF Revs!LoadLocked
  <2>2. revs_cached' \subseteq Revs!Refs /\ RevsLock' /\ revs_synthetic \in SUBSET Revs!Refs
    BY <2>1, RevsCached DEF RevsInv, RevsTypes, RevsLock
  <2>3. CASE revs_pinned \in Revs!Refs /\ revs_lock = Revs!Oid(revs_pinned)
    <3>1. revs_got' \in {revs_pinned, Revs!Ref("offline", 0), Revs!Ref("missing", 0)}
      BY <2>1, <2>2, <2>3, RevsFetched
    <3>. QED  BY <2>1, <2>2, <2>3, <3>1, RevsDone
  <2>4. CASE revs_lock = Revs!Foreign /\ revs_pinned = Revs!None
    <3>1. Revs!MsRevision(Revs!Foreign, revs_synthetic) = Revs!Foreign
      BY <2>2, RevsMapped, RevsKinds
    <3>2. Revs!Foreign \notin revs_refs /\ Revs!Foreign \notin revs_cached
      BY RevsKinds DEF RevsInv, RevsTypes
    <3>3. revs_got' \in {Revs!Ref("offline", 0), Revs!Ref("missing", 0)}
      BY <2>1, <2>4, <3>1, <3>2 DEF Revs!Download
    <3>. QED  BY <2>1, <2>2, <2>4, <3>3, RevsDone
  <2>. QED  BY <2>1, <2>3, <2>4 DEF RevsInv, RevsLock
<1>7. CASE Revs!Publish \/ Revs!Restart
  <2>1. /\ revs_refs \subseteq revs_refs' /\ revs_refs' \subseteq Revs!Refs
        /\ revs_synthetic' \subseteq Revs!Refs
    BY <1>7, RevsKinds DEF Revs!Publish, Revs!Restart, RevsInv, RevsTypes
  <2>2. /\ revs_asked' = Revs!None /\ revs_got' = Revs!None
        /\ UNCHANGED <<revs_cached, revs_lock, revs_pinned, revs_ops>>
    BY <1>7 DEF Revs!Publish, Revs!Restart
  <2>. QED  BY <2>1, <2>2 DEF RevsInv, RevsTypes, RevsLock, Revs!FetchedIsAskedFor
<1>8. CASE UNCHANGED Revs!vars
  BY <1>8 DEF Revs!vars, RevsInv, RevsTypes, RevsLock, Revs!FetchedIsAskedFor
<1>. QED  BY <1>1, <1>2, <1>3, <1>4, <1>5, <1>6, <1>7, <1>8 DEF Revs!Next, Revs!Rest

\* For any refs and any number of operations, restarts and publications: what is fetched is
\* the ref that was asked for, or that the lock file was made for.
THEOREM RevsHold == Revs!Spec => []RevsInv
<1>1. RevsInv /\ [Revs!Next]_Revs!vars => RevsInv'
  <2>1. RevsInv /\ UNCHANGED Revs!vars => RevsInv'
    BY DEF Revs!vars, RevsInv, RevsTypes, RevsLock, Revs!FetchedIsAskedFor
  <2>. QED  BY <2>1, RevsKept
<1>. QED  BY <1>1, RevsInit, PTL DEF Revs!Spec

LEMMA RevsGives == RevsInv => Revs!TypeOK /\ Revs!FetchedIsAskedFor
<1>1. \A r \in Revs!Refs : Revs!Oid(r) \in Revs!Revisions
  BY DEF Revs!Revisions
<1>2. Revs!Foreign \in Revs!Revisions
  BY DEF Revs!Revisions
<1>. QED  BY <1>1, <1>2, RevsKinds DEF RevsInv, RevsTypes, RevsLock, Revs!TypeOK

-----------------------------------------------------------------------------
(* Agent plugins.                                                             *)

\* What is on a plugin's directory has been published.
PluginFiles ==
  /\ plugin_hub \in [plugin_Plugins -> plugin_Packages]
  /\ DOMAIN plugin_disk = plugin_Plugins
  /\ \A p \in plugin_Plugins :
       Plugin!Range(plugin_disk[p].files) \cup Plugin!Range(plugin_disk[p].manifest)
         \subseteq Plugin!Contents

PluginTypes ==
  /\ plugin_modules \in [plugin_Plugins -> Plugin!Contents \cup {Plugin!None}]
  /\ plugin_own \subseteq plugin_Plugins /\ plugin_paths \subseteq plugin_Plugins
  /\ plugin_plugin \in plugin_Plugins
  /\ plugin_verified \subseteq plugin_Plugins \X (Plugin!Contents \cup {Plugin!None})
  /\ plugin_logged \in Plugin!Contents \cup {Plugin!None}
  /\ plugin_ran \in Plugin!Contents \cup {Plugin!None}
  /\ plugin_installs \in 0..plugin_MaxInstalls
PluginControl ==
  /\ plugin_pc \in {"idle", "fetch", "verify", "enter", "load", "run", "leave"}
  /\ plugin_result \in Plugin!Results \cup {Plugin!None, "unloadable"}
  /\ plugin_outcome \in {Plugin!None, "raised", "ok", "failed"}
PluginInserted == plugin_inserted \in BOOLEAN

\* A plugin that is fetched is trusted, and what is loaded has passed the check.
PluginChecked ==
  /\ plugin_pc # "idle" => plugin_plugin \in plugin_Trusted
  /\ plugin_pc \in {"enter", "load"} =>
       <<plugin_plugin, Plugin!EntryOf(plugin_disk[plugin_plugin].files)>> \in plugin_verified
  /\ \A p \in plugin_Plugins :
       plugin_modules[p] # Plugin!None => <<p, plugin_modules[p]>> \in plugin_verified
  /\ plugin_ran # Plugin!None =>
       plugin_plugin \in plugin_Trusted /\ <<plugin_plugin, plugin_ran>> \in plugin_verified

\* The plugin's directory is in sys.path while it runs, and goes as it came.
PluginPaths ==
  /\ plugin_pc \in {"load", "run"} => plugin_plugin \in plugin_paths
  /\ plugin_pc \in {"idle", "fetch", "verify", "enter"} => plugin_paths \subseteq plugin_own
  /\ plugin_paths \subseteq
       plugin_own \cup (IF plugin_inserted THEN {plugin_plugin} ELSE {})

\* A result is of a plugin that has run.
PluginResult ==
  /\ plugin_pc # "idle" => plugin_outcome = Plugin!None
  /\ plugin_pc = "run" => plugin_ran # Plugin!None
  /\ plugin_result \in Plugin!Results => plugin_ran # Plugin!None
  /\ plugin_outcome = "ok" => plugin_ran # Plugin!None /\ plugin_result = "ok"

PluginInv ==
  /\ PluginFiles /\ PluginTypes /\ PluginControl /\ PluginInserted
  /\ PluginChecked /\ PluginPaths /\ PluginResult

LEMMA PluginBounds ==
  /\ plugin_Plugins # {} /\ plugin_Packages # {} /\ plugin_Trusted \subseteq plugin_Plugins
  /\ plugin_MaxInstalls \in Nat
BY PluginOK DEF Plugin!ConstantsOK

\* The entry module of files is one of their contents, or missing.
LEMMA PluginEntry ==
  ASSUME NEW f, Plugin!Range(f) \subseteq Plugin!Contents
  PROVE  Plugin!EntryOf(f) \in Plugin!Contents \cup {Plugin!None}
BY DEF Plugin!EntryOf, Plugin!Range

\* A download puts nothing into a directory but what is published or was there.
LEMMA PluginFetched ==
  ASSUME PluginFiles, NEW p \in plugin_Plugins
  PROVE  Plugin!Range(Plugin!Fetched(p).files) \cup Plugin!Range(Plugin!Fetched(p).manifest)
           \subseteq Plugin!Contents
<1>1. /\ Plugin!Range(plugin_disk[p].files) \subseteq Plugin!Contents
      /\ plugin_hub[p] \in plugin_Packages
  BY DEF PluginFiles
<1>2. /\ Plugin!Range(plugin_hub[p].files) \subseteq Plugin!Contents
      /\ Plugin!Range(plugin_hub[p].manifest) \subseteq Plugin!Contents
  BY <1>1 DEF Plugin!Contents
<1>3. \A new, old : Plugin!Range(Plugin!Over(new, old)) \subseteq Plugin!Range(new) \cup Plugin!Range(old)
  BY DEF Plugin!Over, Plugin!Range
<1>4. /\ Plugin!Fetched(p).files = Plugin!Over(plugin_hub[p].files, plugin_disk[p].files)
      /\ Plugin!Fetched(p).manifest = plugin_hub[p].manifest
  BY DEF Plugin!Fetched
<1>. QED  BY <1>1, <1>2, <1>3, <1>4

LEMMA PluginInit == Plugin!Init => PluginInv
<1>. SUFFICES ASSUME Plugin!Init PROVE PluginInv
  OBVIOUS
<1>1. PluginFiles
  <2>1. plugin_hub \in [plugin_Plugins -> plugin_Packages]
    BY PluginBounds DEF Plugin!Init
  <2>2. \A p \in plugin_Plugins : plugin_disk[p] = Plugin!Bare /\ DOMAIN plugin_disk = plugin_Plugins
    BY DEF Plugin!Init
  <2>3. Plugin!Bare.files = Plugin!Empty /\ Plugin!Bare.manifest = Plugin!Empty
    BY DEF Plugin!Bare
  <2>4. Plugin!Range(Plugin!Empty) = {}
    BY DEF Plugin!Empty, Plugin!Range
  <2>5. DOMAIN plugin_disk = plugin_Plugins
    BY DEF Plugin!Init
  <2>. QED  BY <2>1, <2>2, <2>3, <2>4, <2>5 DEF PluginFiles
<1>2. PluginTypes
  BY PluginBounds DEF Plugin!Init, PluginTypes
<1>3. PluginControl /\ PluginChecked /\ PluginResult
  BY DEF Plugin!Init, PluginControl, PluginChecked, PluginResult, Plugin!None, Plugin!Results
<1>4. PluginInserted
  BY Zenon DEF Plugin!Init, PluginInserted
<1>5. PluginPaths
  BY DEF Plugin!Init, PluginPaths
<1>. QED  BY <1>1, <1>2, <1>3, <1>4, <1>5 DEF PluginInv

\* A step leaves directories of published files ...
LEMMA PluginFilesKept ==
  ASSUME PluginInv, Plugin!Next
  PROVE  PluginFiles'
<1>. USE DEF PluginInv, PluginFiles, Plugin!call
<1>1. ASSUME NEW p \in plugin_Plugins, Plugin!Begin(p) PROVE PluginFiles'
  BY <1>1 DEF Plugin!Begin, Plugin!Allowed
<1>2. ASSUME NEW p \in plugin_Plugins, Plugin!OwnPath(p) PROVE PluginFiles'
  BY <1>2 DEF Plugin!OwnPath
<1>3. ASSUME NEW p \in plugin_Plugins, NEW k \in plugin_Packages, Plugin!Publish(p, k) PROVE PluginFiles'
  BY <1>3 DEF Plugin!Publish
<1>4. CASE Plugin!Fetch
  <2>1. CASE UNCHANGED plugin_disk
    BY <1>4, <2>1 DEF Plugin!Fetch
  <2>2. CASE plugin_disk' = [plugin_disk EXCEPT ![plugin_plugin] = Plugin!Fetched(plugin_plugin)]
    <3>1. plugin_plugin \in plugin_Plugins /\ UNCHANGED plugin_hub
      BY <1>4 DEF Plugin!Fetch, PluginTypes
    <3>2. \A p \in plugin_Plugins :
            plugin_disk'[p] = IF p = plugin_plugin THEN Plugin!Fetched(p) ELSE plugin_disk[p]
      BY <2>2, <3>1
    <3>. QED  BY <2>2, <3>1, <3>2, PluginFetched
  <2>. QED  BY <1>4, <2>1, <2>2 DEF Plugin!Fetch
<1>5. CASE Plugin!Verify
  BY <1>5 DEF Plugin!Verify, Plugin!Raise
<1>6. CASE Plugin!EnterPath
  BY <1>6 DEF Plugin!EnterPath
<1>7. CASE Plugin!Load
  BY <1>7 DEF Plugin!Load
<1>8. CASE Plugin!Run
  BY <1>8 DEF Plugin!Run
<1>9. CASE Plugin!Leave
  BY <1>9 DEF Plugin!Leave, Plugin!Left, Plugin!Outcome
<1>10. CASE UNCHANGED Plugin!vars
  BY <1>10 DEF Plugin!vars
<1>. QED  BY <1>1, <1>2, <1>3, <1>4, <1>5, <1>6, <1>7, <1>8, <1>9, <1>10 DEF Plugin!Next,
   Plugin!Rest

\* ... the types ...
LEMMA PluginTypesKept ==
  ASSUME PluginInv, Plugin!Next
  PROVE  PluginTypes'
<1>. USE PluginBounds DEF PluginInv, PluginTypes, Plugin!call
<1>1. ASSUME NEW p \in plugin_Plugins, Plugin!Begin(p) PROVE PluginTypes'
  BY <1>1 DEF Plugin!Begin, Plugin!Allowed
<1>2. ASSUME NEW p \in plugin_Plugins, Plugin!OwnPath(p) PROVE PluginTypes'
  BY <1>2 DEF Plugin!OwnPath
<1>3. ASSUME NEW p \in plugin_Plugins, NEW k \in plugin_Packages, Plugin!Publish(p, k) PROVE PluginTypes'
  BY <1>3 DEF Plugin!Publish
<1>4. CASE Plugin!Fetch
  BY <1>4 DEF Plugin!Fetch, Plugin!Raise
<1>5. CASE Plugin!Verify
  <2>. DEFINE d == plugin_disk[plugin_plugin]
  <2>1. Plugin!EntryOf(d.manifest) \in Plugin!Contents \cup {Plugin!None}
    <3>1. Plugin!Range(d.manifest) \subseteq Plugin!Contents
      BY DEF PluginFiles
    <3>. QED  BY <3>1, PluginEntry
  <2>2. CASE Plugin!Verifies(d)
    BY <1>5, <2>1, <2>2 DEF Plugin!Verify
  <2>3. CASE ~Plugin!Verifies(d)
    BY <1>5, <2>3 DEF Plugin!Verify
  <2>. QED  BY <2>2, <2>3
<1>6. CASE Plugin!EnterPath
  BY <1>6 DEF Plugin!EnterPath
<1>7. CASE Plugin!Load
  <2>. DEFINE e == Plugin!EntryOf(plugin_disk[plugin_plugin].files)
  <2>1. e \in Plugin!Contents \cup {Plugin!None}
    <3>1. Plugin!Range(plugin_disk[plugin_plugin].files) \subseteq Plugin!Contents
      BY DEF PluginFiles
    <3>. QED  BY <3>1, PluginEntry
  <2>. HIDE DEF e
  <2>2. /\ plugin_modules' \in {plugin_modules, [plugin_modules EXCEPT ![plugin_plugin] = e]}
        /\ plugin_ran' \in {plugin_modules[plugin_plugin], e, plugin_ran}
        /\ plugin_paths' \subseteq plugin_paths
        /\ UNCHANGED <<plugin_own, plugin_plugin, plugin_verified, plugin_logged, plugin_installs>>
    BY <1>7 DEF Plugin!Load, e
  <2>. QED  BY <2>1, <2>2
<1>8. CASE Plugin!Run
  BY <1>8 DEF Plugin!Run
<1>9. CASE Plugin!Leave
  BY <1>9 DEF Plugin!Leave, Plugin!Left, Plugin!Outcome
<1>10. CASE UNCHANGED Plugin!vars
  BY <1>10 DEF Plugin!vars
<1>. QED  BY <1>1, <1>2, <1>3, <1>4, <1>5, <1>6, <1>7, <1>8, <1>9, <1>10 DEF Plugin!Next,
   Plugin!Rest

LEMMA PluginControlKept ==
  ASSUME PluginInv, Plugin!Next
  PROVE  PluginControl'
<1>. USE DEF PluginInv, PluginControl, Plugin!Results, Plugin!call
<1>1. ASSUME NEW p \in plugin_Plugins, Plugin!Begin(p) PROVE PluginControl'
  BY <1>1 DEF Plugin!Begin, Plugin!Allowed
<1>2. ASSUME NEW p \in plugin_Plugins, Plugin!OwnPath(p) PROVE PluginControl'
  BY <1>2 DEF Plugin!OwnPath
<1>3. ASSUME NEW p \in plugin_Plugins, NEW k \in plugin_Packages, Plugin!Publish(p, k) PROVE PluginControl'
  BY <1>3 DEF Plugin!Publish
<1>4. CASE Plugin!Fetch
  BY <1>4 DEF Plugin!Fetch, Plugin!Raise
<1>5. CASE Plugin!Verify
  BY <1>5 DEF Plugin!Verify, Plugin!Raise
<1>6. CASE Plugin!EnterPath
  BY <1>6 DEF Plugin!EnterPath
<1>7. CASE Plugin!Load
  BY <1>7 DEF Plugin!Load
<1>8. CASE Plugin!Run
  BY <1>8 DEF Plugin!Run
<1>9. CASE Plugin!Leave
  BY <1>9 DEF Plugin!Leave, Plugin!Left, Plugin!Outcome
<1>10. CASE UNCHANGED Plugin!vars
  BY <1>10 DEF Plugin!vars
<1>. QED  BY <1>1, <1>2, <1>3, <1>4, <1>5, <1>6, <1>7, <1>8, <1>9, <1>10 DEF Plugin!Next,
   Plugin!Rest

LEMMA PluginInsertedKept ==
  ASSUME PluginInv, Plugin!Next
  PROVE  PluginInserted'
<1>. USE DEF PluginInv, PluginInserted
<1>1. CASE Plugin!EnterPath
  BY <1>1, Zenon DEF Plugin!EnterPath
<1>2. CASE UNCHANGED plugin_inserted
  BY <1>2
<1>. QED  BY <1>1, <1>2 DEF Plugin!Next, Plugin!Rest, Plugin!Begin, Plugin!OwnPath,
   Plugin!Publish, Plugin!Fetch, Plugin!Verify, Plugin!Load, Plugin!Run, Plugin!Leave,
   Plugin!vars, Plugin!call

\* ... and no plugin loaded or run that has not passed the check.
LEMMA PluginCheckedKept ==
  ASSUME PluginInv, Plugin!Next
  PROVE  PluginChecked'
<1>. USE DEF PluginInv, PluginTypes, PluginFiles, PluginChecked, Plugin!call
<1>1. ASSUME NEW p \in plugin_Plugins, Plugin!Begin(p) PROVE PluginChecked'
  BY <1>1 DEF Plugin!Begin, Plugin!Allowed
<1>2. ASSUME NEW p \in plugin_Plugins, Plugin!OwnPath(p) PROVE PluginChecked'
  BY <1>2 DEF Plugin!OwnPath
<1>3. ASSUME NEW p \in plugin_Plugins, NEW k \in plugin_Packages, Plugin!Publish(p, k) PROVE PluginChecked'
  BY <1>3 DEF Plugin!Publish
<1>4. CASE Plugin!Fetch
  BY <1>4 DEF Plugin!Fetch, Plugin!Raise
<1>5. CASE Plugin!Verify
  <2>. DEFINE d == plugin_disk[plugin_plugin]
  <2>1. CASE Plugin!Verifies(d)
    <3>1. d.files = d.manifest
      BY <2>1 DEF Plugin!Verifies
    <3>. QED  BY <1>5, <2>1, <3>1 DEF Plugin!Verify
  <2>2. CASE ~Plugin!Verifies(d)
    BY <1>5, <2>2 DEF Plugin!Verify, Plugin!Raise
  <2>. QED  BY <2>1, <2>2
<1>6. CASE Plugin!EnterPath
  BY <1>6 DEF Plugin!EnterPath
<1>7. CASE Plugin!Load
  <2>. DEFINE e == Plugin!EntryOf(plugin_disk[plugin_plugin].files)
  <2>1. <<plugin_plugin, e>> \in plugin_verified /\ plugin_plugin \in plugin_Trusted
    BY <1>7 DEF Plugin!Load
  <2>. HIDE DEF e
  <2>2. /\ plugin_pc' \in {"run", "leave"}
        /\ UNCHANGED <<plugin_disk, plugin_plugin, plugin_verified>>
    BY <1>7 DEF Plugin!Load
  <2>3. CASE plugin_modules[plugin_plugin] # Plugin!None
    BY <1>7, <2>1, <2>2, <2>3 DEF Plugin!Load
  <2>4. CASE plugin_modules[plugin_plugin] = Plugin!None /\ e \notin plugin_Broken \cup {Plugin!None}
    <3>1. plugin_modules' = [plugin_modules EXCEPT ![plugin_plugin] = e] /\ plugin_ran' = e
      BY <1>7, <2>4 DEF Plugin!Load, e
    <3>. QED  BY <2>1, <2>2, <3>1
  <2>5. CASE plugin_modules[plugin_plugin] = Plugin!None /\ e \in plugin_Broken \cup {Plugin!None}
    BY <1>7, <2>2, <2>5 DEF Plugin!Load, e
  <2>. QED  BY <2>3, <2>4, <2>5
<1>8. CASE Plugin!Run
  BY <1>8 DEF Plugin!Run
<1>9. CASE Plugin!Leave
  BY <1>9 DEF Plugin!Leave, Plugin!Left, Plugin!Outcome
<1>10. CASE UNCHANGED Plugin!vars
  BY <1>10 DEF Plugin!vars
<1>. QED  BY <1>1, <1>2, <1>3, <1>4, <1>5, <1>6, <1>7, <1>8, <1>9, <1>10 DEF Plugin!Next,
   Plugin!Rest

\* ... no directory in sys.path that was not there ...
LEMMA PluginPathsKept ==
  ASSUME PluginInv, Plugin!Next
  PROVE  PluginPaths'
<1>. USE DEF PluginInv, PluginPaths, PluginInserted, Plugin!call
<1>1. ASSUME NEW p \in plugin_Plugins, Plugin!Begin(p) PROVE PluginPaths'
  BY <1>1 DEF Plugin!Begin, Plugin!Allowed
<1>2. ASSUME NEW p \in plugin_Plugins, Plugin!OwnPath(p) PROVE PluginPaths'
  BY <1>2 DEF Plugin!OwnPath
<1>3. ASSUME NEW p \in plugin_Plugins, NEW k \in plugin_Packages, Plugin!Publish(p, k) PROVE PluginPaths'
  BY <1>3 DEF Plugin!Publish
<1>4. CASE Plugin!Fetch
  BY <1>4 DEF Plugin!Fetch, Plugin!Raise
<1>5. CASE Plugin!Verify
  BY <1>5 DEF Plugin!Verify, Plugin!Raise
<1>6. CASE Plugin!EnterPath
  BY <1>6 DEF Plugin!EnterPath
<1>7. CASE Plugin!Load
  BY <1>7 DEF Plugin!Load
<1>8. CASE Plugin!Run
  BY <1>8 DEF Plugin!Run
<1>9. CASE Plugin!Leave
  BY <1>9 DEF Plugin!Leave, Plugin!Left, Plugin!Outcome
<1>10. CASE UNCHANGED Plugin!vars
  BY <1>10 DEF Plugin!vars
<1>. QED  BY <1>1, <1>2, <1>3, <1>4, <1>5, <1>6, <1>7, <1>8, <1>9, <1>10 DEF Plugin!Next,
   Plugin!Rest

\* ... and no result of a plugin that has not run.
LEMMA PluginResultKept ==
  ASSUME PluginInv, Plugin!Next
  PROVE  PluginResult'
<1>. USE DEF PluginInv, PluginControl, PluginResult, Plugin!Results, Plugin!None, Plugin!call
<1>1. ASSUME NEW p \in plugin_Plugins, Plugin!Begin(p) PROVE PluginResult'
  BY <1>1 DEF Plugin!Begin, Plugin!Allowed
<1>2. ASSUME NEW p \in plugin_Plugins, Plugin!OwnPath(p) PROVE PluginResult'
  BY <1>2 DEF Plugin!OwnPath
<1>3. ASSUME NEW p \in plugin_Plugins, NEW k \in plugin_Packages, Plugin!Publish(p, k) PROVE PluginResult'
  BY <1>3 DEF Plugin!Publish
<1>4. CASE Plugin!Fetch
  BY <1>4 DEF Plugin!Fetch, Plugin!Raise
<1>5. CASE Plugin!Verify
  BY <1>5 DEF Plugin!Verify, Plugin!Raise
<1>6. CASE Plugin!EnterPath
  BY <1>6 DEF Plugin!EnterPath
<1>7. CASE Plugin!Load
  BY <1>7 DEF Plugin!Load
<1>8. CASE Plugin!Run
  BY <1>8 DEF Plugin!Run
<1>9. CASE Plugin!Leave
  BY <1>9 DEF Plugin!Leave, Plugin!Left, Plugin!Outcome
<1>10. CASE UNCHANGED Plugin!vars
  BY <1>10 DEF Plugin!vars
<1>. QED  BY <1>1, <1>2, <1>3, <1>4, <1>5, <1>6, <1>7, <1>8, <1>9, <1>10 DEF Plugin!Next,
   Plugin!Rest

\* For any plugins, packages and number of calls: what is loaded has passed the check of its own
\* directory, and sys.path is left as it was.
THEOREM PluginHolds == Plugin!Spec => []PluginInv
<1>1. PluginInv /\ [Plugin!Next]_Plugin!vars => PluginInv'
  <2>. SUFFICES ASSUME PluginInv, [Plugin!Next]_Plugin!vars PROVE PluginInv'
    OBVIOUS
  <2>1. CASE Plugin!Next
    BY <2>1, PluginFilesKept, PluginTypesKept, PluginControlKept, PluginInsertedKept,
       PluginCheckedKept, PluginPathsKept, PluginResultKept DEF PluginInv
  <2>2. CASE UNCHANGED Plugin!vars
    BY <2>2 DEF Plugin!vars, Plugin!call, PluginInv, PluginFiles, PluginTypes, PluginControl,
       PluginInserted, PluginChecked, PluginPaths, PluginResult
  <2>. QED  BY <2>1, <2>2
<1>. QED  BY <1>1, PluginInit, PTL DEF Plugin!Spec

LEMMA PluginGives == PluginInv => Plugin!TypeOK /\ Plugin!OnlyVerifiedRuns
<1>. SUFFICES ASSUME PluginInv PROVE Plugin!TypeOK /\ Plugin!OnlyVerifiedRuns
  OBVIOUS
<1>1. /\ PluginFiles /\ PluginTypes /\ PluginControl /\ PluginInserted
      /\ PluginChecked /\ PluginPaths /\ PluginResult
  BY DEF PluginInv
<1>2. Plugin!TypeOK
  BY <1>1, Zenon DEF PluginFiles, PluginTypes, PluginControl, PluginInserted, Plugin!TypeOK
<1>3. Plugin!OnlyVerifiedRuns
  BY <1>1 DEF PluginChecked, PluginPaths, PluginResult, Plugin!OnlyVerifiedRuns
<1>. QED  BY <1>2, <1>3

-----------------------------------------------------------------------------
(* The patch of the kernels library, by one thread.                           *)

\* The variables of the patch are the process's, and a thread that leaves undoes the patch
\* under another that is still in its call: what is said of a call is said of one thread.
OneThread == \A t, u \in patch_Threads : t = u

PatchLib ==
  /\ patch_loaded \subseteq patch_Submodules /\ patch_astray \subseteq patch_loaded
  /\ patch_api \in [Patch!Modules -> Patch!Hubs]
  /\ patch_origin \in [Patch!Modules -> Patch!Hubs \cup {"none"}]
PatchControl ==
  /\ patch_pc \in [patch_Threads -> {"idle", "scope", "patch", "save", "replace", "sweep",
                                     "call", "unpatch", "restore", "home"}]
  /\ patch_saw \in [patch_Threads -> Patch!Hubs \cup {"none"}]
  /\ patch_calls \in 0..patch_MaxCalls
PatchScopes   == patch_scopes \in [patch_Threads -> Seq(BOOLEAN)]
PatchExplicit == patch_explicit \in BOOLEAN

\* The library is wholly ModelScope's, wholly its own, or in the middle of a change, the home
\* module being patched and the others not.  Nothing is said of the modules that went astray
\* but that they are ModelScope's while the others are.
PatchLive == patch_loaded \cup {"home"}
PatchKept == Patch!Modules \ patch_astray
PatchOn ==
  /\ patch_origin["home"] = "hf"
  /\ \A m \in PatchKept : patch_origin[m] \in {"hf", "none"}
  /\ \A m \in Patch!Modules \ PatchLive : patch_origin[m] = "none"
  /\ \A m \in PatchLive : patch_api[m] = "ms"
PatchBegun ==
  /\ \A m \in Patch!Modules \ {"home"} : patch_origin[m] = "none"
  /\ \A m \in (PatchLive \cap PatchKept) \ {"home"} : patch_api[m] = "hf"
PatchOff    == PatchBegun /\ patch_api["home"] = "hf" /\ patch_origin["home"] = "none"
PatchHalfOn == PatchBegun /\ patch_api["home"] = "hf" /\ patch_origin["home"] = "hf"
PatchHalf   == PatchBegun /\ patch_api["home"] = "ms" /\ patch_origin["home"] = "hf"

\* The outermost scope alone undoes the patch, and only one that the user has not asked for.
PatchNesting ==
  \A t \in patch_Threads :
    /\ Len(patch_scopes[t]) >= 1 => (patch_scopes[t][1] <=> ~patch_explicit)
    /\ \A i \in 2..Len(patch_scopes[t]) : ~patch_scopes[t][i]

\* Who applies the patch: the outermost scope, or the user outside of any.
PatchApplies(t) ==
  \/ Len(patch_scopes[t]) = 1 /\ ~patch_explicit
  \/ Len(patch_scopes[t]) = 0 /\ patch_explicit
PatchAt(t) ==
  /\ patch_pc[t] = "idle" =>
       /\ Len(patch_scopes[t]) = 0
       /\ patch_explicit => PatchOn
       /\ ~patch_explicit => PatchOff
  /\ patch_pc[t] = "scope" =>
       /\ Len(patch_scopes[t]) = 0 /\ ~patch_explicit => PatchOff
       /\ Len(patch_scopes[t]) > 0 \/ patch_explicit => PatchOn
  /\ patch_pc[t] \in {"patch", "save"} => PatchOff /\ PatchApplies(t)
  /\ patch_pc[t] = "replace" => PatchHalfOn /\ PatchApplies(t)
  /\ patch_pc[t] = "sweep" => PatchHalf /\ PatchApplies(t)
  /\ patch_pc[t] = "call" => PatchOn /\ Len(patch_scopes[t]) > 0
  /\ patch_pc[t] \in {"unpatch", "restore"} =>
       PatchOn /\ Len(patch_scopes[t]) = 0 /\ ~patch_explicit
  /\ patch_pc[t] = "home" => PatchHalf /\ Len(patch_scopes[t]) = 0 /\ ~patch_explicit
  /\ patch_pc[t] \in {"restore", "home"} => patch_saw[t] = "hf"

PatchInv ==
  /\ PatchLib /\ PatchControl /\ PatchScopes /\ PatchExplicit /\ PatchNesting
  /\ \A t \in patch_Threads : PatchAt(t)

LEMMA PatchBounds ==
  /\ patch_Threads # {} /\ "install" \in patch_Submodules /\ "home" \notin patch_Submodules
  /\ "home" \in Patch!Modules /\ patch_Submodules \subseteq Patch!Modules
  /\ patch_MaxCalls \in Nat /\ patch_MaxDepth \in Nat \ {0}
BY PatchOK DEF Patch!ConstantsOK, Patch!Modules

LEMMA PatchInit == Patch!Init => PatchInv
<1>. SUFFICES ASSUME Patch!Init PROVE PatchInv
  OBVIOUS
<1>. USE PatchBounds DEF Patch!Init
<1>1. PatchLib /\ PatchControl
  BY DEF PatchLib, PatchControl, Patch!Hubs
<1>2. PatchScopes
  BY DEF PatchScopes
<1>3. PatchExplicit
  BY Zenon DEF PatchExplicit
<1>4. PatchNesting
  BY DEF PatchNesting
<1>5. PatchOff
  BY DEF PatchOff, PatchBegun, PatchLive, PatchKept, Patch!Modules
<1>6. \A t \in patch_Threads : PatchAt(t)
  BY <1>5 DEF PatchAt
<1>. QED  BY <1>1, <1>2, <1>3, <1>4, <1>6 DEF PatchInv

\* A step leaves the modules a factory and an origin ...
LEMMA PatchLibKept ==
  ASSUME PatchInv, Patch!Next
  PROVE  PatchLib'
<1>. USE PatchBounds DEF PatchInv, PatchLib, PatchControl, Patch!Hubs, Patch!lib, Patch!locals,
   Patch!Go
<1>1. ASSUME NEW m \in patch_Submodules, Patch!Import(m) PROVE PatchLib'
  BY <1>1 DEF Patch!Import, Patch!Load
<1>2. ASSUME NEW t \in patch_Threads, Patch!GetKernel(t) PROVE PatchLib'
  BY <1>2 DEF Patch!GetKernel, Patch!Enter
<1>3. ASSUME NEW t \in patch_Threads, Patch!InstallAll(t) PROVE PatchLib'
  BY <1>3 DEF Patch!InstallAll, Patch!Enter, Patch!Load
<1>4. ASSUME NEW t \in patch_Threads, Patch!Scope(t) PROVE PatchLib'
  BY <1>4 DEF Patch!Scope, Patch!OpenScope
<1>5. ASSUME NEW t \in patch_Threads, Patch!Check(t) PROVE PatchLib'
  BY <1>5 DEF Patch!Check
<1>6. ASSUME NEW t \in patch_Threads, Patch!Save(t) PROVE PatchLib'
  BY <1>6 DEF Patch!Save
<1>7. ASSUME NEW t \in patch_Threads, Patch!Replace(t) PROVE PatchLib'
  BY <1>7 DEF Patch!Replace
<1>8. ASSUME NEW t \in patch_Threads, Patch!Leave(t) PROVE PatchLib'
  BY <1>8 DEF Patch!Leave
<1>9. ASSUME NEW t \in patch_Threads, Patch!ReadOrigin(t) PROVE PatchLib'
  BY <1>9 DEF Patch!ReadOrigin
<1>10. ASSUME NEW t \in patch_Threads, Patch!Restore(t) PROVE PatchLib'
  <2>1. patch_saw[t] = "hf"
    BY <1>10 DEF PatchAt, Patch!Restore
  <2>. QED  BY <1>10, <2>1 DEF Patch!Restore, Patch!Restored, Patch!Own
<1>11. ASSUME NEW t \in patch_Threads, Patch!PatchForGood(t) PROVE PatchLib'
  BY <1>11 DEF Patch!PatchForGood
<1>12. ASSUME NEW t \in patch_Threads, Patch!Unpatch(t) PROVE PatchLib'
  BY <1>12 DEF Patch!Unpatch
<1>13. ASSUME NEW t \in patch_Threads, Patch!Sweep(t) PROVE PatchLib'
  BY <1>13 DEF Patch!Sweep, Patch!Fresh
<1>14. ASSUME NEW t \in patch_Threads, Patch!RestoreHome(t) PROVE PatchLib'
  <2>1. patch_saw[t] = "hf"
    BY <1>14 DEF PatchAt, Patch!RestoreHome
  <2>. QED  BY <1>14, <2>1 DEF Patch!RestoreHome
<1>. QED  BY <1>1, <1>2, <1>3, <1>4, <1>5, <1>6, <1>7, <1>8, <1>9, <1>10, <1>11, <1>12,
   <1>13, <1>14 DEF
   Patch!Next

LEMMA PatchControlKept ==
  ASSUME PatchInv, Patch!Next
  PROVE  PatchControl'
<1>. USE PatchBounds DEF PatchInv, PatchLib, PatchControl, Patch!Resting, Patch!Hubs, Patch!lib,
   Patch!locals, Patch!Go
<1>1. ASSUME NEW m \in patch_Submodules, Patch!Import(m) PROVE PatchControl'
  BY <1>1 DEF Patch!Import, Patch!Load
<1>2. ASSUME NEW t \in patch_Threads, Patch!GetKernel(t) PROVE PatchControl'
  BY <1>2 DEF Patch!GetKernel, Patch!Enter
<1>3. ASSUME NEW t \in patch_Threads, Patch!InstallAll(t) PROVE PatchControl'
  BY <1>3 DEF Patch!InstallAll, Patch!Enter, Patch!Load
<1>4. ASSUME NEW t \in patch_Threads, Patch!Scope(t) PROVE PatchControl'
  BY <1>4 DEF Patch!Scope, Patch!OpenScope
<1>5. ASSUME NEW t \in patch_Threads, Patch!Check(t) PROVE PatchControl'
  BY <1>5 DEF Patch!Check
<1>6. ASSUME NEW t \in patch_Threads, Patch!Save(t) PROVE PatchControl'
  BY <1>6 DEF Patch!Save
<1>7. ASSUME NEW t \in patch_Threads, Patch!Replace(t) PROVE PatchControl'
  BY <1>7 DEF Patch!Replace
<1>8. ASSUME NEW t \in patch_Threads, Patch!Leave(t) PROVE PatchControl'
  BY <1>8 DEF Patch!Leave
<1>9. ASSUME NEW t \in patch_Threads, Patch!ReadOrigin(t) PROVE PatchControl'
  BY <1>9 DEF Patch!ReadOrigin
<1>10. ASSUME NEW t \in patch_Threads, Patch!Restore(t) PROVE PatchControl'
  BY <1>10 DEF Patch!Restore, Patch!Restored, Patch!Own
<1>11. ASSUME NEW t \in patch_Threads, Patch!PatchForGood(t) PROVE PatchControl'
  BY <1>11 DEF Patch!PatchForGood
<1>12. ASSUME NEW t \in patch_Threads, Patch!Unpatch(t) PROVE PatchControl'
  BY <1>12 DEF Patch!Unpatch
<1>13. ASSUME NEW t \in patch_Threads, Patch!Sweep(t) PROVE PatchControl'
  BY <1>13 DEF Patch!Sweep, Patch!Fresh
<1>14. ASSUME NEW t \in patch_Threads, Patch!RestoreHome(t) PROVE PatchControl'
  BY <1>14 DEF Patch!RestoreHome
<1>. QED  BY <1>1, <1>2, <1>3, <1>4, <1>5, <1>6, <1>7, <1>8, <1>9, <1>10, <1>11, <1>12,
   <1>13, <1>14 DEF
   Patch!Next

LEMMA PatchExplicitKept ==
  ASSUME PatchExplicit, Patch!Next
  PROVE  PatchExplicit'
<1>1. patch_explicit' \in {patch_explicit, TRUE, FALSE}
  BY DEF Patch!Next, Patch!lib, Patch!locals, Patch!Import, Patch!Enter, Patch!GetKernel,
     Patch!InstallAll, Patch!Scope, Patch!Check, Patch!Save, Patch!Replace, Patch!Leave,
     Patch!ReadOrigin, Patch!Restore, Patch!PatchForGood, Patch!Unpatch, Patch!Sweep,
     Patch!RestoreHome
<1>. QED  BY <1>1, Zenon DEF PatchExplicit

\* One more scope, its owner told; the ones around it are as they were.
LEMMA PatchOpened ==
  ASSUME NEW s \in Seq(BOOLEAN), NEW b \in BOOLEAN
  PROVE  /\ Append(s, b) \in Seq(BOOLEAN)
         /\ Len(Append(s, b)) = Len(s) + 1
         /\ \A i \in 1..Len(s) : Append(s, b)[i] = s[i]
         /\ Append(s, b)[Len(s) + 1] = b
OBVIOUS

LEMMA PatchOne == \A s : Len(s) = 1 => s # <<>>
<1>1. Len(<<>>) = 0 /\ 0 # 1
  OBVIOUS
<1>. QED  BY <1>1, Zenon

\* A scope is opened.
PatchOpens(t, b) ==
  /\ patch_scopes' = [patch_scopes EXCEPT ![t] = Append(patch_scopes[t], b)]
  /\ UNCHANGED <<patch_loaded, patch_api, patch_origin, patch_astray, patch_explicit>>
LEMMA PatchScoped ==
  ASSUME NEW t \in patch_Threads, PatchInv, Patch!Scope(t)
  PROVE  \/ /\ Patch!Patched /\ PatchOpens(t, FALSE)
            /\ patch_pc' = [patch_pc EXCEPT ![t] = "call"]
         \/ /\ ~Patch!Patched /\ PatchOpens(t, TRUE)
            /\ patch_pc' = [patch_pc EXCEPT ![t] = "patch"]
BY DEF Patch!Scope, Patch!OpenScope, PatchOpens, Patch!lib, Patch!Go

\* ... the scopes theirs ...
LEMMA PatchScopesKept ==
  ASSUME PatchInv, Patch!Next
  PROVE  PatchScopes'
<1>. USE PatchBounds DEF PatchInv, PatchScopes, Patch!lib, Patch!locals, Patch!Go
<1>1. ASSUME NEW m \in patch_Submodules, Patch!Import(m) PROVE PatchScopes'
  BY <1>1 DEF Patch!Import, Patch!Load
<1>2. ASSUME NEW t \in patch_Threads, Patch!GetKernel(t) PROVE PatchScopes'
  BY <1>2 DEF Patch!GetKernel, Patch!Enter
<1>3. ASSUME NEW t \in patch_Threads, Patch!InstallAll(t) PROVE PatchScopes'
  BY <1>3 DEF Patch!InstallAll, Patch!Enter, Patch!Load
<1>4. ASSUME NEW t \in patch_Threads, Patch!Scope(t) PROVE PatchScopes'
  <2>. patch_scopes[t] \in Seq(BOOLEAN) /\ Len(patch_scopes[t]) \in Nat
    OBVIOUS
  <2>1. CASE PatchOpens(t, FALSE)
    BY <2>1, PatchOpened DEF PatchOpens
  <2>2. CASE PatchOpens(t, TRUE)
    BY <2>2, PatchOpened DEF PatchOpens
  <2>. QED  BY <1>4, <2>1, <2>2, PatchScoped
<1>5. ASSUME NEW t \in patch_Threads, Patch!Check(t) PROVE PatchScopes'
  BY <1>5 DEF Patch!Check
<1>6. ASSUME NEW t \in patch_Threads, Patch!Save(t) PROVE PatchScopes'
  BY <1>6 DEF Patch!Save
<1>7. ASSUME NEW t \in patch_Threads, Patch!Replace(t) PROVE PatchScopes'
  BY <1>7 DEF Patch!Replace
<1>8. ASSUME NEW t \in patch_Threads, Patch!Leave(t) PROVE PatchScopes'
  BY <1>8 DEF Patch!Leave
<1>9. ASSUME NEW t \in patch_Threads, Patch!ReadOrigin(t) PROVE PatchScopes'
  BY <1>9 DEF Patch!ReadOrigin
<1>10. ASSUME NEW t \in patch_Threads, Patch!Restore(t) PROVE PatchScopes'
  BY <1>10 DEF Patch!Restore, Patch!Restored, Patch!Own
<1>11. ASSUME NEW t \in patch_Threads, Patch!PatchForGood(t) PROVE PatchScopes'
  BY <1>11 DEF Patch!PatchForGood
<1>12. ASSUME NEW t \in patch_Threads, Patch!Unpatch(t) PROVE PatchScopes'
  BY <1>12 DEF Patch!Unpatch
<1>13. ASSUME NEW t \in patch_Threads, Patch!Sweep(t) PROVE PatchScopes'
  BY <1>13 DEF Patch!Sweep, Patch!Fresh
<1>14. ASSUME NEW t \in patch_Threads, Patch!RestoreHome(t) PROVE PatchScopes'
  BY <1>14 DEF Patch!RestoreHome
<1>. QED  BY <1>1, <1>2, <1>3, <1>4, <1>5, <1>6, <1>7, <1>8, <1>9, <1>10, <1>11, <1>12,
   <1>13, <1>14 DEF
   Patch!Next

\* ... properly nested, ...
LEMMA PatchNestingKept ==
  ASSUME OneThread, PatchInv, Patch!Next
  PROVE  PatchNesting'
<1>. USE PatchBounds DEF OneThread, PatchInv, PatchScopes, PatchNesting, PatchAt, Patch!lib,
   Patch!locals, Patch!Go
<1>1. ASSUME NEW m \in patch_Submodules, Patch!Import(m) PROVE PatchNesting'
  BY <1>1 DEF Patch!Import, Patch!Load
<1>2. ASSUME NEW t \in patch_Threads, Patch!GetKernel(t) PROVE PatchNesting'
  BY <1>2 DEF Patch!GetKernel, Patch!Enter
<1>3. ASSUME NEW t \in patch_Threads, Patch!InstallAll(t) PROVE PatchNesting'
  BY <1>3 DEF Patch!InstallAll, Patch!Enter, Patch!Load
<1>4. ASSUME NEW t \in patch_Threads, Patch!Scope(t) PROVE PatchNesting'
  <2>. DEFINE s == patch_scopes[t]
  <2>1. s \in Seq(BOOLEAN) /\ Len(s) \in Nat /\ PatchAt(t) /\ patch_pc[t] = "scope"
    BY <1>4 DEF Patch!Scope
  <2>2. Patch!Patched <=> ~(Len(s) = 0 /\ ~patch_explicit)
    BY <2>1 DEF Patch!Patched, PatchOn, PatchOff
  <2>. SUFFICES /\ Len(patch_scopes'[t]) >= 1 => (patch_scopes'[t][1] <=> ~patch_explicit')
                /\ \A i \in 2..Len(patch_scopes'[t]) : ~patch_scopes'[t][i]
    BY DEF OneThread
  <2>3. /\ Len(s) >= 1 => (s[1] <=> ~patch_explicit)
        /\ \A i \in 2..Len(s) : ~s[i]
    BY DEF PatchNesting
  <2>4. CASE PatchOpens(t, FALSE) /\ Patch!Patched
    <3>1. patch_scopes'[t] = Append(s, FALSE) /\ patch_explicit' = patch_explicit
      BY <2>4 DEF PatchOpens
    <3>2. /\ Len(Append(s, FALSE)) = Len(s) + 1 /\ Append(s, FALSE)[Len(s) + 1] = FALSE
          /\ \A i \in 1..Len(s) : Append(s, FALSE)[i] = s[i]
      BY <2>1, PatchOpened
    <3>. QED  BY <2>1, <2>2, <2>3, <2>4, <3>1, <3>2
  <2>5. CASE PatchOpens(t, TRUE) /\ ~Patch!Patched
    <3>1. patch_scopes'[t] = Append(s, TRUE) /\ patch_explicit' = patch_explicit
      BY <2>5 DEF PatchOpens
    <3>2. Len(Append(s, TRUE)) = Len(s) + 1 /\ Append(s, TRUE)[Len(s) + 1] = TRUE
      BY <2>1, PatchOpened
    <3>. QED  BY <2>1, <2>2, <2>5, <3>1, <3>2
  <2>. QED  BY <1>4, <2>4, <2>5, PatchScoped
<1>5. ASSUME NEW t \in patch_Threads, Patch!Check(t) PROVE PatchNesting'
  BY <1>5 DEF Patch!Check
<1>6. ASSUME NEW t \in patch_Threads, Patch!Save(t) PROVE PatchNesting'
  BY <1>6 DEF Patch!Save
<1>7. ASSUME NEW t \in patch_Threads, Patch!Replace(t) PROVE PatchNesting'
  BY <1>7 DEF Patch!Replace
<1>8. ASSUME NEW t \in patch_Threads, Patch!Leave(t) PROVE PatchNesting'
  BY <1>8 DEF Patch!Leave
<1>9. ASSUME NEW t \in patch_Threads, Patch!ReadOrigin(t) PROVE PatchNesting'
  BY <1>9 DEF Patch!ReadOrigin
<1>10. ASSUME NEW t \in patch_Threads, Patch!Restore(t) PROVE PatchNesting'
  BY <1>10 DEF Patch!Restore, Patch!Restored, Patch!Own
<1>11. ASSUME NEW t \in patch_Threads, Patch!PatchForGood(t) PROVE PatchNesting'
  BY <1>11 DEF Patch!PatchForGood
<1>12. ASSUME NEW t \in patch_Threads, Patch!Unpatch(t) PROVE PatchNesting'
  BY <1>12 DEF Patch!Unpatch
<1>13. ASSUME NEW t \in patch_Threads, Patch!Sweep(t) PROVE PatchNesting'
  BY <1>13 DEF Patch!Sweep, Patch!Fresh
<1>14. ASSUME NEW t \in patch_Threads, Patch!RestoreHome(t) PROVE PatchNesting'
  BY <1>14 DEF Patch!RestoreHome
<1>. QED  BY <1>1, <1>2, <1>3, <1>4, <1>5, <1>6, <1>7, <1>8, <1>9, <1>10, <1>11, <1>12,
   <1>13, <1>14 DEF
   Patch!Next

\* ... and the library as the one thread that patches it has got to.
LEMMA PatchAtKept ==
  ASSUME OneThread, PatchInv, Patch!Next
  PROVE  \A u \in patch_Threads : PatchAt(u)'
<1>. USE PatchBounds DEF PatchInv, PatchLib, PatchControl, PatchScopes, PatchNesting,
   Patch!Modules, Patch!Patched, Patch!Resting, Patch!lib, Patch!locals, Patch!Go, PatchOn,
   PatchOff, PatchHalfOn, PatchHalf, PatchBegun, PatchLive, PatchKept, PatchApplies, PatchAt,
   Patch!HalfDone
<1>1. ASSUME NEW m \in patch_Submodules, Patch!Import(m) PROVE \A u \in patch_Threads : PatchAt(u)'
  BY <1>1 DEF Patch!Import, Patch!Load
<1>2. ASSUME NEW t \in patch_Threads, Patch!GetKernel(t) PROVE \A u \in patch_Threads : PatchAt(u)'
  <2>. SUFFICES PatchAt(t)'
    BY DEF OneThread
  <2>. QED  BY <1>2 DEF Patch!GetKernel, Patch!Enter
<1>3. ASSUME NEW t \in patch_Threads, Patch!InstallAll(t) PROVE \A u \in patch_Threads : PatchAt(u)'
  <2>. SUFFICES PatchAt(t)'
    BY DEF OneThread
  <2>. QED  BY <1>3 DEF Patch!InstallAll, Patch!Enter, Patch!Load
<1>4. ASSUME NEW t \in patch_Threads, Patch!Scope(t) PROVE \A u \in patch_Threads : PatchAt(u)'
  <2>. DEFINE s == patch_scopes[t]
  <2>. SUFFICES PatchAt(t)'
    BY DEF OneThread
  <2>1. s \in Seq(BOOLEAN) /\ Len(s) \in Nat /\ PatchAt(t) /\ patch_pc[t] = "scope"
    BY <1>4 DEF Patch!Scope
  <2>2. Patch!Patched => PatchOn
    BY <2>1
  <2>3. ~Patch!Patched => PatchOff /\ Len(s) = 0 /\ ~patch_explicit
    BY <2>1
  <2>4. CASE Patch!Patched /\ PatchOpens(t, FALSE) /\ patch_pc' = [patch_pc EXCEPT ![t] = "call"]
    <3>1. Len(patch_scopes'[t]) = Len(s) + 1 /\ patch_pc'[t] = "call" /\ PatchOn'
      BY <2>1, <2>2, <2>4, PatchOpened DEF PatchOpens
    <3>. QED  BY <2>1, <3>1
  <2>5. CASE ~Patch!Patched /\ PatchOpens(t, TRUE) /\ patch_pc' = [patch_pc EXCEPT ![t] = "patch"]
    <3>1. /\ Len(patch_scopes'[t]) = 1 /\ patch_pc'[t] = "patch" /\ PatchOff'
          /\ ~patch_explicit'
      BY <2>1, <2>3, <2>5, PatchOpened DEF PatchOpens
    <3>. QED  BY <3>1
  <2>. QED  BY <1>4, <2>4, <2>5, PatchScoped
<1>5. ASSUME NEW t \in patch_Threads, Patch!Check(t) PROVE \A u \in patch_Threads : PatchAt(u)'
  <2>. SUFFICES PatchAt(t)'
    BY DEF OneThread
  <2>. QED  BY <1>5 DEF Patch!Check
<1>6. ASSUME NEW t \in patch_Threads, Patch!Save(t) PROVE \A u \in patch_Threads : PatchAt(u)'
  <2>. SUFFICES PatchAt(t)'
    BY DEF OneThread
  <2>. QED  BY <1>6 DEF Patch!Save
<1>7. ASSUME NEW t \in patch_Threads, Patch!Replace(t) PROVE \A u \in patch_Threads : PatchAt(u)'
  <2>. SUFFICES PatchAt(t)'
    BY DEF OneThread
  <2>. QED  BY <1>7 DEF Patch!Replace
<1>8. ASSUME NEW t \in patch_Threads, Patch!Leave(t) PROVE \A u \in patch_Threads : PatchAt(u)'
  <2>. SUFFICES PatchAt(t)'
    BY DEF OneThread
  <2>. QED  BY <1>8 DEF Patch!Leave
<1>9. ASSUME NEW t \in patch_Threads, Patch!ReadOrigin(t) PROVE \A u \in patch_Threads : PatchAt(u)'
  <2>. SUFFICES PatchAt(t)'
    BY DEF OneThread
  <2>. QED  BY <1>9 DEF Patch!ReadOrigin
<1>10. ASSUME NEW t \in patch_Threads, Patch!Restore(t) PROVE \A u \in patch_Threads : PatchAt(u)'
  <2>. SUFFICES PatchAt(t)'
    BY DEF OneThread
  <2>. QED  BY <1>10 DEF Patch!Restore, Patch!Restored, Patch!Own
<1>11. ASSUME NEW t \in patch_Threads, Patch!PatchForGood(t) PROVE \A u \in patch_Threads : PatchAt(u)'
  <2>. SUFFICES PatchAt(t)'
    BY DEF OneThread
  <2>. QED  BY <1>11 DEF Patch!PatchForGood
<1>12. ASSUME NEW t \in patch_Threads, Patch!Unpatch(t) PROVE \A u \in patch_Threads : PatchAt(u)'
  <2>. SUFFICES PatchAt(t)'
    BY DEF OneThread
  <2>. QED  BY <1>12 DEF Patch!Unpatch
<1>13. ASSUME NEW t \in patch_Threads, Patch!Sweep(t) PROVE \A u \in patch_Threads : PatchAt(u)'
  <2>. DEFINE s == patch_scopes[t]
  <2>. SUFFICES PatchAt(t)'
    BY DEF OneThread
  <2>1. s \in Seq(BOOLEAN) /\ Len(s) \in Nat /\ PatchAt(t) /\ patch_pc[t] = "sweep"
    BY <1>13 DEF Patch!Sweep
  <2>2. Patch!Fresh = patch_loaded
    BY <2>1, PatchBounds DEF Patch!Fresh
  <2>3. PatchOn'
    BY <1>13, <2>1, <2>2, PatchBounds DEF Patch!Sweep
  <2>4. /\ patch_pc'[t] = IF s = <<>> THEN "idle" ELSE "call"
        /\ UNCHANGED <<patch_scopes, patch_explicit>>
    BY <1>13 DEF Patch!Sweep
  <2>5. CASE Len(s) = 1 /\ ~patch_explicit
    <3>1. s # <<>>
      BY <2>5, PatchOne
    <3>2. /\ patch_pc'[t] = "call" /\ Len(patch_scopes'[t]) = 1 /\ ~patch_explicit'
      BY <2>4, <2>5, <3>1
    <3>. QED  BY <2>3, <3>2
  <2>6. CASE Len(s) = 0 /\ patch_explicit
    <3>1. s = <<>>
      BY <2>1, <2>6
    <3>2. /\ patch_pc'[t] = "idle" /\ Len(patch_scopes'[t]) = 0 /\ patch_explicit'
      BY <2>4, <2>6, <3>1
    <3>. QED  BY <2>3, <3>2
  <2>. QED  BY <2>1, <2>5, <2>6
<1>14. ASSUME NEW t \in patch_Threads, Patch!RestoreHome(t) PROVE \A u \in patch_Threads : PatchAt(u)'
  <2>. SUFFICES PatchAt(t)'
    BY DEF OneThread
  <2>. QED  BY <1>14 DEF Patch!RestoreHome
<1>. QED  BY <1>1, <1>2, <1>3, <1>4, <1>5, <1>6, <1>7, <1>8, <1>9, <1>10, <1>11, <1>12,
   <1>13, <1>14 DEF
   Patch!Next

\* By one thread, over any modules, calls and depths: the library is wholly ModelScope's within
\* a call, and what the user has left it when none is open, but for the modules that other
\* code imported in the middle of a change.
THEOREM PatchHolds == ASSUME OneThread PROVE Patch!Spec => []PatchInv
<1>1. PatchInv /\ [Patch!Next]_Patch!vars => PatchInv'
  <2>. SUFFICES ASSUME PatchInv, [Patch!Next]_Patch!vars PROVE PatchInv'
    OBVIOUS
  <2>1. CASE Patch!Next
    BY <2>1, OneThread, PatchLibKept, PatchControlKept, PatchScopesKept, PatchExplicitKept,
       PatchNestingKept, PatchAtKept DEF PatchInv
  <2>2. CASE UNCHANGED Patch!vars
    BY <2>2 DEF Patch!vars, Patch!lib, Patch!locals, PatchInv, PatchLib, PatchControl,
       PatchScopes, PatchExplicit, PatchNesting, PatchAt, PatchApplies, PatchOn, PatchOff,
       PatchHalfOn, PatchHalf, PatchBegun, PatchLive, PatchKept
  <2>. QED  BY <2>1, <2>2
<1>. QED  BY <1>1, PatchInit, PTL DEF Patch!Spec

LEMMA PatchGives == PatchInv => Patch!TypeOK /\ Patch!PatchIsScoped
<1>. SUFFICES ASSUME PatchInv PROVE Patch!TypeOK /\ Patch!PatchIsScoped
  OBVIOUS
<1>1. /\ PatchLib /\ PatchControl /\ PatchScopes /\ PatchExplicit
      /\ \A t \in patch_Threads : PatchAt(t)
  BY DEF PatchInv
<1>2. Patch!TypeOK
  BY <1>1, Zenon DEF PatchLib, PatchControl, PatchScopes, PatchExplicit, Patch!TypeOK
<1>3. Patch!PatchIsScoped
  BY <1>1, PatchBounds DEF PatchAt, PatchOn, PatchOff, PatchBegun, PatchLive, PatchKept, Patch!Patched,
     Patch!CallsAskModelScope, Patch!Elsewhere, Patch!Settled, Patch!Asks, Patch!PatchIsScoped,
     PatchLib, Patch!Modules
<1>. QED  BY <1>2, <1>3

\* For any modules of the kernels library, refs and plugins, and one thread that patches the
\* library while any code imports its modules: a call of it sees the hub it was meant for, and
\* afterwards so do all modules but those imported in the middle of a change; what is fetched is
\* what was asked for, and no plugin code runs that was not verified.
THEOREM ExtensionsSafe == ASSUME OneThread PROVE PartsSpec => []ExtensionsHold
<1>1. PartsInit => Patch!Init /\ Revs!Init /\ Plugin!Init
  BY DEF PartsInit
<1>2. [PartsNext]_allVars =>
        [Patch!Next]_Patch!vars /\ [Revs!Next]_Revs!vars /\ [Plugin!Next]_Plugin!vars
  BY DEF PartsNext, allVars, patchVars, revsVars, pluginVars, Patch!vars, Patch!lib,
     Patch!locals, Revs!vars, Plugin!vars, Plugin!call
<1>3. PatchInv /\ RevsInv /\ PluginInv => ExtensionsHold
  BY PatchGives, RevsGives, PluginGives DEF ExtensionsHold
<1>. QED  BY <1>1, <1>2, <1>3, PatchHolds, RevsHold, PluginHolds, PTL
     DEF PartsSpec, Patch!Spec, Revs!Spec, Plugin!Spec

-----------------------------------------------------------------------------
(* Reads under a control.                                                     *)

ReadTimes ==
  /\ read_now \in 0..read_MaxNow
  /\ read_pc \in [read_Readers -> {"idle", "headers", "build", "track", "answer", "check", "read",
                                   "piece", "end", "broken"}]
  /\ read_got \in [read_Readers -> 0..read_Body]
  /\ read_outcome \in [read_Readers -> Read!Reasons \cup {"whole", "connection"}]
  /\ read_reads \in [read_Readers -> 0..read_MaxReads]
ReadFlags == {read_seen, read_cancelled, read_stopped, read_aborted} \subseteq BOOLEAN
ReadCuts  == read_cut \in [read_Readers -> BOOLEAN]

\* A reader's registration, which counts no more than it has read.
ReadRecords == [error : Read!Reasons, since : 0..read_MaxNow, got : 0..read_Body,
                headers : BOOLEAN, there : BOOLEAN]
ReadRecord(r, s) ==
  /\ s \in ReadRecords
  /\ s.got <= read_got[r] /\ s.since <= read_now
ReadStates ==
  /\ read_state \in [read_Readers -> ReadRecords]
  /\ \A r \in read_Readers :
       /\ ReadRecord(r, read_state[r])
       /\ read_pc[r] = "piece" => read_state[r].got < read_got[r]
       /\ read_state[r].there <=> read_pc[r] \notin {"idle", "build"}
       /\ read_pc[r] = "headers" => read_state[r].headers

\* Why a reader must end is known as long as its socket may show that it was cut: to the
\* registration, and while it is made a second time to the control or to the group.
ReadReason(r) ==
  /\ read_cut[r] /\ read_pc[r] \in {"headers", "check", "read", "piece", "end", "broken"} =>
       read_state[r].error # "none"
  /\ read_pc[r] = "build" => ~read_cut[r]
  /\ read_pc[r] = "track" =>
       /\ read_state[r].since = read_now /\ ~read_state[r].headers
       /\ read_cut[r] \/ read_state[r].error # "none" => Read!Checked # "none" \/ read_stopped
  /\ read_cut[r] /\ read_pc[r] = "answer" => read_state[r].error # "none" \/ read_stopped
  /\ read_pc[r] = "end" => read_got[r] = read_Body \/ read_cut[r]
ReadReasons == \A r \in read_Readers : ReadReason(r)

\* A reader that still waits has time left, or has been cut once the watchdog has looked.
ReadWaits ==
  \A r \in read_Readers :
    /\ read_pc[r] \in {"headers", "read"} =>
         read_now <= read_Deadline /\ (read_seen /\ read_now >= read_Deadline => read_cut[r])
    /\ read_pc[r] = "headers" /\ read_HeaderLimit # 0 =>
         LET end == read_state[r].since + read_HeaderLimit IN
         read_now <= end /\ (read_seen /\ read_now >= end => read_cut[r])

ReadInv ==
  /\ ReadTimes /\ ReadFlags /\ ReadCuts /\ ReadStates /\ ReadReasons /\ ReadWaits
  /\ Read!CutIsNotWhole

LEMMA ReadBounds ==
  /\ read_Body \in Nat \ {0} /\ read_Deadline \in Nat \ {0} /\ read_Window \in Nat \ {0}
  /\ read_MaxNow \in Nat \ {0} /\ read_HeaderLimit \in Nat /\ read_MaxReads \in Nat
BY ReadOK DEF Read!ConstantsOK

LEMMA ReadInit == Read!Init => ReadInv
<1>. SUFFICES ASSUME Read!Init PROVE ReadInv
  OBVIOUS
<1>. USE ReadBounds DEF Read!Init
<1>1. ReadTimes
  BY DEF ReadTimes, Read!Reasons
<1>2. ReadFlags
  BY Zenon DEF ReadFlags
<1>3. ReadCuts
  BY DEF ReadCuts
<1>4. ReadStates
  BY DEF ReadStates, ReadRecord, ReadRecords, Read!Unregistered, Read!Reasons
<1>5. ReadReasons /\ ReadWaits
  BY DEF ReadReasons, ReadReason, ReadWaits
<1>6. Read!CutIsNotWhole
  BY DEF Read!CutIsNotWhole
<1>. QED  BY <1>1, <1>2, <1>3, <1>4, <1>5, <1>6 DEF ReadInv

\* What the watchdog finds of a registration, and what it leaves of it.
LEMMA ReadFound ==
  ASSUME NEW r \in read_Readers, read_now \in Nat, read_state[r].since \in Nat,
         read_state[r].error \in Read!Reasons
  PROVE  /\ Read!Found(r) \in Read!Reasons
         /\ read_state[r].error # "none" => Read!Found(r) # "none"
         /\ read_cancelled \/ read_now >= read_Deadline => Read!Found(r) # "none"
         /\ read_state[r].headers /\ read_HeaderLimit # 0
            /\ read_now >= read_state[r].since + read_HeaderLimit => Read!Found(r) # "none"
         /\ Read!Found(r) # "none" /\ read_state[r].error = "none" /\ ~read_state[r].headers
            /\ read_state[r].since = read_now => Read!Checked # "none"
BY ReadBounds DEF Read!Found, Read!Reasons, Read!Checked

\* A window that begins anew.
LEMMA ReadAnew ==
  ASSUME NEW Errors, NEW Times, NEW Gots, NEW n \in Times, NEW g \in Gots,
         NEW s \in [error : Errors, since : Times, got : Gots, headers : BOOLEAN, there : BOOLEAN],
         NEW l, l = [s EXCEPT !.since = n, !.got = g]
  PROVE  /\ l \in [error : Errors, since : Times, got : Gots, headers : BOOLEAN, there : BOOLEAN]
         /\ l.error = s.error /\ l.since = n /\ l.got = g
         /\ l.headers = s.headers /\ l.there = s.there
OBVIOUS

LEMMA ReadLooked ==
  ASSUME NEW r \in read_Readers, ReadTimes, ReadRecord(r, read_state[r])
  PROVE  /\ ReadRecord(r, Read!Look(r))
         /\ Read!Look(r).there = read_state[r].there /\ Read!Look(r).headers = read_state[r].headers
         /\ ~Read!Watched(r) => Read!Look(r) = read_state[r]
         /\ Read!Watched(r) => Read!Look(r).error = Read!Found(r)
         /\ Read!Look(r).got <= read_state[r].got
         /\ Read!Look(r).since = read_state[r].since \/ Read!Look(r).since = read_now
         /\ read_state[r].headers => Read!Look(r).since = read_state[r].since
<1>. DEFINE s == read_state[r]
            f == Read!Found(r)
<1>1. /\ s \in [error : Read!Reasons, since : 0..read_MaxNow, got : 0..read_Body,
                headers : BOOLEAN, there : BOOLEAN]
      /\ s.got <= read_got[r] /\ s.since <= read_now /\ read_now \in 0..read_MaxNow
      /\ read_got[r] \in 0..read_Body
  BY DEF ReadTimes, ReadRecord, ReadRecords
<1>2. f \in Read!Reasons /\ (s.error # "none" => f # "none")
  BY <1>1, ReadBounds, ReadFound
<1>3. CASE ~Read!Watched(r)
  BY <1>1, <1>3 DEF Read!Look, ReadRecord, ReadRecords
<1>. HIDE DEF f
<1>4. CASE Read!Watched(r) /\ f = "none" /\ ~s.headers /\ read_now >= s.since + read_Window
  <2>1. Read!Look(r) = [s EXCEPT !.since = read_now, !.got = 0]
    BY <1>4 DEF Read!Look, f
  <2>. DEFINE l == Read!Look(r)
  <2>2. /\ l \in [error : Read!Reasons, since : 0..read_MaxNow, got : 0..read_Body,
                   headers : BOOLEAN, there : BOOLEAN]
        /\ l.error = s.error /\ l.since = read_now /\ l.got = 0
        /\ l.headers = s.headers /\ l.there = s.there
    <3>1. 0 \in 0..read_Body /\ read_now \in 0..read_MaxNow
      BY <1>1, ReadBounds
    <3>. HIDE DEF l, s
    <3>2. l = [s EXCEPT !.since = read_now, !.got = 0]
      BY <2>1 DEF l
    <3>. QED  BY <1>1, <3>1, <3>2, ReadAnew, Zenon
  <2>3. s.error = "none"
    BY <1>2, <1>4
  <2>. HIDE DEF l
  <2>4. ReadRecord(r, l)
    BY <1>1, <2>2 DEF ReadRecord, ReadRecords
  <2>. QED  BY <1>1, <1>4, <2>2, <2>3, <2>4 DEF l, f
<1>5. CASE Read!Watched(r) /\ ~(f = "none" /\ ~s.headers /\ read_now >= s.since + read_Window)
  <2>1. Read!Look(r) = [s EXCEPT !.error = f]
    BY <1>5 DEF Read!Look, f
  <2>. QED  BY <1>1, <1>2, <1>5, <2>1 DEF ReadRecord, ReadRecords, f
<1>. QED  BY <1>3, <1>4, <1>5

LEMMA ReadWhy ==
  ASSUME NEW r \in read_Readers, ReadStates
  PROVE  /\ Read!Why(r) \in Read!Reasons
         /\ Read!Why(r) = "none" => Read!Checked = "none" /\ read_state[r].error = "none"
<1>1. read_state[r].error \in Read!Reasons
  BY DEF ReadStates, ReadRecord, ReadRecords
<1>. QED  BY <1>1 DEF Read!Why, Read!Checked, Read!Reasons

\* A step keeps the clock and what a reader has done in their types ...
LEMMA ReadTimesKept ==
  ASSUME ReadInv, Read!Next
  PROVE  ReadTimes'
<1>. USE ReadBounds, ReadWhy DEF ReadInv, ReadTimes, Read!Reasons, Read!Checked, Read!GroupSays,
   Read!flags, Read!Go
<1>1. ASSUME NEW r \in read_Readers, Read!Request(r) PROVE ReadTimes'
  BY <1>1 DEF Read!Request, Read!Register, Read!End, Read!Release
<1>2. ASSUME NEW r \in read_Readers, Read!Headers(r) PROVE ReadTimes'
  BY <1>2 DEF Read!Headers, Read!Step, Read!End, Read!Release
<1>3. ASSUME NEW r \in read_Readers, Read!Build(r) PROVE ReadTimes'
  BY <1>3 DEF Read!Build, Read!Step, Read!End, Read!Release, Read!Register
<1>4. ASSUME NEW r \in read_Readers, Read!Track(r) PROVE ReadTimes'
  BY <1>4 DEF Read!Track, Read!Step, Read!End, Read!Release, Read!Register
<1>5. ASSUME NEW r \in read_Readers, Read!Accept(r) PROVE ReadTimes'
  BY <1>5 DEF Read!Accept, Read!Step, Read!End, Read!Release, Read!GroupSays
<1>6. ASSUME NEW r \in read_Readers, Read!Check(r) PROVE ReadTimes'
  BY <1>6 DEF Read!Check, Read!Step, Read!End, Read!Release
<1>7. ASSUME NEW r \in read_Readers, Read!Read(r) PROVE ReadTimes'
  BY <1>7 DEF Read!Read
<1>8. ASSUME NEW r \in read_Readers, Read!Piece(r) PROVE ReadTimes'
  BY <1>8 DEF Read!Piece, Read!Step, Read!End, Read!Release
<1>9. ASSUME NEW r \in read_Readers, Read!Ended(r) PROVE ReadTimes'
  BY <1>9 DEF Read!Ended, Read!End, Read!Release
<1>10. ASSUME NEW r \in read_Readers, Read!Broken(r) PROVE ReadTimes'
  BY <1>10 DEF Read!Broken, Read!End, Read!Release
<1>11. CASE Read!Watch
  BY <1>11 DEF Read!Watch
<1>12. CASE Read!Stop
  BY <1>12 DEF Read!Stop
<1>13. CASE Read!Abort
  BY <1>13 DEF Read!Abort
<1>14. CASE Read!Cancel
  BY <1>14 DEF Read!Cancel
<1>15. CASE Read!Tick
  BY <1>15 DEF Read!Tick
<1>. QED  BY <1>1, <1>2, <1>3, <1>4, <1>5, <1>6, <1>7, <1>8, <1>9, <1>10, <1>11, <1>12, <1>13,
   <1>14, <1>15 DEF Read!Next

LEMMA ReadCutsKept ==
  ASSUME ReadInv, Read!Next
  PROVE  ReadCuts'
<1>. USE DEF ReadInv, ReadCuts, Read!flags, Read!Go
<1>1. ASSUME NEW r \in read_Readers, Read!Request(r) PROVE ReadCuts'
  BY <1>1 DEF Read!Request, Read!Register, Read!End, Read!Release
<1>2. ASSUME NEW r \in read_Readers, Read!Headers(r) PROVE ReadCuts'
  BY <1>2 DEF Read!Headers, Read!Step, Read!End, Read!Release
<1>3. ASSUME NEW r \in read_Readers, Read!Build(r) PROVE ReadCuts'
  BY <1>3 DEF Read!Build, Read!Step, Read!End, Read!Release, Read!Register
<1>4. ASSUME NEW r \in read_Readers, Read!Track(r) PROVE ReadCuts'
  BY <1>4 DEF Read!Track, Read!Step, Read!End, Read!Release, Read!Register
<1>5. ASSUME NEW r \in read_Readers, Read!Accept(r) PROVE ReadCuts'
  BY <1>5 DEF Read!Accept, Read!Step, Read!End, Read!Release, Read!GroupSays
<1>6. ASSUME NEW r \in read_Readers, Read!Check(r) PROVE ReadCuts'
  BY <1>6 DEF Read!Check, Read!Step, Read!End, Read!Release
<1>7. ASSUME NEW r \in read_Readers, Read!Read(r) PROVE ReadCuts'
  BY <1>7 DEF Read!Read
<1>8. ASSUME NEW r \in read_Readers, Read!Piece(r) PROVE ReadCuts'
  BY <1>8 DEF Read!Piece, Read!Step, Read!End, Read!Release
<1>9. ASSUME NEW r \in read_Readers, Read!Ended(r) PROVE ReadCuts'
  BY <1>9 DEF Read!Ended, Read!End, Read!Release
<1>10. ASSUME NEW r \in read_Readers, Read!Broken(r) PROVE ReadCuts'
  BY <1>10 DEF Read!Broken, Read!End, Read!Release
<1>11. CASE Read!Watch
  BY <1>11 DEF Read!Watch
<1>12. CASE Read!Stop
  BY <1>12 DEF Read!Stop
<1>13. CASE Read!Abort
  BY <1>13 DEF Read!Abort
<1>14. CASE Read!Cancel
  BY <1>14 DEF Read!Cancel
<1>15. CASE Read!Tick
  BY <1>15 DEF Read!Tick
<1>. QED  BY <1>1, <1>2, <1>3, <1>4, <1>5, <1>6, <1>7, <1>8, <1>9, <1>10, <1>11, <1>12, <1>13,
   <1>14, <1>15 DEF Read!Next

LEMMA ReadFlagsKept ==
  ASSUME ReadFlags, Read!Next
  PROVE  ReadFlags'
<1>1. /\ read_seen' \in {read_seen, TRUE, FALSE} /\ read_cancelled' \in {read_cancelled, TRUE}
      /\ read_stopped' \in {read_stopped, TRUE} /\ read_aborted' \in {read_aborted, TRUE}
  BY DEF Read!Request, Read!Headers, Read!Build, Read!Track, Read!Accept, Read!Check, Read!Read,
     Read!Piece, Read!Ended, Read!Broken, Read!Watch, Read!Stop, Read!Abort, Read!Cancel,
     Read!Tick, Read!flags, Read!Next
<1>. QED  BY <1>1, Zenon DEF ReadFlags

\* A reader goes on to l, with n pieces and s registered.
ReadMoves(r, s, l, n) ==
  /\ read_state' = [read_state EXCEPT ![r] = s] /\ read_pc' = [read_pc EXCEPT ![r] = l]
  /\ read_got' = [read_got EXCEPT ![r] = n] /\ read_now' = read_now
LEMMA ReadMoved ==
  ASSUME ReadTimes, ReadStates, NEW r \in read_Readers, NEW s, NEW l, NEW n \in 0..read_Body,
         ReadMoves(r, s, l, n), s \in ReadRecords, s.got <= n, s.since <= read_now,
         l = "piece" => s.got < n, s.there <=> l \notin {"idle", "build"},
         l = "headers" => s.headers
  PROVE  ReadStates'
<1>1. /\ read_state'[r] = s /\ read_pc'[r] = l /\ read_got'[r] = n
      /\ \A u \in read_Readers : u # r =>
           /\ read_state'[u] = read_state[u] /\ read_pc'[u] = read_pc[u]
           /\ read_got'[u] = read_got[u]
      /\ read_state' \in [read_Readers -> ReadRecords] /\ read_now' = read_now
  BY DEF ReadMoves, ReadTimes, ReadStates
<1>. QED  BY <1>1 DEF ReadStates, ReadRecord

\* What a reader registers: itself, as of now, or nothing.
ReadAsked ==
  [error |-> "none", since |-> read_now, got |-> 0, headers |-> TRUE, there |-> TRUE]
ReadFresh ==
  [error |-> "none", since |-> read_now, got |-> 0, headers |-> FALSE, there |-> TRUE]
LEMMA ReadRegistered ==
  ASSUME ReadTimes
  PROVE  /\ ReadAsked \in ReadRecords /\ ReadFresh \in ReadRecords
         /\ ReadAsked.got = 0 /\ ReadFresh.got = 0
         /\ ReadAsked.since = read_now /\ ReadFresh.since = read_now
         /\ ReadAsked.there /\ ReadFresh.there /\ ReadAsked.headers
         /\ Read!Unregistered \in ReadRecords /\ Read!Unregistered.got = 0
         /\ Read!Unregistered.since = 0 /\ ~Read!Unregistered.there
BY ReadBounds DEF ReadTimes, ReadRecords, ReadAsked, ReadFresh, Read!Unregistered, Read!Reasons

\* One more piece is counted.
LEMMA ReadCounted ==
  ASSUME NEW s \in ReadRecords, s.got + 1 \in 0..read_Body
  PROVE  /\ [s EXCEPT !.got = s.got + 1] \in ReadRecords
         /\ [s EXCEPT !.got = s.got + 1].got = s.got + 1
         /\ [s EXCEPT !.got = s.got + 1].since = s.since
         /\ [s EXCEPT !.got = s.got + 1].there = s.there
BY DEF ReadRecords

\* ... what is registered as it should be ...
LEMMA ReadStatesKept ==
  ASSUME ReadInv, Read!Next
  PROVE  ReadStates'
<1>. USE DEF ReadInv
<1>1. ASSUME NEW r \in read_Readers, Read!Request(r) PROVE ReadStates'
  <2>1. /\ read_state[r] \in ReadRecords /\ read_state[r].got <= read_got[r]
        /\ read_state[r].since <= read_now /\ read_now \in Nat /\ read_got[r] \in 0..read_Body
    BY DEF ReadStates, ReadRecord, ReadTimes
  <2>2. \/ ReadMoves(r, Read!Unregistered, "idle", 0)
        \/ ReadMoves(r, ReadAsked, "headers", 0)
    BY <1>1 DEF ReadMoves, ReadTimes, ReadStates, ReadAsked, ReadFresh, Read!flags, Read!Go, Read!Request, Read!Register, Read!End, Read!Release
  <2>3. CASE ReadMoves(r, Read!Unregistered, "idle", 0)
    BY <1>1, <2>1, <2>3, ReadMoved, ReadRegistered, ReadBounds
  <2>4. CASE ReadMoves(r, ReadAsked, "headers", 0)
    <3>. DEFINE s == ReadAsked
    <3>1. /\ s \in ReadRecords /\ s.got <= 0 /\ s.since <= read_now /\ 0 \in 0..read_Body
          /\ s.there /\ s.headers
      BY <2>1, ReadBounds, ReadRegistered
    <3>. HIDE DEF s
    <3>2. ReadMoves(r, s, "headers", 0)
      BY <2>4 DEF s
    <3>. QED  BY <3>1, <3>2, ReadMoved
  <2>. QED  BY <2>2, <2>3, <2>4
<1>2. ASSUME NEW r \in read_Readers, Read!Headers(r) PROVE ReadStates'
  <2>1. /\ read_state[r] \in ReadRecords /\ read_state[r].got <= read_got[r]
        /\ read_state[r].since <= read_now /\ read_now \in Nat /\ read_got[r] \in 0..read_Body
    BY DEF ReadStates, ReadRecord, ReadTimes
  <2>2. \/ ReadMoves(r, Read!Unregistered, "idle", read_got[r])
        \/ ReadMoves(r, Read!Unregistered, "build", read_got[r])
    BY <1>2 DEF ReadMoves, ReadTimes, ReadStates, ReadAsked, ReadFresh, Read!flags, Read!Go, Read!Headers, Read!Step, Read!End, Read!Release
  <2>3. CASE ReadMoves(r, Read!Unregistered, "idle", read_got[r])
    BY <1>2, <2>1, <2>3, ReadMoved, ReadRegistered, ReadBounds
  <2>4. CASE ReadMoves(r, Read!Unregistered, "build", read_got[r])
    BY <1>2, <2>1, <2>4, ReadMoved, ReadRegistered, ReadBounds
  <2>. QED  BY <2>2, <2>3, <2>4
<1>3. ASSUME NEW r \in read_Readers, Read!Build(r) PROVE ReadStates'
  <2>1. /\ read_state[r] \in ReadRecords /\ read_state[r].got <= read_got[r]
        /\ read_state[r].since <= read_now /\ read_now \in Nat /\ read_got[r] \in 0..read_Body
    BY DEF ReadStates, ReadRecord, ReadTimes
  <2>2. \/ ReadMoves(r, Read!Unregistered, "idle", read_got[r])
        \/ ReadMoves(r, ReadFresh, "track", read_got[r])
    BY <1>3 DEF ReadMoves, ReadTimes, ReadStates, ReadAsked, ReadFresh, Read!flags, Read!Go, Read!Build, Read!Step, Read!End, Read!Release, Read!Register
  <2>3. CASE ReadMoves(r, Read!Unregistered, "idle", read_got[r])
    BY <1>3, <2>1, <2>3, ReadMoved, ReadRegistered, ReadBounds
  <2>4. CASE ReadMoves(r, ReadFresh, "track", read_got[r])
    <3>. DEFINE s == ReadFresh
    <3>1. /\ s \in ReadRecords /\ s.got <= read_got[r] /\ s.since <= read_now /\ read_got[r] \in 0..read_Body
          /\ s.there
      BY <2>1, ReadBounds, ReadRegistered
    <3>. HIDE DEF s
    <3>2. ReadMoves(r, s, "track", read_got[r])
      BY <2>4 DEF s
    <3>. QED  BY <3>1, <3>2, ReadMoved
  <2>. QED  BY <2>2, <2>3, <2>4
<1>4. ASSUME NEW r \in read_Readers, Read!Track(r) PROVE ReadStates'
  <2>1. /\ read_state[r] \in ReadRecords /\ read_state[r].got <= read_got[r]
        /\ read_state[r].since <= read_now /\ read_now \in Nat /\ read_got[r] \in 0..read_Body
    BY DEF ReadStates, ReadRecord, ReadTimes
  <2>2. \/ ReadMoves(r, Read!Unregistered, "idle", read_got[r])
        \/ ReadMoves(r, ReadFresh, "answer", read_got[r])
    BY <1>4 DEF ReadMoves, ReadTimes, ReadStates, ReadAsked, ReadFresh, Read!flags, Read!Go, Read!Track, Read!Step, Read!End, Read!Release, Read!Register
  <2>3. CASE ReadMoves(r, Read!Unregistered, "idle", read_got[r])
    BY <1>4, <2>1, <2>3, ReadMoved, ReadRegistered, ReadBounds
  <2>4. CASE ReadMoves(r, ReadFresh, "answer", read_got[r])
    <3>. DEFINE s == ReadFresh
    <3>1. /\ s \in ReadRecords /\ s.got <= read_got[r] /\ s.since <= read_now /\ read_got[r] \in 0..read_Body
          /\ s.there
      BY <2>1, ReadBounds, ReadRegistered
    <3>. HIDE DEF s
    <3>2. ReadMoves(r, s, "answer", read_got[r])
      BY <2>4 DEF s
    <3>. QED  BY <3>1, <3>2, ReadMoved
  <2>. QED  BY <2>2, <2>3, <2>4
<1>5. ASSUME NEW r \in read_Readers, Read!Accept(r) PROVE ReadStates'
  <2>1. /\ read_state[r] \in ReadRecords /\ read_state[r].got <= read_got[r]
        /\ read_state[r].since <= read_now /\ read_now \in Nat /\ read_got[r] \in 0..read_Body
    BY DEF ReadStates, ReadRecord, ReadTimes
  <2>2. \/ ReadMoves(r, Read!Unregistered, "idle", read_got[r])
        \/ ReadMoves(r, read_state[r], "check", read_got[r])
    BY <1>5 DEF ReadMoves, ReadTimes, ReadStates, ReadAsked, ReadFresh, Read!flags, Read!Go, Read!Accept, Read!Step, Read!End, Read!Release, Read!GroupSays
  <2>3. CASE ReadMoves(r, Read!Unregistered, "idle", read_got[r])
    BY <1>5, <2>1, <2>3, ReadMoved, ReadRegistered, ReadBounds
  <2>4. CASE ReadMoves(r, read_state[r], "check", read_got[r])
    BY <1>5, <2>1, <2>4, ReadMoved, ReadRegistered, ReadBounds DEF Read!Accept, ReadStates
  <2>. QED  BY <2>2, <2>3, <2>4
<1>6. ASSUME NEW r \in read_Readers, Read!Check(r) PROVE ReadStates'
  <2>1. /\ read_state[r] \in ReadRecords /\ read_state[r].got <= read_got[r]
        /\ read_state[r].since <= read_now /\ read_now \in Nat /\ read_got[r] \in 0..read_Body
    BY DEF ReadStates, ReadRecord, ReadTimes
  <2>2. \/ ReadMoves(r, Read!Unregistered, "idle", read_got[r])
        \/ ReadMoves(r, read_state[r], "read", read_got[r])
    BY <1>6 DEF ReadMoves, ReadTimes, ReadStates, ReadAsked, ReadFresh, Read!flags, Read!Go, Read!Check, Read!Step, Read!End, Read!Release
  <2>3. CASE ReadMoves(r, Read!Unregistered, "idle", read_got[r])
    BY <1>6, <2>1, <2>3, ReadMoved, ReadRegistered, ReadBounds
  <2>4. CASE ReadMoves(r, read_state[r], "read", read_got[r])
    BY <1>6, <2>1, <2>4, ReadMoved, ReadRegistered, ReadBounds DEF Read!Check, ReadStates
  <2>. QED  BY <2>2, <2>3, <2>4
<1>7. ASSUME NEW r \in read_Readers, Read!Read(r) PROVE ReadStates'
  <2>0. read_got[r] < read_Body \/ read_got[r] + 1 > read_Body
    BY ReadBounds DEF ReadTimes
  <2>1. /\ read_state[r] \in ReadRecords /\ read_state[r].got <= read_got[r]
        /\ read_state[r].since <= read_now /\ read_now \in Nat /\ read_got[r] \in 0..read_Body
    BY DEF ReadStates, ReadRecord, ReadTimes
  <2>2. \/ read_got[r] < read_Body /\ ReadMoves(r, read_state[r], "piece", read_got[r] + 1)
        \/ ReadMoves(r, read_state[r], "end", read_got[r])
        \/ ReadMoves(r, read_state[r], "broken", read_got[r])
    BY <1>7 DEF ReadMoves, ReadTimes, ReadStates, ReadAsked, ReadFresh, Read!flags, Read!Go, Read!Read
  <2>3. CASE read_got[r] < read_Body /\ ReadMoves(r, read_state[r], "piece", read_got[r] + 1)
    <3>. DEFINE s == read_state[r]
    <3>1. /\ s \in ReadRecords /\ s.got <= read_got[r] + 1 /\ s.since <= read_now /\ read_got[r] + 1 \in 0..read_Body
          /\ s.there /\ s.got < read_got[r] + 1
      BY <1>7, <2>1, <2>3, ReadBounds DEF Read!Read, ReadStates, ReadRecord, ReadRecords
    <3>. HIDE DEF s
    <3>2. ReadMoves(r, s, "piece", read_got[r] + 1)
      BY <2>3 DEF s
    <3>. QED  BY <3>1, <3>2, ReadMoved
  <2>4. CASE ReadMoves(r, read_state[r], "end", read_got[r])
    BY <1>7, <2>1, <2>4, ReadMoved, ReadRegistered, ReadBounds DEF Read!Read, ReadStates
  <2>5. CASE ReadMoves(r, read_state[r], "broken", read_got[r])
    BY <1>7, <2>1, <2>5, ReadMoved, ReadRegistered, ReadBounds DEF Read!Read, ReadStates
  <2>. QED  BY <2>2, <2>3, <2>4, <2>5
<1>8. ASSUME NEW r \in read_Readers, Read!Piece(r) PROVE ReadStates'
  <2>1. /\ read_state[r] \in ReadRecords /\ read_state[r].got <= read_got[r]
        /\ read_state[r].since <= read_now /\ read_now \in Nat /\ read_got[r] \in 0..read_Body
    BY DEF ReadStates, ReadRecord, ReadTimes
  <2>2. \/ ReadMoves(r, Read!Unregistered, "idle", read_got[r])
        \/ ReadMoves(r, [read_state[r] EXCEPT !.got = read_state[r].got + 1], "check", read_got[r])
    BY <1>8 DEF ReadMoves, ReadTimes, ReadStates, ReadAsked, ReadFresh, Read!flags, Read!Go, Read!Piece, Read!Step, Read!End, Read!Release
  <2>3. CASE ReadMoves(r, Read!Unregistered, "idle", read_got[r])
    BY <1>8, <2>1, <2>3, ReadMoved, ReadRegistered, ReadBounds
  <2>4. CASE ReadMoves(r, [read_state[r] EXCEPT !.got = read_state[r].got + 1], "check", read_got[r])
    <3>. DEFINE s == [read_state[r] EXCEPT !.got = read_state[r].got + 1]
    <3>1. /\ s \in ReadRecords /\ s.got <= read_got[r] /\ s.since <= read_now /\ read_got[r] \in 0..read_Body
          /\ s.there
      <4>1. read_state[r].got + 1 \in 0..read_Body /\ read_state[r].got + 1 <= read_got[r]
        BY <1>8, <2>1, ReadBounds DEF Read!Piece, ReadStates, ReadRecord, ReadRecords
      <4>2. read_state[r].there
        BY <1>8 DEF Read!Piece, ReadStates
      <4>. QED  BY <2>1, <4>1, <4>2, ReadCounted
    <3>. HIDE DEF s
    <3>2. ReadMoves(r, s, "check", read_got[r])
      BY <2>4 DEF s
    <3>. QED  BY <3>1, <3>2, ReadMoved
  <2>. QED  BY <2>2, <2>3, <2>4
<1>9. ASSUME NEW r \in read_Readers, Read!Ended(r) PROVE ReadStates'
  <2>1. /\ read_state[r] \in ReadRecords /\ read_state[r].got <= read_got[r]
        /\ read_state[r].since <= read_now /\ read_now \in Nat /\ read_got[r] \in 0..read_Body
    BY DEF ReadStates, ReadRecord, ReadTimes
  <2>2. \/ ReadMoves(r, Read!Unregistered, "idle", read_got[r])
    BY <1>9 DEF ReadMoves, ReadTimes, ReadStates, ReadAsked, ReadFresh, Read!flags, Read!Go, Read!Ended, Read!End, Read!Release
  <2>3. CASE ReadMoves(r, Read!Unregistered, "idle", read_got[r])
    BY <1>9, <2>1, <2>3, ReadMoved, ReadRegistered, ReadBounds
  <2>. QED  BY <2>2, <2>3
<1>10. ASSUME NEW r \in read_Readers, Read!Broken(r) PROVE ReadStates'
  <2>1. /\ read_state[r] \in ReadRecords /\ read_state[r].got <= read_got[r]
        /\ read_state[r].since <= read_now /\ read_now \in Nat /\ read_got[r] \in 0..read_Body
    BY DEF ReadStates, ReadRecord, ReadTimes
  <2>2. \/ ReadMoves(r, Read!Unregistered, "idle", read_got[r])
    BY <1>10 DEF ReadMoves, ReadTimes, ReadStates, ReadAsked, ReadFresh, Read!flags, Read!Go, Read!Broken, Read!End, Read!Release
  <2>3. CASE ReadMoves(r, Read!Unregistered, "idle", read_got[r])
    BY <1>10, <2>1, <2>3, ReadMoved, ReadRegistered, ReadBounds
  <2>. QED  BY <2>2, <2>3
<1>11. CASE Read!Watch
  <2>1. \A r \in read_Readers :
          ReadRecord(r, read_state[r]) /\ read_state[r].got \in Nat /\ read_got[r] \in Nat
    BY DEF ReadStates, ReadTimes, ReadRecord, ReadRecords
  <2>2. /\ \A r \in read_Readers : read_state'[r] = Read!Look(r)
        /\ read_state' = [r \in read_Readers |-> read_state'[r]]
        /\ UNCHANGED <<read_now, read_got, read_pc>>
    BY <1>11 DEF Read!Watch
  <2>3. \A r \in read_Readers :
          /\ ReadRecord(r, Read!Look(r)) /\ Read!Look(r).got <= read_state[r].got
          /\ Read!Look(r).there = read_state[r].there
          /\ Read!Look(r).headers = read_state[r].headers /\ Read!Look(r).got \in Nat
          /\ Read!Look(r) \in ReadRecords
    BY <2>1, ReadLooked DEF ReadRecord, ReadRecords
  <2>. QED  BY <2>1, <2>2, <2>3 DEF ReadStates, ReadRecord
<1>12. CASE Read!Stop
  <2>. QED  BY <1>12 DEF Read!Stop, ReadStates, ReadRecord
<1>13. CASE Read!Abort
  <2>1. /\ \A r \in read_Readers :
             read_state'[r] \in {read_state[r], [read_state[r] EXCEPT !.error = "stopped"]}
        /\ read_state' = [r \in read_Readers |-> read_state'[r]]
        /\ UNCHANGED <<read_now, read_got, read_pc>>
    BY <1>13 DEF Read!Abort
  <2>2. \A s \in ReadRecords :
          /\ [s EXCEPT !.error = "stopped"] \in ReadRecords
          /\ [s EXCEPT !.error = "stopped"].got = s.got
          /\ [s EXCEPT !.error = "stopped"].since = s.since
          /\ [s EXCEPT !.error = "stopped"].there = s.there
          /\ [s EXCEPT !.error = "stopped"].headers = s.headers
    BY DEF ReadRecords, Read!Reasons
  <2>3. \A r \in read_Readers :
          /\ read_state'[r] \in ReadRecords /\ read_state'[r].got = read_state[r].got
          /\ read_state'[r].since = read_state[r].since
          /\ read_state'[r].there = read_state[r].there
          /\ read_state'[r].headers = read_state[r].headers
    BY <2>1, <2>2 DEF ReadStates
  <2>. QED  BY <2>1, <2>3 DEF ReadStates, ReadRecord
<1>14. CASE Read!Cancel
  <2>. QED  BY <1>14 DEF Read!Cancel, ReadStates, ReadRecord
<1>15. CASE Read!Tick
  <2>1. read_now' = read_now + 1 /\ UNCHANGED <<read_state, read_pc, read_got>>
    BY <1>15 DEF Read!Tick
  <2>2. \A r \in read_Readers : read_state[r].since \in Nat
    BY DEF ReadStates, ReadRecord, ReadRecords
  <2>. QED  BY <2>1, <2>2 DEF ReadStates, ReadRecord, ReadTimes
<1>. QED  BY <1>1, <1>2, <1>3, <1>4, <1>5, <1>6, <1>7, <1>8, <1>9, <1>10, <1>11, <1>12, <1>13,
   <1>14, <1>15 DEF Read!Next

\* ... the reason of a cut known until it has been told ...
LEMMA ReadReasonsKept ==
  ASSUME ReadInv, Read!Next
  PROVE  ReadReasons'
<1>. USE ReadBounds, ReadWhy DEF ReadInv, ReadTimes, ReadCuts, ReadStates, ReadReasons,
   ReadReason, Read!Checked, Read!GroupSays, Read!flags, Read!Go
<1>1. ASSUME NEW r \in read_Readers, Read!Request(r) PROVE ReadReasons'
  BY <1>1 DEF Read!Request, Read!Register, Read!End, Read!Release
<1>2. ASSUME NEW r \in read_Readers, Read!Headers(r) PROVE ReadReasons'
  BY <1>2 DEF Read!Headers, Read!Step, Read!End, Read!Release
<1>3. ASSUME NEW r \in read_Readers, Read!Build(r) PROVE ReadReasons'
  BY <1>3 DEF Read!Build, Read!Step, Read!End, Read!Release, Read!Register
<1>4. ASSUME NEW r \in read_Readers, Read!Track(r) PROVE ReadReasons'
  BY <1>4 DEF Read!Track, Read!Step, Read!End, Read!Release, Read!Register
<1>5. ASSUME NEW r \in read_Readers, Read!Accept(r) PROVE ReadReasons'
  BY <1>5 DEF Read!Accept, Read!Step, Read!End, Read!Release, Read!GroupSays
<1>6. ASSUME NEW r \in read_Readers, Read!Check(r) PROVE ReadReasons'
  BY <1>6 DEF Read!Check, Read!Step, Read!End, Read!Release
<1>7. ASSUME NEW r \in read_Readers, Read!Read(r) PROVE ReadReasons'
  BY <1>7 DEF Read!Read
<1>8. ASSUME NEW r \in read_Readers, Read!Piece(r) PROVE ReadReasons'
  BY <1>8 DEF Read!Piece, Read!Step, Read!End, Read!Release
<1>9. ASSUME NEW r \in read_Readers, Read!Ended(r) PROVE ReadReasons'
  BY <1>9 DEF Read!Ended, Read!End, Read!Release
<1>10. ASSUME NEW r \in read_Readers, Read!Broken(r) PROVE ReadReasons'
  BY <1>10 DEF Read!Broken, Read!End, Read!Release
<1>11. CASE Read!Watch
  <2>1. \A r \in read_Readers : ReadRecord(r, read_state[r])
    OBVIOUS
  <2>2. \A r \in read_Readers :
          /\ Read!Found(r) \in Read!Reasons
          /\ read_state[r].error # "none" => Read!Found(r) # "none"
          /\ read_cancelled \/ read_now >= read_Deadline => Read!Found(r) # "none"
          /\ read_state[r].headers /\ read_HeaderLimit # 0
             /\ read_now >= read_state[r].since + read_HeaderLimit => Read!Found(r) # "none"
          /\ Read!Found(r) # "none" /\ read_state[r].error = "none" /\ ~read_state[r].headers
             /\ read_state[r].since = read_now => Read!Checked # "none"
    <3>1. /\ read_now \in Nat
          /\ \A r \in read_Readers :
               read_state[r].since \in Nat /\ read_state[r].error \in Read!Reasons
      BY <2>1, ReadBounds DEF ReadTimes, ReadRecord, ReadRecords
    <3>. QED  BY <3>1, ReadFound
  <2>3. /\ \A r \in read_Readers :
             /\ read_state'[r] = Read!Look(r)
             /\ read_cut'[r] <=> read_cut[r] \/ (read_state[r].there /\ Read!Found(r) # "none")
        /\ read_seen'
        /\ UNCHANGED <<read_now, read_cancelled, read_stopped, read_pc, read_got>>
    BY <1>11 DEF Read!Watch, Read!Watched
  <2>4. \A r \in read_Readers :
          /\ Read!Look(r).there = read_state[r].there
          /\ Read!Look(r).headers = read_state[r].headers
          /\ ~read_state[r].there => Read!Look(r) = read_state[r]
          /\ read_state[r].there => Read!Look(r).error = Read!Found(r)
          /\ Read!Look(r).since = read_state[r].since \/ Read!Look(r).since = read_now
          /\ read_state[r].headers => Read!Look(r).since = read_state[r].since
    BY <2>1, ReadLooked DEF Read!Watched
  <2>. QED  BY <2>1, <2>2, <2>3, <2>4, ReadBounds
<1>12. CASE Read!Stop
  BY <1>12 DEF Read!Stop
<1>13. CASE Read!Abort
  <2>1. \A r \in read_Readers :
          /\ read_state[r].there => read_state'[r].error = "stopped"
          /\ ~read_state[r].there => read_state'[r] = read_state[r]
          /\ read_state'[r].since = read_state[r].since
          /\ read_state'[r].headers = read_state[r].headers
          /\ read_cut'[r] <=> read_cut[r] \/ read_state[r].there
    BY <1>13 DEF Read!Abort, ReadRecord, ReadRecords
  <2>2. read_stopped' /\ UNCHANGED <<read_now, read_cancelled, read_pc, read_got>>
    BY <1>13 DEF Read!Abort, ReadFlags
  <2>. QED  BY <2>1, <2>2
<1>14. CASE Read!Cancel
  BY <1>14 DEF Read!Cancel
<1>15. CASE Read!Tick
  <2>1. /\ \A r \in read_Readers : read_pc[r] \in {"idle", "headers", "read"}
        /\ UNCHANGED <<read_state, read_pc, read_cut, read_got>>
    BY <1>15 DEF Read!Tick, Read!Waiting
  <2>. QED  BY <2>1
<1>. QED  BY <1>1, <1>2, <1>3, <1>4, <1>5, <1>6, <1>7, <1>8, <1>9, <1>10, <1>11, <1>12, <1>13,
   <1>14, <1>15 DEF Read!Next

\* ... and nobody waiting beyond its time.
LEMMA ReadWaitsKept ==
  ASSUME ReadInv, Read!Next
  PROVE  ReadWaits'
<1>. USE ReadBounds, ReadWhy DEF ReadInv, ReadTimes, ReadCuts, ReadStates, ReadWaits,
   Read!Checked, Read!flags, Read!Go
<1>1. ASSUME NEW r \in read_Readers, Read!Request(r) PROVE ReadWaits'
  BY <1>1 DEF Read!Request, Read!Register, Read!End, Read!Release
<1>2. ASSUME NEW r \in read_Readers, Read!Headers(r) PROVE ReadWaits'
  BY <1>2 DEF Read!Headers, Read!Step, Read!End, Read!Release
<1>3. ASSUME NEW r \in read_Readers, Read!Build(r) PROVE ReadWaits'
  BY <1>3 DEF Read!Build, Read!Step, Read!End, Read!Release, Read!Register
<1>4. ASSUME NEW r \in read_Readers, Read!Track(r) PROVE ReadWaits'
  BY <1>4 DEF Read!Track, Read!Step, Read!End, Read!Release, Read!Register
<1>5. ASSUME NEW r \in read_Readers, Read!Accept(r) PROVE ReadWaits'
  BY <1>5 DEF Read!Accept, Read!Step, Read!End, Read!Release, Read!GroupSays
<1>6. ASSUME NEW r \in read_Readers, Read!Check(r) PROVE ReadWaits'
  BY <1>6 DEF Read!Check, Read!Step, Read!End, Read!Release
<1>7. ASSUME NEW r \in read_Readers, Read!Read(r) PROVE ReadWaits'
  BY <1>7 DEF Read!Read
<1>8. ASSUME NEW r \in read_Readers, Read!Piece(r) PROVE ReadWaits'
  BY <1>8 DEF Read!Piece, Read!Step, Read!End, Read!Release
<1>9. ASSUME NEW r \in read_Readers, Read!Ended(r) PROVE ReadWaits'
  BY <1>9 DEF Read!Ended, Read!End, Read!Release
<1>10. ASSUME NEW r \in read_Readers, Read!Broken(r) PROVE ReadWaits'
  BY <1>10 DEF Read!Broken, Read!End, Read!Release
<1>11. CASE Read!Watch
  <2>1. \A r \in read_Readers : ReadRecord(r, read_state[r])
    OBVIOUS
  <2>2. \A r \in read_Readers :
          /\ Read!Found(r) \in Read!Reasons
          /\ read_state[r].error # "none" => Read!Found(r) # "none"
          /\ read_cancelled \/ read_now >= read_Deadline => Read!Found(r) # "none"
          /\ read_state[r].headers /\ read_HeaderLimit # 0
             /\ read_now >= read_state[r].since + read_HeaderLimit => Read!Found(r) # "none"
          /\ Read!Found(r) # "none" /\ read_state[r].error = "none" /\ ~read_state[r].headers
             /\ read_state[r].since = read_now => Read!Checked # "none"
    <3>1. /\ read_now \in Nat
          /\ \A r \in read_Readers :
               read_state[r].since \in Nat /\ read_state[r].error \in Read!Reasons
      BY <2>1, ReadBounds DEF ReadTimes, ReadRecord, ReadRecords
    <3>. QED  BY <3>1, ReadFound
  <2>3. /\ \A r \in read_Readers :
             /\ read_state'[r] = Read!Look(r)
             /\ read_cut'[r] <=> read_cut[r] \/ (read_state[r].there /\ Read!Found(r) # "none")
        /\ read_seen'
        /\ UNCHANGED <<read_now, read_cancelled, read_stopped, read_pc, read_got>>
    BY <1>11 DEF Read!Watch, Read!Watched
  <2>4. \A r \in read_Readers :
          /\ Read!Look(r).there = read_state[r].there
          /\ Read!Look(r).headers = read_state[r].headers
          /\ ~read_state[r].there => Read!Look(r) = read_state[r]
          /\ read_state[r].there => Read!Look(r).error = Read!Found(r)
          /\ Read!Look(r).since = read_state[r].since \/ Read!Look(r).since = read_now
          /\ read_state[r].headers => Read!Look(r).since = read_state[r].since
    BY <2>1, ReadLooked DEF Read!Watched
  <2>. QED  BY <2>1, <2>2, <2>3, <2>4, ReadBounds
<1>12. CASE Read!Stop
  BY <1>12 DEF Read!Stop
<1>13. CASE Read!Abort
  BY <1>13 DEF Read!Abort
<1>14. CASE Read!Cancel
  BY <1>14 DEF Read!Cancel
<1>15. CASE Read!Tick
  <2>1. /\ \A r \in read_Readers : read_pc[r] \in {"headers", "read"} => ~read_cut[r]
        /\ read_seen /\ ~read_seen' /\ read_now' = read_now + 1 /\ read_now \in Nat
        /\ UNCHANGED <<read_state, read_pc, read_cut, read_got>>
    BY <1>15 DEF Read!Tick, Read!Waiting
  <2>2. \A r \in read_Readers : read_state[r].since \in Nat
    BY DEF ReadRecord, ReadRecords
  <2>. QED  BY <2>1, <2>2, ReadBounds
<1>. QED  BY <1>1, <1>2, <1>3, <1>4, <1>5, <1>6, <1>7, <1>8, <1>9, <1>10, <1>11, <1>12, <1>13,
   <1>14, <1>15 DEF Read!Next

LEMMA ReadWholeKept ==
  ASSUME ReadInv, Read!Next
  PROVE  Read!CutIsNotWhole'
<1>. USE ReadBounds, ReadWhy DEF ReadInv, ReadTimes, ReadReasons, ReadReason, Read!Reasons,
   Read!CutIsNotWhole, Read!Checked, Read!GroupSays, Read!flags, Read!Go
<1>1. ASSUME NEW r \in read_Readers, Read!Request(r) PROVE Read!CutIsNotWhole'
  BY <1>1 DEF Read!Request, Read!Register, Read!End, Read!Release
<1>2. ASSUME NEW r \in read_Readers, Read!Headers(r) PROVE Read!CutIsNotWhole'
  BY <1>2 DEF Read!Headers, Read!Step, Read!End, Read!Release
<1>3. ASSUME NEW r \in read_Readers, Read!Build(r) PROVE Read!CutIsNotWhole'
  BY <1>3 DEF Read!Build, Read!Step, Read!End, Read!Release, Read!Register
<1>4. ASSUME NEW r \in read_Readers, Read!Track(r) PROVE Read!CutIsNotWhole'
  BY <1>4 DEF Read!Track, Read!Step, Read!End, Read!Release, Read!Register
<1>5. ASSUME NEW r \in read_Readers, Read!Accept(r) PROVE Read!CutIsNotWhole'
  BY <1>5 DEF Read!Accept, Read!Step, Read!End, Read!Release, Read!GroupSays
<1>6. ASSUME NEW r \in read_Readers, Read!Check(r) PROVE Read!CutIsNotWhole'
  BY <1>6 DEF Read!Check, Read!Step, Read!End, Read!Release
<1>7. ASSUME NEW r \in read_Readers, Read!Read(r) PROVE Read!CutIsNotWhole'
  BY <1>7 DEF Read!Read
<1>8. ASSUME NEW r \in read_Readers, Read!Piece(r) PROVE Read!CutIsNotWhole'
  BY <1>8 DEF Read!Piece, Read!Step, Read!End, Read!Release
<1>9. ASSUME NEW r \in read_Readers, Read!Ended(r) PROVE Read!CutIsNotWhole'
  BY <1>9 DEF Read!Ended, Read!End, Read!Release
<1>10. ASSUME NEW r \in read_Readers, Read!Broken(r) PROVE Read!CutIsNotWhole'
  BY <1>10 DEF Read!Broken, Read!End, Read!Release
<1>11. CASE Read!Watch
  BY <1>11 DEF Read!Watch
<1>12. CASE Read!Stop
  BY <1>12 DEF Read!Stop
<1>13. CASE Read!Abort
  BY <1>13 DEF Read!Abort
<1>14. CASE Read!Cancel
  BY <1>14 DEF Read!Cancel
<1>15. CASE Read!Tick
  BY <1>15 DEF Read!Tick
<1>. QED  BY <1>1, <1>2, <1>3, <1>4, <1>5, <1>6, <1>7, <1>8, <1>9, <1>10, <1>11, <1>12, <1>13,
   <1>14, <1>15 DEF Read!Next

\* For any readers, body, deadline and limits: why a read was cut is known until it is told, and
\* the watchdog has cut whoever would wait beyond its time.
THEOREM ReadHolds == Read!Spec => []ReadInv
<1>1. ReadInv /\ [Read!Next]_Read!vars => ReadInv'
  <2>. SUFFICES ASSUME ReadInv, [Read!Next]_Read!vars PROVE ReadInv'
    OBVIOUS
  <2>1. CASE Read!Next
    BY <2>1, ReadTimesKept, ReadFlagsKept, ReadCutsKept, ReadStatesKept, ReadReasonsKept,
       ReadWaitsKept, ReadWholeKept DEF ReadInv
  <2>2. CASE UNCHANGED Read!vars
    BY <2>2 DEF Read!vars, ReadInv, ReadTimes, ReadFlags, ReadCuts, ReadStates, ReadRecord,
       ReadReasons, ReadReason, ReadWaits, Read!CutIsNotWhole, Read!Checked
  <2>. QED  BY <2>1, <2>2
<1>. QED  BY <1>1, ReadInit, PTL DEF Read!Spec

LEMMA ReadGives == ReadInv => Read!TypeOK /\ Read!ReadsControlled
<1>. SUFFICES ASSUME ReadInv PROVE Read!TypeOK /\ Read!ReadsControlled
  OBVIOUS
<1>1. /\ ReadTimes /\ ReadFlags /\ ReadCuts /\ ReadStates /\ ReadWaits
      /\ Read!CutIsNotWhole
  BY DEF ReadInv
<1>2. read_pc \in [read_Readers -> Read!Waiting \cup
                     {"idle", "build", "track", "answer", "check", "piece", "end", "broken"}]
  BY <1>1 DEF ReadTimes, Read!Waiting
<1>3. Read!TypeOK
  BY <1>1, <1>2, Zenon DEF ReadTimes, ReadFlags, ReadCuts, ReadStates, ReadRecords, Read!TypeOK
<1>4. Read!NobodyWaitsOn
  BY <1>1 DEF ReadWaits, Read!NobodyWaitsOn, Read!Waiting
<1>. QED  BY <1>1, <1>3, <1>4 DEF Read!ReadsControlled

-----------------------------------------------------------------------------
(* Listings of a repository.                                                  *)

WalkTypes ==
  /\ walk_tree \subseteq walk_Nodes
  /\ \A n \in walk_tree : walk_Parent[n] \in walk_tree \cup {walk_Root}
  /\ walk_pc \in {"idle", "first", "level", "shallow"}
  /\ walk_kind \in {"none", "model", "flat", "dataset"}
  /\ walk_frontier \subseteq Walk!Dirs /\ walk_queue \subseteq Walk!Dirs
  /\ walk_busy \subseteq Walk!Dirs /\ walk_oversized \subseteq Walk!Dirs
  /\ walk_collected \subseteq walk_tree /\ walk_tries \in [Walk!Dirs -> 0..walk_MaxAttempts]
  /\ walk_known \subseteq [r : Walk!Dirs, entries : SUBSET walk_tree]
  /\ walk_requests \in 0..walk_MaxRequests /\ walk_calls \in 0..walk_MaxCalls
  /\ walk_result \in {"none", "ok", "incomplete", "failed", "denied"}
WalkFlags   == {walk_proven, walk_wasProven, walk_spent} \subseteq BOOLEAN
WalkTrusted == walk_trusted \in [Walk!Dirs -> BOOLEAN]

\* A page that is not the last adds an entry to what there is.
WalkPages ==
  /\ walk_page \in 0..Cardinality(walk_Nodes) + 1
  /\ walk_pc # "idle" /\ walk_kind = "dataset" =>
       walk_page \in Nat \ {0} /\ Cardinality(walk_collected) >= walk_page - 1

\* What the walk does: the first listing, and the levels of a model only.
WalkPhase ==
  /\ walk_pc = "idle" => walk_queue = {} /\ walk_busy = {}
  /\ walk_pc # "idle" => walk_result = "none" /\ walk_kind # "none"
  /\ walk_pc \in {"level", "shallow"} => walk_kind = "model"
  /\ walk_pc = "first" /\ walk_kind # "dataset" => walk_collected = {} /\ walk_oversized = {}
  /\ walk_pc = "first" => ~walk_spent

\* The directories of a level: waiting, with a worker, or listed.
WalkAsked == walk_queue \cup walk_busy \cup {k.r : k \in walk_known}
WalkFirst == walk_pc = "first" => WalkAsked = {walk_Root}

\* A listing is all of what was asked, or as long as a listing gets.
WalkAll(r) ==
  IF walk_pc = "level" \/ (walk_pc = "first" /\ walk_kind = "model") THEN Walk!Below(r)
  ELSE Walk!Children(r)
WalkListed(k) ==
  IF walk_kind = "dataset"
  THEN /\ k.entries \subseteq walk_tree \ walk_collected
       /\ Cardinality(k.entries) >= walk_PageSize \/ k.entries = walk_tree \ walk_collected
  ELSE /\ k.entries \subseteq WalkAll(k.r)
       /\ Walk!Truncated(k.entries) \/ k.entries = WalkAll(k.r)
WalkListings == walk_pc # "idle" => \A k \in walk_known : WalkListed(k)

\* What the walk has not seen is below a directory of the level, unless it knows better.
WalkCover ==
  walk_pc \in {"level", "shallow"} /\ ~walk_spent /\ walk_oversized = {} =>
    \A n \in walk_tree \ walk_collected : \E r \in WalkAsked : n \in Walk!Below(r)

\* A call that began with a credential that is good asks with one that is known to be.
WalkHonest ==
  /\ walk_pc # "idle" /\ walk_wasProven => walk_proven
  /\ walk_wasProven => \A r \in walk_busy : walk_trusted[r]
  /\ Walk!HonestDenial

WalkInv ==
  /\ WalkTypes /\ WalkFlags /\ WalkTrusted /\ WalkPages /\ WalkPhase /\ WalkFirst
  /\ WalkListings /\ WalkCover /\ WalkHonest /\ Walk!CompleteOrSaid

LEMMA WalkBounds ==
  /\ IsFiniteSet(walk_Nodes) /\ walk_Nodes # {}
  /\ \A n \in walk_Nodes : walk_Root \in Walk!Above(n)
  /\ walk_Parent \in [walk_Nodes -> walk_Nodes \cup {walk_Root}] /\ walk_Root \notin walk_Nodes
  /\ walk_Limit \in Nat \ {0} /\ walk_MaxRequests \in Nat \ {0} /\ walk_MaxWorkers \in Nat \ {0}
  /\ walk_MaxAttempts \in Nat \ {0} /\ walk_PageSize \in Nat \ {0} /\ walk_MaxCalls \in Nat
<1>1. IsFiniteSet(walk_Nodes)
  BY WalkOK DEF Walk!ConstantsOK, Walk!IsFiniteSet, IsFiniteSet
<1>. QED  BY <1>1, WalkOK DEF Walk!ConstantsOK

LEMMA WalkCard == \A s : Walk!Cardinality(s) = Cardinality(s)
BY DEF Walk!Cardinality, Cardinality

LEMMA WalkDirs ==
  /\ Walk!Dirs \subseteq walk_Nodes \cup {walk_Root} /\ walk_Root \in Walk!Dirs
  /\ IsFiniteSet(Walk!Dirs) /\ Walk!Dirs \in Walk!Closed
<1>1. Walk!Dirs \subseteq walk_Nodes \cup {walk_Root}
  BY WalkBounds DEF Walk!Dirs
<1>2. Walk!Dirs \in Walk!Closed
  BY <1>1 DEF Walk!Dirs, Walk!Closed
<1>3. walk_Root \in Walk!Dirs
  <2>1. PICK n \in walk_Nodes : walk_Root \in Walk!Above(n)
    BY WalkBounds
  <2>. QED  BY <1>2, <2>1 DEF Walk!Above, Walk!Dirs
<1>4. IsFiniteSet(walk_Nodes \cup {walk_Root})
  BY WalkBounds, FS_AddElement
<1>. QED  BY <1>1, <1>2, <1>3, <1>4, FS_Subset

\* Everything is below the root, and what is below a directory is in it, or below one that is.
LEMMA WalkRooted == walk_tree \subseteq walk_Nodes => walk_tree = Walk!Below(walk_Root)
BY WalkBounds DEF Walk!Below

LEMMA WalkBelow ==
  ASSUME WalkTypes, NEW r, NEW n \in Walk!Below(r), n \notin Walk!Children(r)
  PROVE  \E d \in Walk!Children(r) \cap Walk!Dirs : n \in Walk!Below(d)
<1>. DEFINE s == {x \in Walk!Above(n) :
                   x = walk_Parent[n] \/ \E d \in Walk!Above(n) \ {walk_Root} : walk_Parent[d] = x}
            t == walk_tree \cup {walk_Root}
<1>1. n \in walk_tree /\ r \in Walk!Above(n) /\ walk_Parent[n] # r /\ n \in walk_Nodes
  BY DEF Walk!Below, Walk!Children, WalkTypes
<1>2. /\ walk_Parent[n] \in walk_Nodes \cup {walk_Root} /\ n \in Walk!Dirs \cup walk_Nodes
      /\ \A m \in walk_Nodes : walk_Parent[m] \in walk_Nodes \cup {walk_Root}
  BY <1>1, WalkBounds
<1>3. walk_Parent[n] \in Walk!Above(n) /\ Walk!Above(n) \subseteq walk_Nodes \cup {walk_Root}
  BY <1>2 DEF Walk!Above
<1>4. \A d \in Walk!Above(n) \ {walk_Root} : walk_Parent[d] \in Walk!Above(n)
  BY <1>2, <1>3 DEF Walk!Above, Walk!Closed
<1>5. s \in Walk!Closed
  BY <1>3, <1>4 DEF Walk!Closed
<1>6. r \in s
  <2>1. walk_Parent[n] \in s
    BY <1>3
  <2>. HIDE DEF s
  <2>. QED  BY <1>1, <1>5, <2>1 DEF Walk!Above
<1>7. PICK d \in Walk!Above(n) \ {walk_Root} : walk_Parent[d] = r
  BY <1>1, <1>6
<1>8. d \in walk_tree
  <2>1. t \in Walk!Closed /\ walk_Parent[n] \in t
    BY <1>1 DEF Walk!Closed, WalkTypes
  <2>. HIDE DEF t
  <2>2. d \in t
    BY <2>1 DEF Walk!Above
  <2>. QED  BY <2>2, <1>7 DEF t
<1>9. d \in Walk!Dirs
  <2>1. walk_Parent[n] \in Walk!Dirs
    BY <1>1 DEF Walk!Dirs
  <2>. QED  BY <2>1, WalkDirs DEF Walk!Above
<1>. QED  BY <1>1, <1>7, <1>8, <1>9 DEF Walk!Below, Walk!Children

\* What is not cut off is not cut off in part.
LEMMA WalkShorter ==
  ASSUME NEW t \in SUBSET walk_Nodes, ~Walk!Truncated(t), NEW s \in SUBSET t
  PROVE  ~Walk!Truncated(s)
<1>1. IsFiniteSet(t) /\ IsFiniteSet(s) /\ Cardinality(s) <= Cardinality(t)
  BY WalkBounds, FS_Subset
<1>2. Cardinality(s) \in Nat /\ Cardinality(t) \in Nat
  BY <1>1, FS_CardinalityType
<1>. QED  BY <1>1, <1>2, WalkBounds, WalkCard DEF Walk!Truncated

LEMMA WalkInit == Walk!Init => WalkInv
<1>. SUFFICES ASSUME Walk!Init PROVE WalkInv
  OBVIOUS
<1>. USE WalkBounds, WalkDirs DEF Walk!Init
<1>1. WalkTypes
  BY DEF WalkTypes
<1>2. WalkFlags
  BY Zenon DEF WalkFlags
<1>3. WalkTrusted
  BY DEF WalkTrusted
<1>4. WalkPages
  BY FS_CardinalityType DEF WalkPages
<1>5. WalkPhase /\ WalkFirst /\ WalkListings /\ WalkCover
  BY DEF WalkPhase, WalkFirst, WalkListings, WalkCover
<1>6. WalkHonest /\ Walk!CompleteOrSaid
  BY DEF WalkHonest, Walk!HonestDenial, Walk!CompleteOrSaid
<1>. QED  BY <1>1, <1>2, <1>3, <1>4, <1>5, <1>6 DEF WalkInv

\* Nobody changes the tree; what is known of the credential is known for good.
LEMMA WalkFlagsKept ==
  ASSUME WalkFlags, Walk!Next
  PROVE  WalkFlags'
<1>1. /\ walk_proven' \in {walk_proven, TRUE} /\ walk_wasProven' \in {walk_wasProven, walk_proven}
      /\ walk_spent' \in {walk_spent, TRUE, FALSE}
  BY DEF Walk!Begin, Walk!Take, Walk!Denied, Walk!Fails, Walk!Answer, Walk!Answered, Walk!Paged,
     Walk!Whole, Walk!Walk, Walk!Split, Walk!Descend, Walk!Rest, Walk!Settled, Walk!Finish,
     Walk!Fetch, Walk!Over, Walk!walk, Walk!pool, Walk!vars, Walk!Next
<1>. QED  BY <1>1, Zenon DEF WalkFlags

LEMMA WalkTrustedKept ==
  ASSUME WalkInv, Walk!Next
  PROVE  WalkTrusted'
<1>. USE DEF WalkInv, WalkTrusted, WalkFlags, Walk!walk, Walk!pool
<1>1. ASSUME NEW kd \in {"model", "flat", "dataset"}, Walk!Begin(kd) PROVE WalkTrusted'
  BY <1>1 DEF Walk!Begin
<1>2. ASSUME NEW d \in Walk!Dirs, Walk!Take(d) PROVE WalkTrusted'
  BY <1>2 DEF Walk!Take
<1>3. ASSUME NEW d \in Walk!Dirs, Walk!Denied(d) PROVE WalkTrusted'
  BY <1>3 DEF Walk!Denied, Walk!Over
<1>4. ASSUME NEW d \in Walk!Dirs, Walk!Fails(d) PROVE WalkTrusted'
  BY <1>4 DEF Walk!Fails, Walk!Over
<1>5. ASSUME NEW d \in Walk!Dirs, Walk!Answer(d) PROVE WalkTrusted'
  BY <1>5 DEF Walk!Answer, Walk!Answered
<1>6. CASE Walk!Paged
  BY <1>6 DEF Walk!Paged, Walk!Over, Walk!Settled
<1>7. CASE Walk!Whole
  BY <1>7 DEF Walk!Whole, Walk!Over, Walk!Settled
<1>8. CASE Walk!Walk
  BY <1>8 DEF Walk!Walk, Walk!Settled
<1>9. CASE Walk!Split
  BY <1>9 DEF Walk!Split, Walk!Settled, Walk!Finish, Walk!Fetch, Walk!Over
<1>10. CASE Walk!Descend
  BY <1>10 DEF Walk!Descend, Walk!Settled, Walk!Finish, Walk!Fetch, Walk!Over
<1>11. CASE Walk!Rest
  BY <1>11 DEF Walk!Rest, Walk!vars
<1>. QED  BY <1>1, <1>2, <1>3, <1>4, <1>5, <1>6, <1>7, <1>8, <1>9, <1>10, <1>11 DEF Walk!Next

LEMMA WalkHonestKept ==
  ASSUME WalkInv, Walk!Next
  PROVE  WalkHonest'
<1>. USE DEF WalkInv, WalkTrusted, WalkFlags, WalkPhase, WalkTypes, WalkHonest,
   Walk!HonestDenial, Walk!walk, Walk!pool
<1>1. ASSUME NEW kd \in {"model", "flat", "dataset"}, Walk!Begin(kd) PROVE WalkHonest'
  BY <1>1 DEF Walk!Begin
<1>2. ASSUME NEW d \in Walk!Dirs, Walk!Take(d) PROVE WalkHonest'
  BY <1>2 DEF Walk!Take
<1>3. ASSUME NEW d \in Walk!Dirs, Walk!Denied(d) PROVE WalkHonest'
  BY <1>3 DEF Walk!Denied, Walk!Over
<1>4. ASSUME NEW d \in Walk!Dirs, Walk!Fails(d) PROVE WalkHonest'
  BY <1>4 DEF Walk!Fails, Walk!Over
<1>5. ASSUME NEW d \in Walk!Dirs, Walk!Answer(d) PROVE WalkHonest'
  BY <1>5 DEF Walk!Answer, Walk!Answered
<1>6. CASE Walk!Paged
  BY <1>6 DEF Walk!Paged, Walk!Over, Walk!Settled
<1>7. CASE Walk!Whole
  BY <1>7 DEF Walk!Whole, Walk!Over, Walk!Settled
<1>8. CASE Walk!Walk
  BY <1>8 DEF Walk!Walk, Walk!Settled
<1>9. CASE Walk!Split
  BY <1>9 DEF Walk!Split, Walk!Settled, Walk!Finish, Walk!Fetch, Walk!Over
<1>10. CASE Walk!Descend
  BY <1>10 DEF Walk!Descend, Walk!Settled, Walk!Finish, Walk!Fetch, Walk!Over
<1>11. CASE Walk!Rest
  BY <1>11 DEF Walk!Rest, Walk!vars
<1>. QED  BY <1>1, <1>2, <1>3, <1>4, <1>5, <1>6, <1>7, <1>8, <1>9, <1>10, <1>11 DEF Walk!Next

\* An answer is a listing of what was asked, all of it or as much as a listing gets.
LEMMA WalkAnswers ==
  ASSUME WalkInv, NEW d \in Walk!Dirs, Walk!Answer(d)
  PROVE  \E s \in SUBSET walk_tree :
           Walk!Answered(d, s) /\ WalkListed([r |-> d, entries |-> s])
<1>. DEFINE k(s) == [r |-> d, entries |-> s]
<1>1. \A s : k(s).r = d /\ k(s).entries = s
  OBVIOUS
<1>. HIDE DEF k
<1>2. \A s \in SUBSET walk_tree : WalkListed(k(s)) <=>
        IF walk_kind = "dataset"
        THEN /\ s \subseteq walk_tree \ walk_collected
             /\ Cardinality(s) >= walk_PageSize \/ s = walk_tree \ walk_collected
        ELSE s \subseteq WalkAll(d) /\ (Walk!Truncated(s) \/ s = WalkAll(d))
  BY <1>1 DEF WalkListed
<1>3. CASE walk_kind # "dataset"
  <2>1. PICK s : /\ Walk!Answered(d, s)
                 /\ s \in Walk!Listings(d, walk_pc = "level"
                                           \/ (walk_pc = "first" /\ walk_kind = "model"))
    BY <1>3 DEF Walk!Answer
  <2>2. s = WalkAll(d) \/ (s \subseteq WalkAll(d) /\ Walk!Cardinality(s) = walk_Limit)
    BY <2>1 DEF Walk!Listings, WalkAll
  <2>3. WalkAll(d) \subseteq walk_tree
    BY DEF WalkAll, Walk!Below, Walk!Children
  <2>4. Walk!Cardinality(s) = walk_Limit => Walk!Truncated(s)
    BY WalkBounds DEF Walk!Truncated
  <2>. QED  BY <1>2, <1>3, <2>1, <2>2, <2>3, <2>4 DEF k
<1>4. CASE walk_kind = "dataset"
  <2>1. PICK s \in SUBSET (walk_tree \ walk_collected) :
          /\ \/ Walk!Cardinality(s) = walk_PageSize
             \/ s = walk_tree \ walk_collected
          /\ Walk!Answered(d, s)
    BY <1>4 DEF Walk!Answer
  <2>2. Cardinality(s) >= walk_PageSize \/ s = walk_tree \ walk_collected
    BY <2>1, WalkCard, WalkBounds
  <2>. QED  BY <1>2, <1>4, <2>1, <2>2 DEF k
<1>. QED  BY <1>3, <1>4

\* The next directories are asked for within what is left of the budget, and all of them
\* unless it is spent.
LEMMA WalkFetched ==
  ASSUME WalkTypes, NEW roots \in SUBSET Walk!Dirs, NEW step, Walk!Fetch(roots, step)
  PROVE  /\ walk_pc' = step /\ walk_queue' \subseteq roots
         /\ walk_requests' \in 0..walk_MaxRequests
         /\ walk_tries' \in [Walk!Dirs -> 0..walk_MaxAttempts]
         /\ UNCHANGED <<walk_busy, walk_trusted, walk_result>>
         /\ ~walk_spent' => ~walk_spent /\ walk_queue' = roots
<1>. DEFINE left == walk_MaxRequests - walk_requests
<1>1. left \in Nat /\ walk_requests \in Nat /\ walk_requests + left = walk_MaxRequests
  BY WalkBounds DEF WalkTypes
<1>2. IsFiniteSet(roots) /\ Cardinality(roots) \in Nat
  BY WalkDirs, FS_Subset, FS_CardinalityType
<1>3. /\ walk_pc' = step /\ walk_tries' = [r \in Walk!Dirs |-> 0]
      /\ UNCHANGED <<walk_busy, walk_trusted, walk_result>>
      /\ ~walk_spent' => ~walk_spent /\ ~(Cardinality(roots) > left)
      /\ walk_requests' = walk_requests + Cardinality(walk_queue')
      /\ walk_queue' \in IF Cardinality(roots) <= left THEN {roots}
                         ELSE {s \in SUBSET roots : Cardinality(s) = left}
  BY WalkCard DEF Walk!Fetch
<1>. HIDE DEF left
<1>4. CASE Cardinality(roots) <= left
  <2>1. walk_queue' = roots /\ walk_requests' = walk_requests + Cardinality(roots)
    BY <1>3, <1>4
  <2>2. walk_requests' \in 0..walk_MaxRequests
    BY <1>1, <1>2, <1>4, <2>1, WalkBounds
  <2>. QED  BY <1>3, <2>1, <2>2, WalkBounds
<1>5. CASE ~(Cardinality(roots) <= left)
  <2>1. walk_queue' \subseteq roots /\ walk_requests' = walk_requests + left /\ walk_spent'
    BY <1>1, <1>2, <1>3, <1>5
  <2>2. walk_requests' \in 0..walk_MaxRequests
    BY <1>1, <2>1, WalkBounds
  <2>. QED  BY <1>3, <2>1, <2>2, WalkBounds
<1>. QED  BY <1>4, <1>5

LEMMA WalkPhaseKept ==
  ASSUME WalkInv, Walk!Next
  PROVE  WalkPhase'
<1>. USE DEF WalkInv, WalkTypes, WalkPhase, Walk!walk, Walk!pool
<1>1. ASSUME NEW kd \in {"model", "flat", "dataset"}, Walk!Begin(kd) PROVE WalkPhase'
  BY <1>1 DEF Walk!Begin
<1>2. ASSUME NEW d \in Walk!Dirs, Walk!Take(d) PROVE WalkPhase'
  BY <1>2 DEF Walk!Take
<1>3. ASSUME NEW d \in Walk!Dirs, Walk!Denied(d) PROVE WalkPhase'
  BY <1>3 DEF Walk!Denied, Walk!Over
<1>4. ASSUME NEW d \in Walk!Dirs, Walk!Fails(d) PROVE WalkPhase'
  BY <1>4 DEF Walk!Fails, Walk!Over
<1>5. ASSUME NEW d \in Walk!Dirs, Walk!Answer(d) PROVE WalkPhase'
  BY <1>5 DEF Walk!Answer, Walk!Answered
<1>6. CASE Walk!Paged
  BY <1>6 DEF Walk!Paged, Walk!Over, Walk!Settled
<1>7. CASE Walk!Whole
  BY <1>7 DEF Walk!Whole, Walk!Over, Walk!Settled
<1>8. CASE Walk!Walk
  BY <1>8 DEF Walk!Walk, Walk!Settled
<1>9. CASE Walk!Split
  BY <1>9 DEF Walk!Split, Walk!Settled, Walk!Finish, Walk!Fetch, Walk!Over
<1>10. CASE Walk!Descend
  BY <1>10 DEF Walk!Descend, Walk!Settled, Walk!Finish, Walk!Fetch, Walk!Over
<1>11. CASE Walk!Rest
  BY <1>11 DEF Walk!Rest, Walk!vars
<1>. QED  BY <1>1, <1>2, <1>3, <1>4, <1>5, <1>6, <1>7, <1>8, <1>9, <1>10, <1>11 DEF Walk!Next

LEMMA WalkTypesKept ==
  ASSUME WalkInv, Walk!Next
  PROVE  WalkTypes'
<1>. USE WalkBounds, WalkDirs DEF WalkInv, WalkTypes, WalkPhase, WalkListings, Walk!Entries,
   Walk!walk, Walk!pool
<1>1. ASSUME NEW kd \in {"model", "flat", "dataset"}, Walk!Begin(kd) PROVE WalkTypes'
  BY <1>1 DEF Walk!Begin
<1>2. ASSUME NEW d \in Walk!Dirs, Walk!Take(d) PROVE WalkTypes'
  BY <1>2 DEF Walk!Take
<1>3. ASSUME NEW d \in Walk!Dirs, Walk!Denied(d) PROVE WalkTypes'
  BY <1>3 DEF Walk!Denied, Walk!Over
<1>4. ASSUME NEW d \in Walk!Dirs, Walk!Fails(d) PROVE WalkTypes'
  BY <1>4 DEF Walk!Fails, Walk!Over
<1>5. ASSUME NEW d \in Walk!Dirs, Walk!Answer(d) PROVE WalkTypes'
  <2>1. PICK s \in SUBSET walk_tree :
          Walk!Answered(d, s) /\ WalkListed([r |-> d, entries |-> s])
    BY <1>5, WalkAnswers
  <2>. QED  BY <2>1 DEF Walk!Answered
<1>6. CASE Walk!Paged
  BY <1>6 DEF Walk!Paged, Walk!Over, Walk!Settled
<1>7. CASE Walk!Whole
  BY <1>7 DEF Walk!Whole, Walk!Over, Walk!Settled
<1>8. CASE Walk!Walk
  BY <1>8 DEF Walk!Walk, Walk!Settled
<1>9. CASE Walk!Split
  <2>. HIDE DEF WalkTypes
  <2>1. {k.r : k \in {k \in walk_known : Walk!Truncated(k.entries)}} \subseteq Walk!Dirs
    BY DEF Walk!Truncated, WalkTypes
  <2>2. walk_collected' = walk_collected \cup Walk!Entries /\ walk_known' = {}
        /\ Walk!Entries \subseteq walk_tree
    BY <1>9 DEF Walk!Split, WalkTypes
  <2>. DEFINE roots == {k.r : k \in {k \in walk_known : Walk!Truncated(k.entries)}}
  <2>3. CASE roots = {} \/ walk_spent
    BY <1>9, <2>2, <2>3 DEF Walk!Split, Walk!Finish, Walk!Over, WalkTypes
  <2>4. CASE ~(roots = {} \/ walk_spent)
    <3>1. Walk!Fetch(roots, "shallow") /\ walk_frontier' \in {walk_frontier, roots}
      BY <1>9, <2>4 DEF Walk!Split
    <3>. HIDE DEF roots
    <3>2. /\ walk_pc' = "shallow" /\ walk_queue' \subseteq Walk!Dirs
          /\ walk_requests' \in 0..walk_MaxRequests /\ walk_frontier' \subseteq Walk!Dirs
          /\ walk_tries' \in [Walk!Dirs -> 0..walk_MaxAttempts]
          /\ UNCHANGED <<walk_busy, walk_result>>
      BY <2>1, <3>1, WalkFetched DEF roots, WalkTypes
    <3>. QED  BY <1>9, <2>2, <3>2 DEF Walk!Split, WalkTypes
  <2>. QED  BY <2>3, <2>4
<1>10. CASE Walk!Descend
  <2>. HIDE DEF WalkTypes
  <2>1. Walk!Entries \cap Walk!Dirs \subseteq Walk!Dirs
    BY DEF Walk!Truncated, WalkTypes
  <2>2. walk_collected' = walk_collected \cup Walk!Entries /\ walk_known' = {}
        /\ Walk!Entries \subseteq walk_tree
    BY <1>10 DEF Walk!Descend, WalkTypes
  <2>. DEFINE roots == Walk!Entries \cap Walk!Dirs
  <2>3. CASE roots = {} \/ walk_spent
    BY <1>10, <2>2, <2>3 DEF Walk!Descend, Walk!Finish, Walk!Over, WalkTypes
  <2>4. CASE ~(roots = {} \/ walk_spent)
    <3>1. Walk!Fetch(roots, "level") /\ walk_frontier' \in {walk_frontier, roots}
      BY <1>10, <2>4 DEF Walk!Descend
    <3>. HIDE DEF roots
    <3>2. /\ walk_pc' = "level" /\ walk_queue' \subseteq Walk!Dirs
          /\ walk_requests' \in 0..walk_MaxRequests /\ walk_frontier' \subseteq Walk!Dirs
          /\ walk_tries' \in [Walk!Dirs -> 0..walk_MaxAttempts]
          /\ UNCHANGED <<walk_busy, walk_result>>
      BY <2>1, <3>1, WalkFetched DEF roots, WalkTypes
    <3>. QED  BY <1>10, <2>2, <3>2 DEF Walk!Descend, WalkTypes
  <2>. QED  BY <2>3, <2>4
<1>11. CASE Walk!Rest
  BY <1>11 DEF Walk!Rest, Walk!vars
<1>. QED  BY <1>1, <1>2, <1>3, <1>4, <1>5, <1>6, <1>7, <1>8, <1>9, <1>10, <1>11 DEF Walk!Next

LEMMA WalkFirstKept ==
  ASSUME WalkInv, Walk!Next
  PROVE  WalkFirst'
<1>. USE WalkDirs DEF WalkInv, WalkTypes, WalkPhase, WalkFirst, WalkAsked, Walk!walk, Walk!pool
<1>1. ASSUME NEW kd \in {"model", "flat", "dataset"}, Walk!Begin(kd) PROVE WalkFirst'
  BY <1>1 DEF Walk!Begin
<1>2. ASSUME NEW d \in Walk!Dirs, Walk!Take(d) PROVE WalkFirst'
  BY <1>2 DEF Walk!Take
<1>3. ASSUME NEW d \in Walk!Dirs, Walk!Denied(d) PROVE WalkFirst'
  BY <1>3 DEF Walk!Denied, Walk!Over
<1>4. ASSUME NEW d \in Walk!Dirs, Walk!Fails(d) PROVE WalkFirst'
  BY <1>4 DEF Walk!Fails, Walk!Over
<1>5. ASSUME NEW d \in Walk!Dirs, Walk!Answer(d) PROVE WalkFirst'
  <2>1. PICK s \in SUBSET walk_tree :
          Walk!Answered(d, s) /\ WalkListed([r |-> d, entries |-> s])
    BY <1>5, WalkAnswers
  <2>. QED  BY <2>1 DEF Walk!Answered
<1>6. CASE Walk!Paged
  BY <1>6 DEF Walk!Paged, Walk!Over, Walk!Settled
<1>7. CASE Walk!Whole
  BY <1>7 DEF Walk!Whole, Walk!Over, Walk!Settled
<1>8. CASE Walk!Walk
  BY <1>8 DEF Walk!Walk, Walk!Settled
<1>9. CASE Walk!Split
  BY <1>9 DEF Walk!Split, Walk!Settled, Walk!Finish, Walk!Fetch, Walk!Over
<1>10. CASE Walk!Descend
  BY <1>10 DEF Walk!Descend, Walk!Settled, Walk!Finish, Walk!Fetch, Walk!Over
<1>11. CASE Walk!Rest
  BY <1>11 DEF Walk!Rest, Walk!vars
<1>. QED  BY <1>1, <1>2, <1>3, <1>4, <1>5, <1>6, <1>7, <1>8, <1>9, <1>10, <1>11 DEF Walk!Next

LEMMA WalkListingsKept ==
  ASSUME WalkInv, Walk!Next
  PROVE  WalkListings'
<1>. USE WalkBounds, WalkCard DEF WalkInv, WalkTypes, WalkPhase, WalkListings, WalkListed,
   WalkAll, Walk!Below, Walk!Children, Walk!Truncated, Walk!walk, Walk!pool
<1>1. ASSUME NEW kd \in {"model", "flat", "dataset"}, Walk!Begin(kd) PROVE WalkListings'
  BY <1>1 DEF Walk!Begin
<1>2. ASSUME NEW d \in Walk!Dirs, Walk!Take(d) PROVE WalkListings'
  BY <1>2 DEF Walk!Take
<1>3. ASSUME NEW d \in Walk!Dirs, Walk!Denied(d) PROVE WalkListings'
  BY <1>3 DEF Walk!Denied, Walk!Over
<1>4. ASSUME NEW d \in Walk!Dirs, Walk!Fails(d) PROVE WalkListings'
  BY <1>4 DEF Walk!Fails, Walk!Over
<1>5. ASSUME NEW d \in Walk!Dirs, Walk!Answer(d) PROVE WalkListings'
  <2>. HIDE DEF WalkInv, WalkListings, WalkListed, WalkAll, Walk!Below, Walk!Children, Walk!Truncated
  <2>1. PICK s \in SUBSET walk_tree :
          Walk!Answered(d, s) /\ WalkListed([r |-> d, entries |-> s])
    BY <1>5, WalkAnswers
  <2>2. walk_known' = walk_known \cup {[r |-> d, entries |-> s]}
        /\ UNCHANGED <<walk_tree, walk_pc, walk_kind, walk_collected>>
    BY <2>1 DEF Walk!Answered
  <2>3. walk_pc # "idle" => \A k \in walk_known' : WalkListed(k)
    BY <2>1, <2>2 DEF WalkInv, WalkListings
  <2>4. \A k : WalkListed(k) => WalkListed(k)'
    BY <2>2 DEF WalkListed, WalkAll, Walk!Below, Walk!Children, Walk!Truncated
  <2>. QED  BY <2>2, <2>3, <2>4 DEF WalkListings
<1>6. CASE Walk!Paged
  BY <1>6 DEF Walk!Paged, Walk!Over, Walk!Settled
<1>7. CASE Walk!Whole
  BY <1>7 DEF Walk!Whole, Walk!Over, Walk!Settled
<1>8. CASE Walk!Walk
  BY <1>8 DEF Walk!Walk, Walk!Settled
<1>9. CASE Walk!Split
  BY <1>9 DEF Walk!Split, Walk!Settled, Walk!Finish, Walk!Fetch, Walk!Over
<1>10. CASE Walk!Descend
  BY <1>10 DEF Walk!Descend, Walk!Settled, Walk!Finish, Walk!Fetch, Walk!Over
<1>11. CASE Walk!Rest
  BY <1>11 DEF Walk!Rest, Walk!vars
<1>. QED  BY <1>1, <1>2, <1>3, <1>4, <1>5, <1>6, <1>7, <1>8, <1>9, <1>10, <1>11 DEF Walk!Next

\* What a level has not shown is below what was cut off of it; and of what its directories alone
\* have not shown, below the directories in them.
LEMMA WalkSplit ==
  ASSUME WalkInv, Walk!Split, ~walk_spent, walk_oversized = {},
         NEW n \in walk_tree, n \notin walk_collected \cup Walk!Entries
  PROVE  \E r \in {k.r : k \in {k \in walk_known : Walk!Truncated(k.entries)}} : n \in Walk!Below(r)
<1>1. walk_pc = "level" /\ walk_kind # "dataset" /\ walk_queue = {} /\ walk_busy = {}
  BY DEF Walk!Split, Walk!Settled, WalkInv, WalkPhase
<1>2. PICK k \in walk_known : n \in Walk!Below(k.r)
  BY <1>1 DEF WalkInv, WalkCover, WalkAsked
<1>3. n \notin k.entries
  BY <1>2 DEF Walk!Entries
<1>4. Walk!Truncated(k.entries)
  BY <1>1, <1>2, <1>3 DEF WalkInv, WalkListings, WalkListed, WalkAll
<1>. QED  BY <1>2, <1>4

LEMMA WalkDescend ==
  ASSUME WalkInv, Walk!Descend, ~walk_spent, walk_oversized' = {},
         NEW n \in walk_tree, n \notin walk_collected \cup Walk!Entries
  PROVE  \E d \in Walk!Entries \cap Walk!Dirs : n \in Walk!Below(d)
<1>1. walk_pc = "shallow" /\ walk_kind # "dataset" /\ walk_queue = {} /\ walk_busy = {}
  BY DEF Walk!Descend, Walk!Settled, WalkInv, WalkPhase
<1>2. walk_oversized = {} /\ \A k \in walk_known : ~Walk!Truncated(k.entries)
  BY DEF Walk!Descend
<1>3. PICK k \in walk_known : n \in Walk!Below(k.r)
  BY <1>1, <1>2 DEF WalkInv, WalkCover, WalkAsked
<1>4. k.entries = Walk!Children(k.r) /\ k.entries \subseteq Walk!Entries
  BY <1>1, <1>2, <1>3 DEF WalkInv, WalkListings, WalkListed, WalkAll, Walk!Entries
<1>5. PICK d \in Walk!Children(k.r) \cap Walk!Dirs : n \in Walk!Below(d)
  BY <1>3, <1>4, WalkBelow DEF WalkInv
<1>. QED  BY <1>4, <1>5

\* The pages are no more than the entries.
LEMMA WalkPagesKept ==
  ASSUME WalkInv, Walk!Next
  PROVE  WalkPages'
<1>. USE WalkBounds DEF WalkInv, WalkPages, WalkPhase, Walk!walk, Walk!pool
<1>1. ASSUME NEW kd \in {"model", "flat", "dataset"}, Walk!Begin(kd) PROVE WalkPages'
  <2>1. Cardinality({}) = 0 /\ Cardinality(walk_Nodes) \in Nat
    BY FS_EmptySet, FS_CardinalityType
  <2>. QED  BY <1>1, <2>1 DEF Walk!Begin
<1>2. ASSUME NEW d \in Walk!Dirs, Walk!Take(d) PROVE WalkPages'
  BY <1>2 DEF Walk!Take
<1>3. ASSUME NEW d \in Walk!Dirs, Walk!Denied(d) PROVE WalkPages'
  BY <1>3 DEF Walk!Denied, Walk!Over
<1>4. ASSUME NEW d \in Walk!Dirs, Walk!Fails(d) PROVE WalkPages'
  BY <1>4 DEF Walk!Fails, Walk!Over
<1>5. ASSUME NEW d \in Walk!Dirs, Walk!Answer(d) PROVE WalkPages'
  BY <1>5 DEF Walk!Answer, Walk!Answered
<1>6. CASE Walk!Paged
  <2>. DEFINE e == Walk!Entries
              c == walk_collected
  <2>1. /\ walk_pc = "first" /\ walk_kind = "dataset" /\ walk_collected' = c \cup e
        /\ \/ walk_pc' = "idle" /\ UNCHANGED walk_page
           \/ ~(Cardinality(e) < walk_PageSize) /\ walk_page' = walk_page + 1
    BY <1>6, WalkCard DEF Walk!Paged, Walk!Settled, Walk!Over
  <2>2. c \subseteq walk_Nodes /\ e \subseteq walk_Nodes /\ c \cap e = {}
    BY <2>1 DEF WalkTypes, WalkListings, WalkListed, Walk!Entries
  <2>. HIDE DEF c, e
  <2>3. /\ IsFiniteSet(c) /\ IsFiniteSet(e) /\ IsFiniteSet(c \cup e)
        /\ Cardinality(c \cup e) <= Cardinality(walk_Nodes)
    BY <2>2, FS_Subset
  <2>4. /\ Cardinality(c) \in Nat /\ Cardinality(e) \in Nat /\ Cardinality(c \cup e) \in Nat
        /\ Cardinality(walk_Nodes) \in Nat
    BY <2>3, FS_CardinalityType
  <2>5. Cardinality(c \cup e) = Cardinality(c) + Cardinality(e)
    <3>1. Cardinality(c \cup e) = Cardinality(c) + Cardinality(e) - Cardinality(c \cap e)
      BY <2>3, FS_Union
    <3>2. Cardinality(c \cap e) = 0
      BY <2>2, FS_EmptySet
    <3>. QED  BY <2>4, <3>1, <3>2
  <2>6. walk_kind' = walk_kind
    BY <1>6 DEF Walk!Paged
  <2>. QED  BY <2>1, <2>3, <2>4, <2>5, <2>6 DEF c
<1>7. CASE Walk!Whole
  BY <1>7 DEF Walk!Whole, Walk!Over, Walk!Settled
<1>8. CASE Walk!Walk
  BY <1>8 DEF Walk!Walk, Walk!Settled
<1>9. CASE Walk!Split
  BY <1>9 DEF Walk!Split, Walk!Settled, Walk!Finish, Walk!Fetch, Walk!Over
<1>10. CASE Walk!Descend
  BY <1>10 DEF Walk!Descend, Walk!Settled, Walk!Finish, Walk!Fetch, Walk!Over
<1>11. CASE Walk!Rest
  BY <1>11 DEF Walk!Rest, Walk!vars
<1>. QED  BY <1>1, <1>2, <1>3, <1>4, <1>5, <1>6, <1>7, <1>8, <1>9, <1>10, <1>11 DEF Walk!Next

\* No step loses what has not been seen ...
LEMMA WalkCoverKept ==
  ASSUME WalkInv, Walk!Next
  PROVE  WalkCover'
<1>. USE DEF WalkInv, WalkPhase, WalkCover, WalkAsked, Walk!walk, Walk!pool
<1>1. ASSUME NEW kd \in {"model", "flat", "dataset"}, Walk!Begin(kd) PROVE WalkCover'
  BY <1>1 DEF Walk!Begin
<1>2. ASSUME NEW d \in Walk!Dirs, Walk!Take(d) PROVE WalkCover'
  BY <1>2 DEF Walk!Take, Walk!Below
<1>3. ASSUME NEW d \in Walk!Dirs, Walk!Denied(d) PROVE WalkCover'
  BY <1>3 DEF Walk!Denied, Walk!Over, Walk!Below
<1>4. ASSUME NEW d \in Walk!Dirs, Walk!Fails(d) PROVE WalkCover'
  BY <1>4 DEF Walk!Fails, Walk!Over, Walk!Below
<1>5. ASSUME NEW d \in Walk!Dirs, Walk!Answer(d) PROVE WalkCover'
  <2>1. PICK s \in SUBSET walk_tree :
          Walk!Answered(d, s) /\ WalkListed([r |-> d, entries |-> s])
    BY <1>5, WalkAnswers
  <2>2. {k.r : k \in walk_known'} = {k.r : k \in walk_known} \cup {d}
    BY <2>1 DEF Walk!Answered
  <2>. QED  BY <2>1, <2>2 DEF Walk!Answered, Walk!Below
<1>6. CASE Walk!Paged
  BY <1>6 DEF Walk!Paged, Walk!Over, Walk!Settled
<1>7. CASE Walk!Whole
  BY <1>7 DEF Walk!Whole, Walk!Over, Walk!Settled
<1>8. CASE Walk!Walk
  <2>1. walk_tree = Walk!Below(walk_Root) /\ walk_Root \in WalkAsked
    BY <1>8, WalkRooted DEF WalkTypes, WalkFirst, Walk!Walk, Walk!Settled
  <2>2. UNCHANGED <<walk_tree, walk_queue, walk_busy, walk_known>>
    BY <1>8 DEF Walk!Walk
  <2>. QED  BY <2>1, <2>2 DEF Walk!Below
<1>9. CASE Walk!Split
  <2>. DEFINE roots == {k.r : k \in {k \in walk_known : Walk!Truncated(k.entries)}}
  <2>1. CASE roots = {} \/ walk_spent
    BY <1>9, <2>1 DEF Walk!Split, Walk!Finish, Walk!Over
  <2>2. CASE ~(roots = {} \/ walk_spent)
    <3>1. Walk!Fetch(roots, "shallow") /\ roots \subseteq Walk!Dirs
      BY <1>9, <2>2 DEF Walk!Split, WalkTypes
    <3>. HIDE DEF roots
    <3>2. /\ walk_busy' = walk_busy
          /\ ~walk_spent' => ~walk_spent /\ walk_queue' = roots
      BY <3>1, WalkFetched
    <3>3. /\ walk_known' = {} /\ UNCHANGED walk_tree
          /\ walk_collected' = walk_collected \cup Walk!Entries
      BY <1>9 DEF Walk!Split
    <3>4. ASSUME ~walk_spent, walk_oversized' = {}, NEW n \in walk_tree,
                 n \notin walk_collected \cup Walk!Entries
          PROVE  \E r \in roots : n \in Walk!Below(r)
      <4>. HIDE DEF WalkInv
      <4>1. walk_oversized = {}
        BY <1>9, <3>4 DEF Walk!Split
      <4>. QED  BY <1>9, <3>4, <4>1, WalkSplit DEF roots
    <3>5. ASSUME ~walk_spent', walk_oversized' = {}
          PROVE  \A n \in walk_tree' \ walk_collected' :
                   \E r \in walk_queue' : n \in Walk!Below(r)'
      BY <3>2, <3>3, <3>4, <3>5 DEF Walk!Below
    <3>. QED  BY <3>5
  <2>. QED  BY <2>1, <2>2
<1>10. CASE Walk!Descend
  <2>. DEFINE roots == Walk!Entries \cap Walk!Dirs
  <2>1. CASE roots = {} \/ walk_spent
    BY <1>10, <2>1 DEF Walk!Descend, Walk!Finish, Walk!Over
  <2>2. CASE ~(roots = {} \/ walk_spent)
    <3>1. Walk!Fetch(roots, "level") /\ roots \subseteq Walk!Dirs
      BY <1>10, <2>2 DEF Walk!Descend, WalkTypes
    <3>. HIDE DEF roots
    <3>2. /\ walk_busy' = walk_busy
          /\ ~walk_spent' => ~walk_spent /\ walk_queue' = roots
      BY <3>1, WalkFetched
    <3>3. /\ walk_known' = {} /\ UNCHANGED walk_tree
          /\ walk_collected' = walk_collected \cup Walk!Entries
      BY <1>10 DEF Walk!Descend
    <3>4. ASSUME ~walk_spent, walk_oversized' = {}, NEW n \in walk_tree,
                 n \notin walk_collected \cup Walk!Entries
          PROVE  \E r \in roots : n \in Walk!Below(r)
      <4>. HIDE DEF WalkInv
      <4>1. walk_oversized = {}
        BY <1>10, <3>4 DEF Walk!Descend
      <4>. QED  BY <1>10, <3>4, <4>1, WalkDescend DEF roots
    <3>5. ASSUME ~walk_spent', walk_oversized' = {}
          PROVE  \A n \in walk_tree' \ walk_collected' :
                   \E r \in walk_queue' : n \in Walk!Below(r)'
      BY <3>2, <3>3, <3>4, <3>5 DEF Walk!Below
    <3>. QED  BY <3>5
  <2>. QED  BY <2>1, <2>2
<1>11. CASE Walk!Rest
  BY <1>11 DEF Walk!Rest, Walk!vars, Walk!Below
<1>. QED  BY <1>1, <1>2, <1>3, <1>4, <1>5, <1>6, <1>7, <1>8, <1>9, <1>10, <1>11 DEF Walk!Next

\* ... and no call ends well without all of it.
LEMMA WalkCompleteKept ==
  ASSUME WalkInv, Walk!Next
  PROVE  Walk!CompleteOrSaid'
<1>. USE DEF WalkInv, WalkPhase, Walk!CompleteOrSaid, Walk!Children, Walk!walk, Walk!pool
<1>1. ASSUME NEW kd \in {"model", "flat", "dataset"}, Walk!Begin(kd) PROVE Walk!CompleteOrSaid'
  BY <1>1 DEF Walk!Begin
<1>2. ASSUME NEW d \in Walk!Dirs, Walk!Take(d) PROVE Walk!CompleteOrSaid'
  BY <1>2 DEF Walk!Take
<1>3. ASSUME NEW d \in Walk!Dirs, Walk!Denied(d) PROVE Walk!CompleteOrSaid'
  BY <1>3 DEF Walk!Denied, Walk!Over
<1>4. ASSUME NEW d \in Walk!Dirs, Walk!Fails(d) PROVE Walk!CompleteOrSaid'
  BY <1>4 DEF Walk!Fails, Walk!Over
<1>5. ASSUME NEW d \in Walk!Dirs, Walk!Answer(d) PROVE Walk!CompleteOrSaid'
  BY <1>5 DEF Walk!Answer, Walk!Answered
<1>6. CASE Walk!Paged
  <2>1. /\ walk_pc = "first" /\ walk_kind = "dataset" /\ walk_queue = {} /\ walk_busy = {}
        /\ walk_collected' = walk_collected \cup Walk!Entries /\ UNCHANGED <<walk_tree, walk_kind>>
        /\ \/ walk_result' = "ok" /\ Cardinality(Walk!Entries) < walk_PageSize
           \/ walk_result' = walk_result
    BY <1>6, WalkCard DEF Walk!Paged, Walk!Settled, Walk!Over
  <2>2. CASE walk_result' = "ok" /\ Cardinality(Walk!Entries) < walk_PageSize
    <3>1. PICK k \in walk_known : TRUE
      BY <2>1 DEF WalkFirst, WalkAsked
    <3>2. /\ k.entries \subseteq Walk!Entries /\ Walk!Entries \subseteq walk_Nodes
          /\ Walk!Entries \subseteq walk_tree /\ walk_collected \subseteq walk_tree
      BY DEF Walk!Entries, WalkTypes
    <3>3. /\ IsFiniteSet(Walk!Entries) /\ IsFiniteSet(k.entries)
          /\ Cardinality(k.entries) <= Cardinality(Walk!Entries)
      BY <3>2, WalkBounds, FS_Subset
    <3>4. ~(Cardinality(k.entries) >= walk_PageSize)
      BY <2>2, <3>3, WalkBounds, FS_CardinalityType
    <3>5. k.entries = walk_tree \ walk_collected
      BY <2>1, <3>4 DEF WalkListings, WalkListed
    <3>. QED  BY <2>1, <3>2, <3>5
  <2>3. CASE walk_result' = walk_result
    BY <2>1, <2>3
  <2>. QED  BY <2>1, <2>2, <2>3
<1>7. CASE Walk!Whole
  <2>1. /\ walk_pc = "first" /\ walk_kind \in {"flat", "model"}
        /\ walk_queue = {} /\ walk_busy = {} /\ walk_collected' = Walk!Entries
        /\ UNCHANGED <<walk_tree, walk_kind>>
        /\ walk_result' = "ok" => ~Walk!Truncated(Walk!Entries)
    BY <1>7 DEF Walk!Whole, Walk!Settled, Walk!Over
  <2>2. ASSUME walk_result' = "ok" PROVE Walk!Entries = WalkAll(walk_Root)
    <3>1. PICK k \in walk_known : k.r = walk_Root
      BY <2>1 DEF WalkFirst, WalkAsked
    <3>2. \A l \in walk_known : l.r = walk_Root
      BY <2>1 DEF WalkFirst, WalkAsked
    <3>3. k.entries \subseteq Walk!Entries /\ Walk!Entries \subseteq walk_Nodes
      BY DEF Walk!Entries, WalkTypes
    <3>4. ~Walk!Truncated(k.entries)
      BY <2>1, <2>2, <3>3, WalkShorter
    <3>5. k.entries = WalkAll(walk_Root)
      BY <2>1, <3>1, <3>4 DEF WalkListings, WalkListed
    <3>6. \A l \in walk_known : l.entries \subseteq WalkAll(walk_Root)
      BY <2>1, <3>2 DEF WalkListings, WalkListed
    <3>. QED  BY <3>3, <3>5, <3>6 DEF Walk!Entries
  <2>3. walk_tree = Walk!Below(walk_Root)
    BY WalkRooted DEF WalkTypes
  <2>. QED  BY <2>1, <2>2, <2>3 DEF WalkAll
<1>8. CASE Walk!Walk
  BY <1>8 DEF Walk!Walk, Walk!Settled
<1>9. CASE Walk!Split
  <2>. DEFINE roots == {k.r : k \in {k \in walk_known : Walk!Truncated(k.entries)}}
  <2>1. CASE roots = {} \/ walk_spent
    <3>1. ASSUME walk_result' = "ok" PROVE roots = {} /\ ~walk_spent /\ walk_oversized' = {}
      BY <1>9, <2>1, <3>1 DEF Walk!Split, Walk!Finish, Walk!Over
    <3>2. ASSUME walk_result' = "ok", NEW n \in walk_tree
          PROVE  n \in walk_collected \cup Walk!Entries
      <4>. HIDE DEF WalkInv
      <4>1. walk_oversized = {}
        BY <1>9, <3>1, <3>2 DEF Walk!Split
      <4>2. roots = {} /\ ~walk_spent /\ walk_oversized' = {}
        BY <3>1, <3>2
      <4>. QED  BY <1>9, <4>1, <4>2, WalkSplit
    <3>3. /\ walk_collected' = walk_collected \cup Walk!Entries /\ UNCHANGED <<walk_tree, walk_kind>>
          /\ walk_collected \cup Walk!Entries \subseteq walk_tree /\ walk_kind = "model"
      BY <1>9 DEF Walk!Split, Walk!Settled, Walk!Entries, WalkTypes
    <3>4. ASSUME walk_result' = "ok" PROVE walk_collected' = walk_tree
      BY <3>2, <3>3, <3>4
    <3>. QED  BY <3>3, <3>4
  <2>2. CASE ~(roots = {} \/ walk_spent)
    <3>1. Walk!Fetch(roots, "shallow")
      BY <1>9, <2>2 DEF Walk!Split
    <3>2. walk_result' = walk_result /\ walk_pc # "idle"
      BY <1>9, <3>1 DEF Walk!Fetch, Walk!Split, Walk!Settled
    <3>. QED  BY <3>2
  <2>. QED  BY <2>1, <2>2
<1>10. CASE Walk!Descend
  <2>. DEFINE roots == Walk!Entries \cap Walk!Dirs
  <2>1. CASE roots = {} \/ walk_spent
    <3>1. ASSUME walk_result' = "ok" PROVE roots = {} /\ ~walk_spent /\ walk_oversized' = {}
      BY <1>10, <2>1, <3>1 DEF Walk!Descend, Walk!Finish, Walk!Over
    <3>2. ASSUME walk_result' = "ok", NEW n \in walk_tree
          PROVE  n \in walk_collected \cup Walk!Entries
      <4>. HIDE DEF WalkInv
      <4>1. walk_oversized = {}
        BY <1>10, <3>1, <3>2 DEF Walk!Descend
      <4>2. roots = {} /\ ~walk_spent /\ walk_oversized' = {}
        BY <3>1, <3>2
      <4>. QED  BY <1>10, <4>1, <4>2, WalkDescend
    <3>3. /\ walk_collected' = walk_collected \cup Walk!Entries /\ UNCHANGED <<walk_tree, walk_kind>>
          /\ walk_collected \cup Walk!Entries \subseteq walk_tree /\ walk_kind = "model"
      BY <1>10 DEF Walk!Descend, Walk!Settled, Walk!Entries, WalkTypes
    <3>4. ASSUME walk_result' = "ok" PROVE walk_collected' = walk_tree
      BY <3>2, <3>3, <3>4
    <3>. QED  BY <3>3, <3>4
  <2>2. CASE ~(roots = {} \/ walk_spent)
    <3>1. Walk!Fetch(roots, "level")
      BY <1>10, <2>2 DEF Walk!Descend
    <3>2. walk_result' = walk_result /\ walk_pc # "idle"
      BY <1>10, <3>1 DEF Walk!Fetch, Walk!Descend, Walk!Settled
    <3>. QED  BY <3>2
  <2>. QED  BY <2>1, <2>2
<1>11. CASE Walk!Rest
  BY <1>11 DEF Walk!Rest, Walk!vars
<1>. QED  BY <1>1, <1>2, <1>3, <1>4, <1>5, <1>6, <1>7, <1>8, <1>9, <1>10, <1>11 DEF Walk!Next

\* For any tree, limit, budget and number of workers, attempts and calls: what a listing has not
\* seen, and what it says of that.
THEOREM WalkHolds == Walk!Spec => []WalkInv
<1>1. WalkInv /\ [Walk!Next]_Walk!vars => WalkInv'
  <2>. SUFFICES ASSUME WalkInv, [Walk!Next]_Walk!vars PROVE WalkInv'
    OBVIOUS
  <2>1. CASE Walk!Next
    BY <2>1, WalkTypesKept, WalkFlagsKept, WalkTrustedKept, WalkPagesKept, WalkPhaseKept,
       WalkFirstKept, WalkListingsKept, WalkCoverKept, WalkHonestKept, WalkCompleteKept
       DEF WalkInv
  <2>2. CASE UNCHANGED Walk!vars
    BY <2>2 DEF Walk!vars, Walk!walk, Walk!pool, WalkInv, WalkTypes, WalkFlags, WalkTrusted,
       WalkPages, WalkPhase, WalkAsked, WalkFirst, WalkAll, WalkListed, WalkListings, WalkCover,
       WalkHonest, Walk!HonestDenial, Walk!CompleteOrSaid, Walk!Children, Walk!Below
  <2>. QED  BY <2>1, <2>2
<1>. QED  BY <1>1, WalkInit, PTL DEF Walk!Spec

LEMMA WalkGives == WalkInv => Walk!TypeOK /\ Walk!ListingHolds
<1>. SUFFICES ASSUME WalkInv PROVE Walk!TypeOK /\ Walk!ListingHolds
  OBVIOUS
<1>1. /\ WalkTypes /\ WalkFlags /\ WalkTrusted /\ WalkPages
      /\ Walk!HonestDenial /\ Walk!CompleteOrSaid
  BY DEF WalkInv, WalkHonest
<1>2. /\ walk_page \in 0..Walk!Cardinality(walk_Nodes) + 1
      /\ walk_known \subseteq [r : Walk!Dirs, entries : SUBSET walk_Nodes]
      /\ walk_collected \subseteq walk_Nodes
  BY <1>1, WalkCard DEF WalkTypes, WalkPages
<1>3. walk_proven \in BOOLEAN /\ walk_wasProven \in BOOLEAN /\ walk_spent \in BOOLEAN
  BY <1>1, Zenon DEF WalkFlags
<1>4. Walk!TypeOK
  BY <1>1, <1>2, <1>3, Zenon DEF WalkTypes, WalkTrusted, Walk!TypeOK
<1>. QED  BY <1>1, <1>4 DEF Walk!ListingHolds

\* Listings and controlled reads, for any tree and budget and any readers and deadlines: a listing
\* is whole or said not to be, a refusal is honest, what was cut is not taken for whole, and
\* nobody waits beyond its time.
THEOREM ReadsSafe == PartsSpec => []ReadsHold
<1>1. PartsInit => Walk!Init /\ Read!Init
  BY DEF PartsInit
<1>2. [PartsNext]_allVars => [Walk!Next]_Walk!vars /\ [Read!Next]_Read!vars
  BY DEF PartsNext, allVars, walkVars, readVars, Walk!vars, Walk!walk, Walk!pool, Read!vars
<1>3. WalkInv /\ ReadInv => ReadsHold
  BY WalkGives, ReadGives DEF ReadsHold
<1>. QED  BY <1>1, <1>2, <1>3, WalkHolds, ReadHolds, PTL DEF PartsSpec, Walk!Spec, Read!Spec

=============================================================================
