---------------------------- MODULE ClientParts ----------------------------
(***************************************************************************)
(* The parts of the client that share no state: CommitPacing and the other  *)
(* modules side by side.  A behaviour is one of a single part, while the    *)
(* others stay as they begin, so what is shown here holds of each part      *)
(* alone.  The constants and variables of a part bear its name.             *)
(***************************************************************************)
EXTENDS CommitPacing

CONSTANTS
  Files, BatchOf, NumBatches, Moved, Throttles,
  patch_Threads, patch_Submodules, patch_MaxCalls, patch_MaxDepth,
  revs_Versions, revs_MaxOps,
  plugin_Plugins, plugin_Trusted, plugin_Packages, plugin_Broken, plugin_MaxInstalls,
  cache_Files, cache_Hashed, cache_Revisions, cache_MaxWorkers, cache_OldCopies,
    cache_MaxCommits, cache_MaxCalls,
  creds_Procs, creds_Full, creds_Scoped, creds_Bad, creds_MaxLogins,
  reqs_MaxRetries, reqs_MaxCalls,
  repo_Types, repo_MaxCalls, repo_MaxOthers,
  walk_Nodes, walk_Parent, walk_Root, walk_Limit, walk_MaxRequests, walk_MaxWorkers,
    walk_MaxAttempts, walk_PageSize, walk_MaxCalls,
  read_Readers, read_Body, read_Deadline, read_HeaderLimit, read_Window, read_MaxNow,
    read_MaxReads,
  lock_Procs, lock_Stale, lock_Limits, lock_MaxHold, lock_MaxNow, lock_MaxCrashes,
  aigc_Callers, aigc_Tags, aigc_Weights, aigc_Readmes, aigc_MaxCalls,
  data_Sites, data_Home, data_MaxCalls, data_MaxIds,
  plan_MaxFiles, plan_Weights, plan_Envelope, plan_Budgets, plan_Settings, plan_Ceiling,
  change_Contents, change_SizeOf, change_Thresholds, change_Verifies, change_MaxWrites,
    change_MaxRuns, change_MaxAttempts, change_MaxRounds

VARIABLES
  part,
  holding, job, held, recorded, bytes, files, reported, main, batch, flush, events,
  patch_loaded, patch_api, patch_origin, patch_pc, patch_scopes, patch_saw, patch_explicit,
  patch_calls, patch_astray,
  revs_refs, revs_synthetic, revs_cached, revs_lock, revs_pinned, revs_asked, revs_got,
  revs_ops,
  plugin_hub, plugin_disk, plugin_modules, plugin_paths, plugin_own, plugin_pc,
  plugin_plugin, plugin_inserted, plugin_verified, plugin_logged, plugin_ran,
  plugin_result, plugin_outcome, plugin_installs,
  cache_remote, cache_tree, cache_pc, cache_rev, cache_dest, cache_want, cache_queue,
  cache_pending, cache_active, cache_completed, cache_failures, cache_outcome, cache_place,
  cache_calls,
  creds_cookies, creds_git, creds_token, creds_out, creds_over, creds_client, creds_pc,
  creds_new, creds_before, creds_sent, creds_jar, creds_again, creds_logins,
  reqs_token, reqs_public, reqs_serves, reqs_exists, reqs_stored, reqs_gets, reqs_call,
  reqs_verb, reqs_attempt, reqs_anon, reqs_read, reqs_times, reqs_answer, reqs_calls,
  repo_type, repo_site, repo_holds, repo_publishes, repo_where, repo_pc, repo_goal,
  repo_req, repo_auto, repo_made, repo_result, repo_found, repo_calls, repo_others,
  walk_tree, walk_proven, walk_pc, walk_kind, walk_frontier, walk_queue, walk_busy,
  walk_tries, walk_trusted, walk_known, walk_collected, walk_oversized, walk_spent,
  walk_requests, walk_page, walk_wasProven, walk_result, walk_calls,
  read_now, read_seen, read_cancelled, read_stopped, read_aborted, read_pc, read_state,
  read_cut, read_got, read_outcome, read_reads,
  lock_now, lock_limit, lock_made, lock_pc, lock_soft, lock_since, lock_base, lock_tried,
  lock_behind, lock_outstayed, lock_crashes,
  aigc_exists, aigc_blobs, aigc_master, aigc_tags, aigc_late, aigc_pc, aigc_call,
  aigc_polls, aigc_result, aigc_calls,
  data_id, data_named, data_cache, data_local, data_pc, data_asked, data_token,
  data_number, data_did, data_calls,
  plan_pc, plan_weights, plan_cap, plan_budget, plan_index, plan_bytes, plan_ends,
  plan_deleted, plan_gone,
  change_made, change_holds, change_writes, change_entries, change_saved, change_stored,
  change_tree, change_pc, change_kind, change_limit, change_size, change_begun, change_st,
  change_key, change_info, change_pre, change_ahead, change_attempt, change_round,
  change_recovered, change_calm, change_runs, change_outcome, change_afterward

wireVars == <<holding, job, held, recorded, bytes, files, reported, main, batch, flush,
    events>>
patchVars == <<patch_loaded, patch_api, patch_origin, patch_pc, patch_scopes, patch_saw,
    patch_explicit, patch_calls, patch_astray>>
revsVars == <<revs_refs, revs_synthetic, revs_cached, revs_lock, revs_pinned, revs_asked,
    revs_got, revs_ops>>
pluginVars == <<plugin_hub, plugin_disk, plugin_modules, plugin_paths, plugin_own,
    plugin_pc, plugin_plugin, plugin_inserted, plugin_verified, plugin_logged, plugin_ran,
    plugin_result, plugin_outcome, plugin_installs>>
cacheVars == <<cache_remote, cache_tree, cache_pc, cache_rev, cache_dest, cache_want,
    cache_queue, cache_pending, cache_active, cache_completed, cache_failures,
    cache_outcome, cache_place, cache_calls>>
credsVars == <<creds_cookies, creds_git, creds_token, creds_out, creds_over, creds_client,
    creds_pc, creds_new, creds_before, creds_sent, creds_jar, creds_again, creds_logins>>
reqsVars == <<reqs_token, reqs_public, reqs_serves, reqs_exists, reqs_stored, reqs_gets,
    reqs_call, reqs_verb, reqs_attempt, reqs_anon, reqs_read, reqs_times, reqs_answer,
    reqs_calls>>
repoVars == <<repo_type, repo_site, repo_holds, repo_publishes, repo_where, repo_pc,
    repo_goal, repo_req, repo_auto, repo_made, repo_result, repo_found, repo_calls,
    repo_others>>
walkVars == <<walk_tree, walk_proven, walk_pc, walk_kind, walk_frontier, walk_queue,
    walk_busy, walk_tries, walk_trusted, walk_known, walk_collected, walk_oversized,
    walk_spent, walk_requests, walk_page, walk_wasProven, walk_result, walk_calls>>
readVars == <<read_now, read_seen, read_cancelled, read_stopped, read_aborted, read_pc,
    read_state, read_cut, read_got, read_outcome, read_reads>>
lockVars == <<lock_now, lock_limit, lock_made, lock_pc, lock_soft, lock_since, lock_base,
    lock_tried, lock_behind, lock_outstayed, lock_crashes>>
aigcVars == <<aigc_exists, aigc_blobs, aigc_master, aigc_tags, aigc_late, aigc_pc,
    aigc_call, aigc_polls, aigc_result, aigc_calls>>
dataVars == <<data_id, data_named, data_cache, data_local, data_pc, data_asked, data_token,
    data_number, data_did, data_calls>>
planVars == <<plan_pc, plan_weights, plan_cap, plan_budget, plan_index, plan_bytes,
    plan_ends, plan_deleted, plan_gone>>
changeVars == <<change_made, change_holds, change_writes, change_entries, change_saved,
    change_stored, change_tree, change_pc, change_kind, change_limit, change_size,
    change_begun, change_st, change_key, change_info, change_pre, change_ahead,
    change_attempt, change_round, change_recovered, change_calm, change_runs,
    change_outcome, change_afterward>>

-----------------------------------------------------------------------------
Wire == INSTANCE WireProgress WITH throttled <- holding, pc <- main

Patch == INSTANCE KernelsPatch WITH
  Threads <- patch_Threads, Submodules <- patch_Submodules, MaxCalls <- patch_MaxCalls,
  MaxDepth <- patch_MaxDepth, loaded <- patch_loaded, api <- patch_api,
  origin <- patch_origin, pc <- patch_pc, scopes <- patch_scopes, saw <- patch_saw,
  explicit <- patch_explicit, calls <- patch_calls, astray <- patch_astray

Revs == INSTANCE KernelsRevisions WITH
  Versions <- revs_Versions, MaxOps <- revs_MaxOps, refs <- revs_refs,
  synthetic <- revs_synthetic, cached <- revs_cached, lock <- revs_lock,
  pinned <- revs_pinned, asked <- revs_asked, got <- revs_got, ops <- revs_ops

Plugin == INSTANCE AgentPlugin WITH
  Plugins <- plugin_Plugins, Trusted <- plugin_Trusted, Packages <- plugin_Packages,
  Broken <- plugin_Broken, MaxInstalls <- plugin_MaxInstalls, hub <- plugin_hub,
  disk <- plugin_disk, modules <- plugin_modules, paths <- plugin_paths, own <- plugin_own,
  pc <- plugin_pc, plugin <- plugin_plugin, inserted <- plugin_inserted,
  verified <- plugin_verified, logged <- plugin_logged, ran <- plugin_ran,
  result <- plugin_result, outcome <- plugin_outcome, installs <- plugin_installs

Cache == INSTANCE RepoCache WITH
  Files <- cache_Files, Hashed <- cache_Hashed, Revisions <- cache_Revisions,
  MaxWorkers <- cache_MaxWorkers, OldCopies <- cache_OldCopies,
  MaxCommits <- cache_MaxCommits, MaxCalls <- cache_MaxCalls, remote <- cache_remote,
  tree <- cache_tree, pc <- cache_pc, rev <- cache_rev, dest <- cache_dest,
  want <- cache_want, queue <- cache_queue, pending <- cache_pending,
  active <- cache_active, completed <- cache_completed, failures <- cache_failures,
  outcome <- cache_outcome, place <- cache_place, calls <- cache_calls

Creds == INSTANCE Credentials WITH
  Procs <- creds_Procs, Full <- creds_Full, Scoped <- creds_Scoped, Bad <- creds_Bad,
  MaxLogins <- creds_MaxLogins, cookies <- creds_cookies, git <- creds_git,
  token <- creds_token, out <- creds_out, over <- creds_over, client <- creds_client,
  pc <- creds_pc, new <- creds_new, before <- creds_before, sent <- creds_sent,
  jar <- creds_jar, again <- creds_again, logins <- creds_logins

Reqs == INSTANCE Requests WITH
  MaxRetries <- reqs_MaxRetries, MaxCalls <- reqs_MaxCalls, token <- reqs_token,
  public <- reqs_public, serves <- reqs_serves, exists <- reqs_exists,
  stored <- reqs_stored, gets <- reqs_gets, call <- reqs_call, verb <- reqs_verb,
  attempt <- reqs_attempt, anon <- reqs_anon, read <- reqs_read, times <- reqs_times,
  answer <- reqs_answer, calls <- reqs_calls

Repo == INSTANCE RepoCalls WITH
  Types <- repo_Types, MaxCalls <- repo_MaxCalls, MaxOthers <- repo_MaxOthers,
  type <- repo_type, site <- repo_site, holds <- repo_holds, publishes <- repo_publishes,
  where <- repo_where, pc <- repo_pc, goal <- repo_goal, req <- repo_req, auto <- repo_auto,
  made <- repo_made, result <- repo_result, found <- repo_found, calls <- repo_calls,
  others <- repo_others

Walk == INSTANCE RepoWalk WITH
  Nodes <- walk_Nodes, Parent <- walk_Parent, Root <- walk_Root, Limit <- walk_Limit,
  MaxRequests <- walk_MaxRequests, MaxWorkers <- walk_MaxWorkers,
  MaxAttempts <- walk_MaxAttempts, PageSize <- walk_PageSize, MaxCalls <- walk_MaxCalls,
  tree <- walk_tree, proven <- walk_proven, pc <- walk_pc, kind <- walk_kind,
  frontier <- walk_frontier, queue <- walk_queue, busy <- walk_busy, tries <- walk_tries,
  trusted <- walk_trusted, known <- walk_known, collected <- walk_collected,
  oversized <- walk_oversized, spent <- walk_spent, requests <- walk_requests,
  page <- walk_page, wasProven <- walk_wasProven, result <- walk_result, calls <- walk_calls

Read == INSTANCE ReadControl WITH
  Readers <- read_Readers, Body <- read_Body, Deadline <- read_Deadline,
  HeaderLimit <- read_HeaderLimit, Window <- read_Window, MaxNow <- read_MaxNow,
  MaxReads <- read_MaxReads, now <- read_now, seen <- read_seen,
  cancelled <- read_cancelled, stopped <- read_stopped, aborted <- read_aborted,
  pc <- read_pc, state <- read_state, cut <- read_cut, got <- read_got,
  outcome <- read_outcome, reads <- read_reads

Lock == INSTANCE SoftLock WITH
  Procs <- lock_Procs, Stale <- lock_Stale, Limits <- lock_Limits, MaxHold <- lock_MaxHold,
  MaxNow <- lock_MaxNow, MaxCrashes <- lock_MaxCrashes, now <- lock_now, limit <- lock_limit,
  made <- lock_made, pc <- lock_pc, soft <- lock_soft, since <- lock_since, base <- lock_base,
  tried <- lock_tried, behind <- lock_behind, outstayed <- lock_outstayed,
  crashes <- lock_crashes

Aigc == INSTANCE AigcVersion WITH
  Callers <- aigc_Callers, Tags <- aigc_Tags, Weights <- aigc_Weights,
  Readmes <- aigc_Readmes, MaxCalls <- aigc_MaxCalls, exists <- aigc_exists,
  blobs <- aigc_blobs, master <- aigc_master, tags <- aigc_tags, late <- aigc_late,
  pc <- aigc_pc, call <- aigc_call, polls <- aigc_polls, result <- aigc_result,
  calls <- aigc_calls

Data == INSTANCE DatasetCalls WITH
  Sites <- data_Sites, Home <- data_Home, MaxCalls <- data_MaxCalls, MaxIds <- data_MaxIds,
  id <- data_id, named <- data_named, cache <- data_cache, local <- data_local,
  pc <- data_pc, asked <- data_asked, token <- data_token, number <- data_number,
  did <- data_did, calls <- data_calls

Plan == INSTANCE CommitPlanner WITH
  MaxFiles <- plan_MaxFiles, Weights <- plan_Weights, Envelope <- plan_Envelope,
  Budgets <- plan_Budgets, Settings <- plan_Settings, Ceiling <- plan_Ceiling,
  pc <- plan_pc, weights <- plan_weights, cap <- plan_cap, budget <- plan_budget,
  index <- plan_index, bytes <- plan_bytes, ends <- plan_ends, deleted <- plan_deleted,
  gone <- plan_gone

Change == INSTANCE ChangingFile WITH
  Contents <- change_Contents, SizeOf <- change_SizeOf, Thresholds <- change_Thresholds,
  Verifies <- change_Verifies, MaxWrites <- change_MaxWrites, MaxRuns <- change_MaxRuns,
  MaxAttempts <- change_MaxAttempts, MaxRounds <- change_MaxRounds, made <- change_made,
  holds <- change_holds, writes <- change_writes, entries <- change_entries,
  saved <- change_saved, stored <- change_stored, tree <- change_tree, pc <- change_pc,
  kind <- change_kind, limit <- change_limit, size <- change_size, begun <- change_begun,
  st <- change_st, key <- change_key, info <- change_info, pre <- change_pre,
  ahead <- change_ahead, attempt <- change_attempt, round <- change_round,
  recovered <- change_recovered, calm <- change_calm, runs <- change_runs,
  outcome <- change_outcome, afterward <- change_afterward

ASSUME WireOK == Wire!ConstantsOK
ASSUME PatchOK == Patch!ConstantsOK
ASSUME RevsOK == Revs!ConstantsOK
ASSUME PluginOK == Plugin!ConstantsOK
ASSUME CacheOK == Cache!ConstantsOK
ASSUME CredsOK == Creds!ConstantsOK
ASSUME ReqsOK == Reqs!ConstantsOK
ASSUME RepoOK == Repo!ConstantsOK
ASSUME WalkOK == Walk!ConstantsOK
ASSUME ReadOK == Read!ConstantsOK
ASSUME LockOK == Lock!ConstantsOK
ASSUME AigcOK == Aigc!ConstantsOK
ASSUME DataOK == Data!ConstantsOK
ASSUME PlanOK == Plan!ConstantsOK
ASSUME ChangeOK == Change!ConstantsOK

-----------------------------------------------------------------------------
Parts == {"pacing", "wire", "patch", "revs", "plugin", "cache", "creds", "reqs", "repo", "walk",
          "read", "lock", "aigc", "data", "plan", "change"}

PartsInit ==
  /\ part \in Parts
  /\ Init /\ Wire!Init
  /\ Patch!Init /\ Revs!Init /\ Plugin!Init /\ Cache!Init /\ Creds!Init /\ Reqs!Init
  /\ Repo!Init /\ Walk!Init /\ Read!Init /\ Lock!Init /\ Aigc!Init /\ Data!Init
  /\ Plan!Init /\ Change!Init

PartsNext ==
  /\ UNCHANGED part
  /\ IF part = "pacing" THEN Next ELSE UNCHANGED vars
  /\ IF part = "wire" THEN Wire!Next ELSE UNCHANGED wireVars
  /\ IF part = "patch" THEN Patch!Next ELSE UNCHANGED patchVars
  /\ IF part = "revs" THEN Revs!Next ELSE UNCHANGED revsVars
  /\ IF part = "plugin" THEN Plugin!Next ELSE UNCHANGED pluginVars
  /\ IF part = "cache" THEN Cache!Next ELSE UNCHANGED cacheVars
  /\ IF part = "creds" THEN Creds!Next ELSE UNCHANGED credsVars
  /\ IF part = "reqs" THEN Reqs!Next ELSE UNCHANGED reqsVars
  /\ IF part = "repo" THEN Repo!Next ELSE UNCHANGED repoVars
  /\ IF part = "walk" THEN Walk!Next ELSE UNCHANGED walkVars
  /\ IF part = "read" THEN Read!Next ELSE UNCHANGED readVars
  /\ IF part = "lock" THEN Lock!Next ELSE UNCHANGED lockVars
  /\ IF part = "aigc" THEN Aigc!Next ELSE UNCHANGED aigcVars
  /\ IF part = "data" THEN Data!Next ELSE UNCHANGED dataVars
  /\ IF part = "plan" THEN Plan!Next ELSE UNCHANGED planVars
  /\ IF part = "change" THEN Change!Next ELSE UNCHANGED changeVars

allVars == <<part, vars, wireVars, patchVars, revsVars, pluginVars, cacheVars, credsVars,
    reqsVars, repoVars, walkVars, readVars, lockVars, aigcVars, dataVars, planVars,
    changeVars>>
PartsSpec == PartsInit /\ [][PartsNext]_allVars

-----------------------------------------------------------------------------
(* Properties.  Those of CommitPacing have their names there.                 *)

\* Each is asked of the part it is about, which the others wait for in their first state.

\* Progress events: no byte is announced twice by the workers and the committing thread, and
\* what they announce adds up to the total when nothing is held back.
EventsAddUp == part = "wire" => Wire!DeltasPartition /\ Wire!TotalAnnounced

\* Uploads: the commits of a call are within the limits and as few as can be, a deletion says
\* what it removed, and what is remembered of a file that changes is not taken for another's.
UploadsHold ==
  CASE part = "plan"   -> Plan!TypeOK /\ Plan!PlanIsBest /\ Plan!DeletedIsGone
    [] part = "change" -> Change!TypeOK /\ Change!ChangesHold
    [] OTHER           -> TRUE

\* Kernels and plugins: calls of the kernels library see the hub they were meant for, fetch
\* the revision they ask for, and an agent runs no plugin code that was not verified.
ExtensionsHold ==
  CASE part = "patch"  -> Patch!TypeOK /\ Patch!PatchIsScoped
    [] part = "revs"   -> Revs!TypeOK /\ Revs!FetchedIsAskedFor
    [] part = "plugin" -> Plugin!TypeOK /\ Plugin!OnlyVerifiedRuns
    [] OTHER           -> TRUE

\* Cached repositories and their locks: a snapshot that is returned is whole, what was
\* cleared is not offered again; with the default limits a lock has one holder, and with
\* longer ones the file of a dead process keeps nobody out for good.
CacheHolds ==
  CASE part = "cache" -> Cache!TypeOK /\ Cache!SnapshotIsWhole /\ Cache!ClearedIsUnreported
    [] part = "lock"  -> Lock!TypeOK /\ Lock!SoftLockHolds
    [] OTHER          -> TRUE

\* Credentials: the clients of a process that is logged out send none, and its cookie jar
\* none that the logout removed; one told to use none sends none; a rejected token is
\* forgotten.
LoginHolds ==
  part = "creds" =>
    /\ Creds!TypeOK /\ Creds!LoggedOutStaysOut /\ Creds!NoneSendsNone
    /\ Creds!RejectedIsForgotten

\* Requests of the OpenAPI client: repeated without being carried out twice, sent without
\* the token only where that shows nothing of the account, and by a verb the site knows.
RequestsHold ==
  part = "reqs" =>
    Reqs!TypeOK /\ Reqs!AppliedOnce /\ Reqs!OwnNeverAnonymous /\ Reqs!VerbRemembered

\* Repositories: made as visible as asked over either endpoint, "exists" said of what was
\* there before only, and read from the first site that has it.
RepositoriesHold ==
  part = "repo" =>
    Repo!TypeOK /\ Repo!MadeAsAsked /\ Repo!ExistsIsOthers /\ Repo!ReadFromFirst

\* Listings and controlled reads: a listing is whole or said not to be, a refusal is honest,
\* a read that was cut is not taken for a whole one, and none outlives its deadline.
ReadsHold ==
  CASE part = "walk" -> Walk!TypeOK /\ Walk!ListingHolds
    [] part = "read" -> Read!TypeOK /\ Read!ReadsControlled
    [] OTHER         -> TRUE

\* The old class: a version is as it was given, and the files listed are of the dataset named.
CompatHolds ==
  CASE part = "aigc" -> Aigc!TypeOK /\ Aigc!VersionAsGiven
    [] part = "data" -> Data!TypeOK /\ Data!ListedIsNamed
    [] OTHER         -> TRUE
=============================================================================
