# modelscope_hub: a TLA+ verification project

This directory holds TLA+ models of `modelscope_hub`, the Python SDK and command line
of the ModelScope hub: TLC configurations that check the models on small instances,
and theorems about them that TLAPS proves for every instance.  Paths below are relative
to `src/modelscope_hub/` unless they say otherwise.

## 1. The system and its parts

| Part | Code | State it keeps | Operations |
|---|---|---|---|
| Folder upload | `_upload.py` `UploadManager.upload_folder` | pending files, batch plan, `blob_owner` / `blob_ready`, results and failures, the tracker | scan, plan, hash, pre-sign, transfer blobs in a pool, commit batches in order, recover commits, retry rounds, sync |
| Upload tracker | `_upload.py` `UploadTracker` | `.ms_upload_cache`: hash and status per `path\|mtime\|size` | put_hash, begin_attempt, mark_*, save, load |
| Batch tracker, wire progress | `_upload.py` `BatchTracker`, `_report_wire` | results of each batch and its event; byte counters | record, wait, report, flush |
| Commit planner | `_upload.py` `_plan_commit_batches`, adaptive size, `delete_files` | none (pure) | split files and deletions into commits |
| Commit retry and governor | `_upload.py` `_commit_with_retry`, `_CommitRateGovernor` | sliding window of commit times, attempt budget | acquire, attempt, back off |
| Report-mode download | `_resilient_download.py`, `_download_state.py` | bounded queue, futures, the JSON tracker, the report | enumerate, select, transfer, isolate, finish, report, crash and rerun |
| Recovery budget, control | `_download_control.py` | retries and seconds per file; deadlines; watched sockets | retry, check, watch, abort |
| Single-file download | `_download.py` `download_file`, `_download_with_resume` | target, `.incomplete`, lock file | probe, resume, verify, publish, retry |
| Range download | `_download.py` `_parallel_download`, `_download_part_with_retry` | part files and their ranges | split, fetch, fall back, assemble |
| File locks | `_download.py` `_optional_file_lock`, `_lock_path` | OS lock or soft lock files | acquire, degrade, remove stale |
| Region probe | `_download.py` `_download_with_resume`, `_resolve_inter_region_headers` | region confirmed for each storage route, probes in flight | probe once, share, free the route |
| Listing | `_legacy_api.py` | page state, isolated pages, the frontier of a walk | list pages, walk a truncated tree, retry, isolate |
| Cache manager | `_cache_manager.py`, `download_repo` of `_download.py` | the cache directory | scan, clear, snapshot, look up offline |
| Credentials, configuration | `config.py`, `api.py` | token, cookie and git token files; token, `_logged_out`, cached clients | login, logout, resolve |
| HTTP API | `_openapi.py`, `_legacy_api.py`, `api.py` | which verb a site knows | request, repeat, ask again without token, map errors |
| Repositories | `api.py` | none (the site's) | create over two endpoints, push, settings, delete, find the site to read from |
| Agents | `agent/`, `agent_idp.py` | plugin directory, `sys.path`, imported modules | fetch, verify, log, import, run |
| Kernels | `kernels/` | the factory of each loaded module, synthetic revisions | patch, restore, resolve |
| Old class | `compat/` | the dataset number cache | versions of AIGC models, dataset calls, forward |
| Command line | `cli/` | none | parse, call the API |
| Git | `_repository.py`, `_git.py` | git's | clone, commit, push |

Interaction.  `api.HubApi` builds one `UploadManager` and one `DownloadManager`.  An
upload's pool threads talk to the calling thread through `BatchTracker` events and the
`blob_ready` dictionary only; both write the tracker under its lock.  A report-mode
download runs a producer thread (the listing), a pool of transfer workers and the calling
thread over a bounded queue; the workers call `DownloadManager.download_file`, which takes a
file lock, may fetch ranges with a pool of its own, and draws on the file's recovery budget,
which persists itself through the download tracker; each read is registered with a
`_DownloadControl`, whose watchdog ends it.  Uploads and downloads of two processes meet in the
file system (locks, trackers, partial files, credentials) and on the server.  Everything that
is not a file goes through the request loop of `_openapi.py` or its legacy twin.

What is hard: two pools of threads around shared trackers, retries whose earlier attempt may
have landed, processes that die between a server effect and its record, resumable partial
files, several processes on one cache, budgets that span processes, and ends that depend on
every thread reporting in.  `PROJECT.json` lists each hazard at its line with the properties
that watch it.

## 2. The modules

| Module | Models | Checked by | Proved in |
|---|---|---|---|
| `UploadPipeline` | `upload_folder` with its pool, tracker, recovery, sync, crash and rerun | `UploadOnce`, `UploadCrash` | `UploadPipelineProofs` |
| `UploadContract` | what a folder upload promises the server and the tracker file (abstract) | refined by `UploadPipeline` in `UploadCrash` | `UploadPipelineProofs` |
| `CommitPlanner` | how the operations of an upload or a deletion are cut into commits | `ClientParts` | `UploadPartsProofs` |
| `ChangingFile` | a file that is rewritten or removed while it is uploaded, by `upload_folder` run after run or by `upload_file`; the tracker's hashes | `ClientParts` | `UploadPartsProofs` |
| `CommitPacing` | the attempts of every commit of a manager and the rate governor they share | `ClientParts` | `CommitPacingProofs` |
| `WireProgress` | the byte counters and progress events of an upload | `ClientParts`, `WireFlush` | `UploadPartsProofs` |
| `ReportDownload` | `download_repo_report`: listing, queue, pool, tracker, report, rerun | `ReportOnce`, `ReportRerun`, `ReportIsolation` | `ReportDownloadProofs` |
| `DownloadFile` | `download_file` of one file by several processes, as a single stream | `DownloadOnce`, `DownloadTwoCaches` | `DownloadFileProofs` |
| `RangeDownload` | `download_file` of a large file, in byte ranges | `DownloadParts`, `RangeLoses` | `RangeDownloadProofs` |
| `RegionProbe` | the shared probes of storage routes | `DownloadParts` | `RegionProbeProofs` |
| `ReadControl` | registered reads, their watchdog, the stop of a group | `ClientParts` | `ClientPartsProofs` |
| `SoftLock` | the file lock where there is no `flock` | `ClientParts` | `ClientPartsProofs` |
| `RepoWalk` | listing a repository: truncated trees, pages, refusals | `ClientParts` | `ClientPartsProofs` |
| `RepoCache` | snapshots, offline look-up, scan and clear | `ClientParts` | `ClientPartsProofs` |
| `Requests` | the request loop of the OpenAPI client and every endpoint's rules | `ClientParts`, `UploadFileRetry` | `ClientPartsProofs` |
| `RepoCalls` | creating, pushing, changing, deleting a repository; the site to read from | `ClientParts` | `ClientPartsProofs` |
| `Credentials` | login, logout and the stored credentials, several processes | `ClientParts` | `ClientPartsProofs` |
| `KernelsPatch` | the scoped patch of the kernels library | `ClientParts` | `ClientPartsProofs` |
| `KernelsRevisions` | synthetic revisions and lock files of kernels | `ClientParts` | `ClientPartsProofs` |
| `AgentPlugin` | `install_agent` | `ClientParts` | `ClientPartsProofs` |
| `AigcVersion` | versions of an AIGC model made by the old class | `ClientParts` | `ClientPartsProofs` |
| `DatasetCalls` | the old class's calls about one dataset on two sites | `ClientParts` | `ClientPartsProofs` |

`ClientParts` and `DownloadParts` compose models that share no state: a behaviour is one of a
single part while the others keep their first state, so one run checks them all without
multiplying their states, and a theorem about the composition is one about each part.  A part is
an instance under a name (`Creds`, `Walk`, `Plan`) whose constants and variables carry that name
(`creds_Procs`).  Each property of `ClientParts` but those of `CommitPacing` is the conjunction of
what the modules of one area state (the type invariant of each included), under the names they
have there.  The `MC...` modules give TLC the constants that a configuration cannot write;
`DownloadParts` needs none.  The definitions marked "Mutant" are the plausible bugs each property
was tried against; a property of several modules has one in each.

### UploadPipeline

A file is its position in the sorted list, a content an element of `Oids`.  The calling
thread is `phase`; each pool worker is `wpc[f]`.  `Scan` is the loop of `upload_folder` over
`is_committed` / `begin_attempt` with the plan (any split `_plan_commit_batches` may choose:
order kept, ranges, no more than the cap); `Presign` the hashing of what it manages to hash,
`_validate_blobs_batch` and the election of owners.  A worker goes through `StartUpload`,
`FinishUpload` (`_upload_single_file`), `PublishBlob` (`blob_ready`) and `RecordUpload`
(`BatchTracker`), in that order, because the committing thread reads `blob_ready` as soon as
the batch event is set.  The committing thread goes through `TakeBatch` (`wait_for_batch` and
the duplicates whose owner failed), `DeferOrphans`, `Commit` / `CommitFails`, `TrackCommitted`.
Then come the commit-only recovery with its halving, the triage and the retry rounds, the
removal of remote orphans and the report.  `Crash` may happen at any step; `NewRun` uploads the
folder again from the tracker file.  A request whose answer is lost may have taken effect.
`mem` and `disk` are the tracker in memory and on disk, and a save may fail (it only warns).

`UploadContract` has three things a caller relies on: what is stored, what is committed and
what the tracker file says; a file is only published with its content stored, only recorded
once published, and orphans go only when every file is there.

### CommitPlanner, ChangingFile

`CommitPlanner` takes the files one by one as `_plan_commit_batches` does: a commit that is full, by
count or by estimated bytes, is closed before the next file (`Take`), a tiny last commit shares the
files of the one before if both halves fit (`Balance`).  `Fewest` is the reference, which tries
every way to cut the list.  `delete_files` cuts by count only and commits one chunk after the
other.  An operation is its weight; the estimate of a weight from a path and a size is data.

`ChangingFile` is one file whose owner writes it again, removes it and makes it again at any step of
an upload.  Every look the code takes is a step: the sizes of the listing, the stat of the scan, of
the cache and of the hash, the size and the bytes read for the hash, the size checked before each
attempt, the transfer, the content read for an inline operation.  A read that a writing overtakes
may return some of each content (`Torn`).  The tracker is kept in memory and on disk under keys of
path, mtime and size, which here are the number of the writing: the model assumes that a
writing changes the mtime, as the code does.  `Verifies` says whether the blob store
refuses a content that does not have the announced hash; the client does not look.

### CommitPacing, WireProgress

`CommitPacing` has a clock.  A thread begins a commit, acquires a slot of the sliding window
(`_CommitRateGovernor.acquire`, one lock), gets an answer, a throttle (`Retry-After`, not
charged to the time allowed) or a transient failure (backoff, charged), and sleeps, possibly
longer than asked.  `grants` keeps the time of every slot ever given.  `WireProgress` separates
the step that counts a file under `wire_lock` from the step that calls the callback, and the
step that sets the batch's event from both.

### ReportDownload

The producer reads pages, isolates the ones that fail and puts entries on a bounded queue;
the calling thread fills the pool from it, waits, and at an interrupt or a fatal error
cancels what is queued; workers run `transfer`.  The two reads of the loop's condition
(`Loop1`, `Loop2`: `producer_done`, then the queue) are two steps, as are `select` and `submit`.
`hints` is the tracker as the next run reads it.  A transfer is abstract here: it verifies,
retries (which saves the budget), is isolated, is stopped by its deadline, or is fatal.

### Reads, listings, caches, locks

`ReadControl`: a reader registers its socket twice, before the connection has one and with the
answer, and is between the two at any step of the watchdog; a deadline, a header limit, a
cancelled call and the stop of a group of ranges each end it.  `CutIsNotWhole` is about the
second registration, which forgets why the first was ended; `NobodyWaitsOn` about a server
that is silent anywhere.  `RepoWalk` splits a listing of as many entries as the server's limit into
its directories, level by level, with a pool and a budget; no answer says that it is cut off.
`RepoCache` has the copies of one repository in every layout an SDK has left, filled by
`download_repo` through a pool, looked up offline, scanned and cleared.  `SoftLock` has a clock:
lock files carry the time they were made, waiters look at their age, are cancelled or give up at
their limit, processes die.  Each process has a limit of its own, from the environment or, less, from
the policy of a download with a report.  By default all of them are below the stale age: ten
minutes against two hours.

### Requests, RepoCalls, Credentials

`Requests` keeps each endpoint of the OpenAPI client as a record: its verb, whether it goes with a
token, whether it asks again without one, and what it does at the site; `HubCalls` maps the
calls of `HubApi` onto them by type.  An attempt is lost before or after its effect, refused as
too early, or answered.  `RepoCalls` is one repository as other people change it too: a creation goes to
the OpenAPI endpoint, or to the legacy one for what the former has no words for or when it is not
offered; `push_model` and an upload's own creation follow.  `Credentials` has two processes over
the same files; every write of a login is a step of its own and may fail.  A process sends its
token through two clients, and the jar of `get_cookies` with the weights of an AIGC model; the jar
has a variable of its own, because its rules differ.

### Kernels, agents, the old class

`KernelsPatch` counts scopes per thread and lets modules be imported at any step, between the
home module and the others too, when patching (`Replace`, `Sweep`) and when undoing (`Restore`,
`RestoreHome`);
`KernelsRevisions` has the branches and tags of a repository come and go between listing and
download.  `AgentPlugin` has packages that change between fetch and import.  `AigcVersion` has the site
make a version at once, later or never after its answer was lost; `DatasetCalls` has the number
of one name differ by site and over time.

### DownloadFile, RangeDownload, RegionProbe

`DownloadFile` keeps files by inode, because a process may hold an open descriptor of a partial
file that another has unlinked or renamed.  A block is a version of the object and a position,
so that a resume that appends another version's bytes is visible.  `profile` is what the call
is given: the hash, the size, `force`, and whether the server announces the hash.  A call
checks the cache, takes the lock of `_lock_path`, checks again, and loops over attempts:
request, answer, chunks, end of body, verification, rename.

`RangeDownload` is the same call for a large file: the threads of the pool, each on a part,
the calling thread that awaits, stops and drains them, merges, verifies and renames.  The parts
follow from `FileSize` and `PartSize`, the last one perhaps shorter.  Only one
call runs at a time, which is what `OneWriter` of `DownloadFile` shows of the lock.

`RegionProbe` has the threads of a repository download that share `_inter_region_cache` and
`_inter_region_inflight`; a step is one critical section, the probe runs outside of the lock.

## 3. The runs

| Run | Instance | Shows |
|---|---|---|
| `UploadOnce` | three files, two with one content, one inline; two workers, commits of at most two operations, one retry round, one run | every order of workers, batches and recovery: every file in exactly one of the lists and a duplicate deferred only after its owner failed and no upload commit above the cap (`FilesAccountedFor`) |
| `UploadCrash` | two files with one content, commits of one operation, two runs, crashes anywhere, recovery on and off, two orphans | no pointer without its blob, the tracker is never ahead of the server (`CommittedIsRemote`), a record of a commit is never lost from memory or disk but by the crash that loses the save (`CommittedNeverForgotten`), success means everything is committed, orphans go only then, the contract is implemented, every run ends |
| `ReportOnce` | four pages with a file listed twice and an invalid entry; two workers, a queue of one | no entry is lost between queue, pool and report, each is reported once, `COMPLETE` is true |
| `ReportRerun` | a directory and a file, three runs, crashes, interrupts, failing saves, changed metadata | spent retries survive, an isolated file is not transferred unasked, every run ends unless it dies |
| `ReportIsolation` | two files, one worker, two runs | a finding, section 6 |
| `ClientParts` | see below | the thirteen properties below, each of its part |
| `WireFlush` | three files in two batches, throttled | a finding |
| `UploadFileRetry` | one call of three attempts | a finding |
| `DownloadOnce` | two processes under one lock, three versions on the replicas, leftovers, a crash and a restart | what is returned is what was asked for, the target never holds a rejected file, a forced download never loses the old file, one writer of a partial file, every call ends |
| `DownloadTwoCaches` | the same two processes under two locks | a finding |
| `DownloadParts` | two parts of two and one blocks, two threads, two calls; three threads with two files each behind two routes | the file put in place fits and nothing rejected is resumed (`PartsFit`), every call ends; one prober at a time, every thread comes to a decision |
| `RangeLoses` | one call of the same | a finding |

The parts of `ClientParts`:

| Part | Instance | Property |
|---|---|---|
| pacing | two threads, three commits, a window of 3 ticks with 2 slots, throttles and late sleeps | `TypeOK`, `WithinBudget` (any three slots in a row span a window), `BackoffWithinTotal`, `ThrottleNotCharged` |
| wire | three files in two batches, with and without a throttle | `EventsAddUp`: no byte announced twice, all announced when nothing is held back |
| plan, change | seven files of two weights, three budgets, three settings, a ceiling of six; three contents, two of one size, three writings, two uploads with crashes and failing saves | `UploadsHold`: a plan holds every file within the limits in the fewest commits there can be, a deletion says what it removed; a remembered hash is the file's, and what the next run would skip, or a calm run reported, is in the repository as it is here |
| patch, revs, plugin | one thread, two submodules, three calls two deep; two versions, four operations; two plugins, five packages, two installs | `ExtensionsHold`: inside a call every module asks ModelScope and afterwards, unless imported in the middle of a change, what it asked before; what is fetched is the ref asked for; what runs was verified |
| cache, lock | two files, two revisions, old copies in four forms, two calls; two processes, one crash, six ticks, a stale age of 2 and limits of 2 and 4 | `CacheHolds`: a snapshot returned is whole, a scan after a clear finds nothing; a lock has one holder with the default order of limit and stale age, and with a longer limit too unless a holder died or overstayed; a waiter of the longer limit gives up only behind a download that ran |
| creds | two processes, full, scoped and bad tokens, two logins | `LoginHolds`: logged out means that the clients send no token and a jar none that the logout removed; told to use none, a process sends none; a rejected one is forgotten |
| reqs | three attempts, two calls, every endpoint | `RequestsHold`: nothing that adds up is done twice, account data is never asked for without the token, what is learnt of verbs is so |
| repo | every type and request, two calls, one step of others | `RepositoriesHold`: not more visible than asked, "exists" only of others' repositories, the second site only when the first lacks it |
| walk, read | a tree of six nodes three deep, a limit of three entries, four requests, two workers; two readers, two pieces, five ticks | `ReadsHold`: a listing is whole or said not to be, a denial is honest; a cut answer is not whole, nobody waits past a limit |
| aigc, data | one caller, two weights and READMEs, three calls; two sites, three numbers, two calls | `CompatHolds`: a version is as given, the files listed are of the dataset named |

### Bounds

The bounds are small because the hazards need few actors.  Two files with one content and two
batches are enough for a duplicate and its owner to be in one batch or in two, in either
order of their transfers; a third, inline file makes batches of different sizes.  Two runs are
enough for a crash and what it leaves; `ReportRerun` has three, since a budget may be spent in
one run, carried by the next and read by the third.  Two threads over two slots force a third
request to wait; `MaxNow` lets the window pass and a wait overrun.  Two processes are enough for
a lock; three versions are the right one, one of its size and a longer one, and one leftover is
longer than the file.  A first part of two blocks can be half received, a last part is shorter.
Three threads behind one route are a prober and two that race to be next.  Retries are bounded
by 1 or 2, where the code has more: what matters is that the count is carried and ends.  In
`ClientParts` two processes or readers are enough for one to act between two steps of the other;
two calls in a row for what one leaves to the next; a limit of three entries makes the first two
levels of the tree look cut off and the third not; three attempts allow two repetitions.
The two files of the cache fit into the window of its pool, so that its queue is never used there;
the theorem is for every number of files and workers.
Seven files under a ceiling of six make two commits of which the second is tiny; the larger weight
alone exceeds one of the budgets.  Three writings allow one before, one during and one after a look,
and two contents of one size pass the checks of the size.
A limit of 2 ends a wait when the lock's age could be looked at, as every limit below the stale age
does; a limit of 4 leaves the two ticks that seeing a stale file and taking the lock need.  The two
processes have either limit in all combinations.

Bounds that are the model's and not the code's: `MaxRuns`, `MaxRestarts`, `MaxCalls`, `MaxFiles`,
`MaxNow`, `MaxCommits`, `MaxInstalls`, `MaxLogins`, `MaxOps`, `MaxOthers`, `MaxReads`, `MaxHold`,
`MaxCrashes`, `MaxIds`, `MaxDepth`, `MaxWrites`, and `MaxRounds` of `ChangingFile`.  `CHECK_DEADLOCK FALSE` appears in `ClientParts` only, where
the behaviours of `CommitPacing` and `ReadControl` end with their clocks; the other models name
their end `Rest`.

### Fairness

Weak fairness of each thread's own steps: the calling thread, the producer and the pool's
threads are scheduled by the interpreter and every wait in the code is woken or has a timeout.
The network may fail at will but always answers or times out (requests carry timeouts), so
the step that ends a request is one of the thread's own steps.  Nothing asks for crashes,
deadlines, interrupts, restarts or new runs.  `RunEnds` of the upload, `RunEnds` of the report,
`CallEnds` of both downloads and `RegionDecided` hold under it.  `RegionDecided` also uses that
a thread asks for finitely many files: a waiting thread may see another become the prober each
time it wakes, but a file's download is a prober once at most.

## 4. Proofs

TLC checks instances; the theorems hold for every value of the constants that satisfies the
modules' assumptions.

**UploadPipelineProofs** (assumption `ConstantsOK`).  The first inductive invariant is
`IInv == TypeOK /\ BlobInv /\ TrackInv /\ EmptyInv /\ KeptInv`.  `PointerHasBlob` speaks of the
repository only; what keeps it is what the program knows: `BlobInv` says that every list whose
files will be committed (batch, queue, results of a round) has its contents stored, and that
`blob_ready` and a worker's outcome are true.  `TrackInv` adds that a batch whose commit has
landed is in the repository before the tracker says so.  `EmptyInv` says which lists are empty
in which phase and `KeptInv` that every file is in one of the lists, committed or counted as
failed until the run ends; from these and `TrackInv` an upload that returns, or that
removes orphans, has committed every file.  Theorems: `TypeCorrect`, `PointersBacked`,
`TrackerSound`, `DoneCommitted`, `SyncSafe`, and `Refinement` (every step is a step of
`UploadContract` or changes nothing of it).

`EveryFileAccountedFor` needs three more.  `OnceInv` is "every file in exactly one list" file by
file, with the places that must be empty before a file may move into them.  `CapInv` says that a
batch cut off a planned one has no more operations than it had.  `OrderInv` is what makes a
duplicate wait for its owner only: batches are consumed in order, every file of an earlier batch
has been recorded, and a recorded owner has published how its transfer ended.  That each content has an
owner among the files elected is the least element of a set of positions.  `NeverForgotten`, an
action property, rests on `MemoryInv`: a file recorded as committed was left out of the plan or is
in the results, so no later mark of the run, which is only ever put on a file still open, can fall on it.

**ReportDownloadProofs** (assumption `ConstantsOK`: the paths are finitely many).  `JobInv` follows
one path from `select` to its result, and `PhaseInv` says what each phase of the calling thread has
behind it: nothing queued after the cancelling, nobody busy after the join.  Then `CountInv` gives
`EachIsReportedOnce`.  `ListInv` says that as long as the listing met no error and the run
no interrupt, every entry read is none to download, in the producer's hand, in the queue, or seen
by the calling thread; it includes that the loop ends on an empty queue after the producer is done,
which is the order of the two reads of its condition.  It gives `NothingIsLost`, and with `DoneInv`
`CompleteIsTrue`.  `HintInv`, `BudgetInv` and `IsolationInv` say how far the tracker file is behind
what the run knows; they give the action properties `BudgetIsKept` and `IsolationIsKept`.
`BudgetIsKept` has the hypothesis `OneKind`: no path is listed with good and with bad metadata.
An invalid entry is selected with no metadata at all (`_resilient_download.py:343`), so a path listed
both ways is, to the tracker, a file that has changed, whose budget starts anew.

**DownloadFileProofs** (assumptions `ConstantsOK` and `SameLock`: every process takes the same
lock file, which `_lock_path` gives when their cache directories agree; `DownloadTwoCaches` shows
that the theorems need it).  `IInv == FilesOK /\ ControlOK`: `FilesOK` is what the files may
hold whoever writes; `ControlOK` says that only the holder of the lock is past it and, for each
process, `Sound(p)`: while it streams, the inode it writes is the partial file's, the digest it
keeps is of what that holds, and at verification the file it verifies is the file it renames.
Theorems: `Invariance`, `TypeCorrect`, `OnlyGoodIsInPlace`, `ForcedIsNeverMissing`,
`OneWriterOnly`, `WhatIsReturnedIsGood`.

**RangeDownloadProofs** (assumption `ConstantsOK`), for any size of file and part, any number of threads, retries,
replicas and calls.  `PoolInv` says that threads run only while the calling thread waits for
them, and that one that has ended well leaves a full part; `MergeInv` that after `next - 1` parts
the merged file ends where those parts end and they are gone.  So a merged file always has the
size of the listing and the comparison after the merge never fires: a size error can only come
from a part.  Theorems: `TypeCorrect` and `PartsAlwaysFit` (what is in place has the size and, with a hash,
the content asked for, and no part of a rejected file is resumed).

**RegionProbeProofs** (assumption `RegionOK` of `DownloadParts`), for any number of threads, routes
and files.  `ProberInv`: a thread that probes has its route, the route's event is its own, and the
region is open until it has stored it.  Theorems: `OneProberOnly`, of the composition that the run
checks, and `WaitersHaveAProber`: a thread waits only for the event of a thread that is on its way to
set it.  The latter is the safety half of `RegionDecided`.

**UploadPartsProofs** (assumptions `WireOK`, `PlanOK` and `ChangeOK` of `ClientParts`).  What these models
compute over data, a sum or a shortest plan, is a function defined by itself, and the library's
induction theorems take an operator, which the provers cannot instantiate.  The proofs take the least
element of a set of natural numbers instead (`LeastNatural`, from `WFMin`): the least size at which a
statement fails.

- Sums.  The fold of the community modules exists for every finite set and is unique (`FoldExists`,
  `FoldUnique`), and though it picks elements in an order nobody knows, taking any one away takes its
  value away (`TotalRemove`).
- Events.  `WireSent`: the deltas announced, the delta of a flush that is under way and those of the
  workers between their count and their callback add up to `reported`, which is behind `bytes` only
  where events are held back.  Theorem: `EventsAlwaysAddUp`.
- Plans.  `CountExists` and `CountIs` say what `Fewest` is, for every position a list may be cut at;
  it does not grow along the list (`CountFalls`), hence a commit that takes as many files as it may costs
  nothing (`CountGreedy`).  `PlanFilling` is the invariant of the loop: the commits that are closed and
  the fewest the files from there on need are the fewest of all.  It needs that the bytes counted
  are those of the open commit, and that a part of what may be one commit may be one (`MayPart`).
  Sharing the tail keeps the number, and a shared tail is not tiny (`Halved`).  Of a deletion the
  invariant is that its chunks are short and that no commit lies between `deleted` and the next end.
- A changing file.  The question is what a remembered hash says of the file, which may be written
  between any two looks.  `FreshKeys`: a writing is newer than every key, so nothing is remembered of it
  yet.  `KnownFile`: the file has not been written since what the tracker or the call knows of it; under
  it `InfoInv` says that the call's hash is the file's, `StoreInv` that what is stored under a hash has
  it if the store verifies, and `TreeInv` that the repository has the file once the commit has landed.
  Hashes taken late, after the read, are excepted as in the properties (section 6).  Theorem:
  `ChangesAlwaysHold`; with the plans it gives `UploadsAlwaysHold`.

**ClientPartsProofs** (the assumptions `...OK` of `ClientParts`).  Each part has its inductive invariant
and a theorem about its own specification (`CredsHold`, `RepoHolds`, ...); a theorem about the
composition then states the property the run checks.  What the invariants add to the properties:

- `LoginSafe` (`CredsInv`).  A configuration that is logged out has no cached client with a token, and
  every token that was accepted is one the site knows, wherever a login is between its writes.  For the
  cookie jars, the file is empty after a logout unless the logout failed to remove it or somebody has
  stored a token since.
- `RepositoriesSafe` (`RepoInv`).  A creation under way has made nothing yet, and is at the endpoint that
  has the words for what was asked; so what is there when it is refused is of others.
- `CompatSafe` (`AigcInv`, `DataInv`).  A request whose answer was lost is of an earlier call or of this one
  with its README on the branch.  Hypothesis `OneCaller`: with two the property fails (section 6).
- `CacheSafe` (`CacheInv`, `LockInv`).  Every file of a listing is good, on its way through the window,
  the queue or a worker, or known to have failed; and while files are left to submit the calling thread
  has one to wait for.  For the lock there is no hypothesis on limits and ages: while no limit exceeds
  the stale age, no waiter gets to look at a file's age before it gives up, so none is removed; and
  while nobody has died or overstayed, the file of a holder is the one it made and is too young to look
  stale.  A waiter two ticks above the stale age has outlived the file of a dead process.
- `RequestsSafe` (`ReqsInv`).  While a call is under way nothing was made for it, unless the attempt is one
  that is not repeated, and the verb is that of its endpoint or the one learnt from the site.
- `ExtensionsSafe` (`PatchInv`, `RevsInv`, `PluginInv`).  The library is wholly patched, wholly its own, or
  in the middle of the outermost scope's change, when its home module is ModelScope's and the others are
  not; only a module imported just then may keep the wrong factory.  Hypothesis `OneThread`: two threads
  share one patch and the property fails (section 6).
- `ReadsSafe` (`ReadInv`, `WalkInv`).  A reader that still waits has time left or has been cut once the
  watchdog has looked, and why it was cut is kept until it is told.  Whatever a walk has not seen is
  below a directory of its level, unless the walk says that it is incomplete.

**CommitPacingProofs**.  `StampInv` relates the governor's stamps to all slots ever granted:
the stamps are the last of them, those before are a window old; hence `WithinBudget` for any
number of threads.  `WaitInv` says that the time a commit has slept in backoffs is covered by
its elapsed time without throttles; hence the bound on its backoffs.  `BusyInv` does the same for
a commit that is given up.

Every leaf of these proofs also goes through with a fifth of the provers' default time limits
(`tlapm --stretch 0.2`), so that they do not depend on the speed of the machine.

Every invariant, every action property and the refinement that a passing run checks is also proved.
Only model-checked is liveness: `RunEnds` of the upload and of the report, `CallEnds`, `CallsEnd` and
`RegionDecided`, whose proofs need `ENABLED`, which the prover does not treat.  What the theorems do not
cover of the runs' other instances are the configurations outside of their hypotheses: two callers
and two patching threads.

## 5. Hazards

`PROJECT.json` lists them at their lines.  Each is watched by a property of a run or says why
it is not.

## 6. Where the code and its documentation disagree

Each of these is a run that TLC ends with a counterexample.

1. `ReportIsolation`: `README.md:268` of the repository says that failures remain isolated until
   metadata changes or `retry_failed=True`.  A run interrupted while an isolated file is queued
   finishes it as `PENDING`, and `finish` drops its hint.
2. `WireFlush`: the comment at `_upload.py:1502` says that the flush before a commit event
   publishes what the throttle holds.  The worker sets the batch's event before it counts the
   file's bytes, so the flush may miss them; after the last batch nothing announces them.
3. `UploadFileRetry`: the comment at `_openapi.py:655` says that a request the site did not process
   is always safe to repeat, a POST too.  `upload_file` hands the loop one open stream, from which
   each attempt builds its form: the second attempt sends an empty file, and returns normally.
4. `DownloadTwoCaches`: `README.md:1103` describes the file lock as what makes downloads of
   several processes safe.  The lock is under the cache directory even when the target is under
   `local_dir`; with two cache directories one process can return a file that does not match.
5. `RangeLoses`: `README.md:281` says that a file stopped by `--total-timeout` keeps its partial
   data.  The merge of a ranged download removes each part once it is copied and nobody reads the
   merged file of an earlier call, so a stop in the middle of the merge loses what was copied.

### Observed

Met while modelling, and not a run of its own.  Where a name is given, the module states it as
a definition next to its properties, and TLC refutes it on a small instance of that module.

- Upload.  A file whose pre-hash failed takes no part in the election of owners, so the owner of its
  content may be in a later batch; it has been sent by its own negotiation, and is deferred and
  sent again, although the comment at `_upload.py:1515` says that the owner is resolved by then
  (`OwnerAlwaysResolved`).  The delete commit of a synchronising upload is not split, although
  `constants.py:1147` says that every commit path clamps.  Progress events of two workers may be
  delivered in the other order, although `tests/test_upload_batching.py:716` says that totals never
  decrease.  The pause for a slot of the governor counts as elapsed time of the commit that waits, so
  the first transient failure after a long pause ends it.
- A file that changes during an upload.  A file that is missing at the worker's first look is hashed when it is
  back, and the hash is kept under a stat taken after the read; a writing in between makes the next
  run skip what was never uploaded (`ChangingFile!SkippedAlways`).  Nothing checks that the bytes sent
  have the hash announced, only their number: with a store that does not look either, a pointer's blob
  may have another hash (`ChangingFile!PointerIsTrue` with `Verifies` false).  An inline operation
  has the size that was hashed and the content read at the commit.
- Downloads.  A partial file of full size that a crash left is renamed without being read when the
  caller gave no hash.  With soft locks, a waiter gives up after ten minutes by default, while the
  file of a dead process is stale after two hours only: it is never removed, and keeps every download of
  that file out until somebody removes it by hand (`SoftLock!DeadLockFreedAlways`).  The removal in
  `_optional_file_lock` is reached only with a raised limit, and then two waiters may both find a dead
  process's file stale, and the second one removes the lock the first has taken since
  (`SoftLock!OneHolder`).  A read's connection is back in urllib3's pool before it is released from the control.
- Listings.  `_list_files_page` takes a business error that comes with HTTP 200 for an empty page;
  `listing_incomplete` is read by the report mode only, so the snapshot of a plain `download_repo`
  counts as complete; a directory of exactly as many entries as the limit is said to be incomplete.
- Cache.  `clear_cache` of a repository leaves copies that an offline look-up still finds
  (`RepoCache!ClearedIsGone`).
- Requests.  A DELETE repeated after its answer was lost says "not found" of what it has deleted
  itself; catalogue reads do not ask again without a rejected token, where others do; errors of
  the MCP list that come with HTTP 200 bypass that second try.
- Repositories.  `push_model` takes any error whose text contains "exist" or "not available" for
  the name being taken and goes on to the upload, whose own creation makes the model public,
  whatever was asked (`RepoCalls!PushedAsAsked`); studios and skills asked for as "internal" become
  public; the old `create_repo(exist_ok)` returns nothing for an owner that does not exist.
- Credentials.  A login that fails after the cookies are saved raises with the new credentials
  stored, although the docstring (`api.py:627`) says that a failed attempt leaves them untouched; a scoped
  login keeps the git token of the login before.  `get_cookies` does not ask `_logged_out`: after a logout
  that could not remove the cookie file, or the login of another process, `create_model` and
  `create_model_tag` of the old class send stored cookies (`Credentials!LoggedOutSendsNone`), although the
  docstring of `logout` (`api.py:826`) says that subsequent calls behave as if no credential was ever
  provided.
- Kernels.  Two threads share one patch, and the first to leave undoes it under the other
  (`KernelsPatch!CallsAskModelScope` with two threads); a module that another thread imports while the
  patch is half applied or half undone goes on asking ModelScope when no call is left
  (`KernelsPatch!RestoredEverywhere`); a lock file resolves only in a process that has
  listed the repository (`KernelsRevisions!LockResolves`).
- Agents.  A plugin imported before stays in `sys.modules`, so the build that runs need not be the
  one the audit line names (`AgentPlugin!AuditTrue`); an update that drops a file can never verify
  again; a failed load removes a `sys.path` entry that the program itself had put there.
- The old class.  With two callers a version may get the other's README (`AigcVersion!VersionAsGiven`
  with two callers); after a lost answer any version of that name will do
  (`AigcVersion!VersionIsOwn`).  A call with an endpoint and no token goes to the class's own site,
  a deletion too (`DatasetCalls!DoneWhereAsked`), and remembers that site's number for the other endpoint
  (`ListedIsNamedAnywhere`); a metadata file that is there is reused whatever it is of
  (`PathIsNamed`).

## 7. What is not modelled

- `upload_file` of bytes or of a file object, the filters of names, the rules of suffixes (a size above
  a threshold stands for them), the estimate of an operation's weight.  `ChangingFile` has one file.
- The search of a cached revision below `snapshots/` by date, `verify_cache` (reads only), clearing everything.
- A stale lock file that cannot be removed: the code counts its wait anew all the same.  The code adds
  0.2 s to a wait for every attempt that fails, which lags behind the clock; the model counts a tick for it.
- The low-speed window (one more reason for the watchdog), a deadline of `DownloadFile` other than as a step.
- A branch that moves while its tree is walked; two threads that share one client's caches of options.
- Session ids, user agents, the texts of errors and their mapping, payloads and their validation: data.
- The git wrapper and the command line: no state of their own, or that of another program.
- Types, errors, constants and file helpers: definitions and pure functions.

## 8. Plan

What is left, in this order:

1. The recovery budget shared by ranges, hash retries and runs; the low-speed window of the watchdog.
2. `SoftLock` as the lock under `DownloadFile`, with the effects of two holders on one partial file.
3. A branch that moves while its tree is walked, which needs a revision in every page of `RepoWalk`.
