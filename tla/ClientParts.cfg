\* Two threads, two commits an hour, throttles and sleeps that end late; three files
\* in two batches, with and without a throttle on their events; and the other parts.
CONSTANTS
  t1 = t1
  t2 = t2
  Threads <- TwoThreads
  MaxPerHour = 2
  Window = 3
  MaxAttempts = 3
  TotalWait = 3
  RetryAfters = {2, 3}
  MaxRetryAfter = 2
  MaxNow = 5
  MaxCommits = 3
  f1 = f1
  f2 = f2
  f3 = f3
  Files <- ThreeFiles
  BatchOf <- TwoBatches
  NumBatches = 2
  Moved <- MovedBytes
  Throttles = {TRUE, FALSE}
  patch_Threads = {"t"}
  patch_Submodules = {"install", "load"}
  patch_MaxCalls = 3
  patch_MaxDepth = 2
  revs_Versions = {1, 2}
  revs_MaxOps = 4
  plugin_Plugins = {"p", "x"}
  plugin_Trusted = {"p"}
  plugin_Packages <- PluginPackages
  plugin_Broken = {"bad"}
  plugin_MaxInstalls = 2
  cache_Files = {"a", "b"}
  cache_Hashed = {"a"}
  cache_Revisions = {"master", "v1"}
  cache_MaxWorkers = 1
  cache_OldCopies <- OldLayouts
  cache_MaxCommits = 1
  cache_MaxCalls = 2
  creds_Procs <- TwoProcesses
  creds_Full = {"tf"}
  creds_Scoped = {"ts"}
  creds_Bad = {"tx"}
  creds_MaxLogins = 2
  reqs_MaxRetries = 3
  reqs_MaxCalls = 2
  repo_Types = {"model", "dataset", "studio", "skill"}
  repo_MaxCalls = 2
  repo_MaxOthers = 1
  walk_Nodes <- TreeNodes
  walk_Parent <- TreeParent
  walk_Root = "/"
  walk_Limit = 3
  walk_MaxRequests = 4
  walk_MaxWorkers = 2
  walk_MaxAttempts = 2
  walk_PageSize = 2
  walk_MaxCalls = 2
  read_Readers <- TwoThreads
  read_Body = 2
  read_Deadline = 4
  read_HeaderLimit = 2
  read_Window = 2
  read_MaxNow = 5
  read_MaxReads = 1
  lock_Procs <- TwoProcesses
  lock_Stale = 2
  lock_Limits = {2, 4}
  lock_MaxHold = 2
  lock_MaxNow = 6
  lock_MaxCrashes = 1
  aigc_Callers = {"c"}
  aigc_Tags = {"v1"}
  aigc_Weights = {"w1", "w2"}
  aigc_Readmes = {"r1", "r2"}
  aigc_MaxCalls = 3
  data_Sites = {"cn", "ai"}
  data_Home = "cn"
  data_MaxCalls = 2
  data_MaxIds = 3
  plan_MaxFiles = 7
  plan_Weights = {1, 6}
  plan_Envelope = 1
  plan_Budgets = {0, 6, 9}
  plan_Settings = {0, 2, 5}
  plan_Ceiling = 6
  change_Contents = {"a", "b", "c"}
  change_SizeOf <- ContentSizes
  change_Thresholds = {1}
  change_Verifies = TRUE
  change_MaxWrites = 3
  change_MaxRuns = 2
  change_MaxAttempts = 2
  change_MaxRounds = 1
SYMMETRY Symmetric
SPECIFICATION MCSpec
INVARIANTS
  TypeOK
  WithinBudget
  BackoffWithinTotal
  ThrottleNotCharged
  EventsAddUp
  UploadsHold
  ExtensionsHold
  CacheHolds
  LoginHolds
  RequestsHold
  RepositoriesHold
  ReadsHold
  CompatHolds
CHECK_DEADLOCK FALSE
