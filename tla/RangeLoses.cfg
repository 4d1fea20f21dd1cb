\* One file in two parts, stopped by its deadline at any step.
CONSTANTS
  FileSize = 3
  PartSize = 2
  Versions = {"new", "stale"}
  MaxWorkers = 2
  MaxRetries = 1
  HashTries = 2
  SizeTries = 2
  MaxCalls = 1
  Threads = {t1, t2, t3}
  Routes = {r1, r2}
  Internal = {"local", "peer"}
  MaxFiles = 2
  None = None
  Shown = {"range"}
SPECIFICATION PartsSpec
INVARIANTS
  PartialDataKept
