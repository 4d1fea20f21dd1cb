\* Two parts, two threads, a deadline or a crash at any step, and a later call; three
\* threads with two files each behind two storage routes.
CONSTANTS
  FileSize = 3
  PartSize = 2
  Versions = {"new", "stale"}
  MaxWorkers = 2
  MaxRetries = 1
  HashTries = 2
  SizeTries = 2
  MaxCalls = 2
  Threads = {t1, t2, t3}
  Routes = {r1, r2}
  Internal = {"local", "peer"}
  MaxFiles = 2
  None = None
  Shown = {"range", "region"}
SPECIFICATION PartsSpec
INVARIANTS
  TypeOK
  PartsFit
  OneProber
PROPERTIES
  CallsEnd
  RegionDecided
