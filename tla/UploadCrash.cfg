\* Two files with one content and two runs: a crash at any step, the folder uploaded
\* again, progressive recovery or simple retry rounds, orphans removed at the end.
CONSTANTS
  A = A
  B = B
  x = x
  y = y
  NFiles = 2
  Lfs = {1, 2}
  Oids = {A}
  Oid <- Oid2
  Orphans = {x, y}
  MaxWorkers = 2
  BatchCap = 1
  MaxFailures = 2
  Recoveries = {TRUE, FALSE}
  MaxRounds = 2
  Sync = TRUE
  MaxRuns = 2
SPECIFICATION FairSpec
INVARIANTS
  PointerHasBlob
  CommittedIsRemote
  DoneMeansCommitted
PROPERTIES
  SyncOnlyWhenComplete
  CommittedNeverForgotten
  ImplementsContract
  RunEnds
