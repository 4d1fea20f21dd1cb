\* One run over three files, the first two with one content, the third inline:
\* every order of two workers, of the batches and of the recovery commits.
CONSTANTS
  A = A
  B = B
  x = x
  y = y
  NFiles = 3
  Lfs = {1, 2}
  Oids = {A}
  Oid <- Oid3
  Orphans = {}
  MaxWorkers = 2
  BatchCap = 2
  MaxFailures = 2
  Recoveries = {TRUE}
  MaxRounds = 1
  Sync = FALSE
  MaxRuns = 1
SPECIFICATION Spec
INVARIANTS
  TypeOK
  FilesAccountedFor
