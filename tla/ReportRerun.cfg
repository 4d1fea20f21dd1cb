\* A directory, a file and three runs: crashes, interrupts, retries on request, a
\* changed file, and tracker writes that fail; every run that is not killed ends.
CONSTANTS
  a = a
  b = b
  c = c
  Paths = {a, b}
  Listing <- ListingSolo
  Workers = 1
  QueueCap = 1
  FutureCap = 2
  MaxRetries = 1
  SavesFail = TRUE
  MaxRuns = 3
SPECIFICATION FairSpec
PROPERTIES
  BudgetIsDurable
  IsolatedWhileRunning
  RunEnds
