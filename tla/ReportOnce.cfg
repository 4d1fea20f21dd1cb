\* One run over four pages, one file listed twice, one invalid entry, two workers.
CONSTANTS
  a = a
  b = b
  c = c
  Paths = {a, b, c}
  Listing <- ListingTwice
  Workers = 2
  QueueCap = 1
  FutureCap = 2
  MaxRetries = 1
  SavesFail = FALSE
  MaxRuns = 1
SPECIFICATION Spec
INVARIANTS
  TypeOK
  CompleteIsComplete
  EveryFileReportedOnce
  NothingListedIsLost
