\* Two runs over two files, one of which may be queued behind the other.
CONSTANTS
  a = a
  b = b
  c = c
  Paths = {a, b}
  Listing <- ListingBoth
  Workers = 1
  QueueCap = 1
  FutureCap = 2
  MaxRetries = 1
  SavesFail = FALSE
  MaxRuns = 2
SPECIFICATION Spec
PROPERTIES
  IsolatedUntilReset
