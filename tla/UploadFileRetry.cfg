\* One call, repeated twice: a busy site, and the file sent again.
CONSTANTS
  MaxRetries = 3
  MaxCalls = 1
SPECIFICATION Spec
INVARIANT StoredWhole
