\* Two processes and one lock; a crash or a deadline at any step.
CONSTANTS
  p = p
  q = q
  i1 = i1
  i2 = i2
  i3 = i3
  Procs = {p, q}
  Locks = {"lock"}
  LockOf <- OneLock
  Inodes = {i1, i2, i3}
  Length <- Objects
  Copies = {"stale"}
  Leftovers <- Partials
  Profiles <- Given
  MaxRetries = 1
  HashTries = 2
  SizeTries = 2
  MaxRestarts = 1
SPECIFICATION FairSpec
INVARIANTS
  TypeOK
  OnlyGoodInPlace
  ForcedNeverMissing
  OneWriter
PROPERTIES
  ReturnedIsGood
  CallEnds
