\* Two processes whose cache directories, and so their locks, differ.
CONSTANTS
  p = p
  q = q
  i1 = i1
  i2 = i2
  i3 = i3
  Procs = {p, q}
  Locks = {"lock", "other"}
  LockOf <- TwoLocks
  Inodes = {i1, i2, i3}
  Length <- Objects
  Copies = {"stale"}
  Leftovers <- Partials
  Profiles <- Hashed
  MaxRetries = 1
  HashTries = 2
  SizeTries = 2
  MaxRestarts = 0
SPECIFICATION Spec
PROPERTIES
  ReturnedIsGood
