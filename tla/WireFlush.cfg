\* The flush before the commit event.
CONSTANTS
  f1 = f1
  f2 = f2
  f3 = f3
  Files <- ThreeFiles
  BatchOf <- TwoBatches
  NumBatches = 2
  Moved <- AllMove
  Throttles = {TRUE}
SPECIFICATION Spec
INVARIANTS
  BatchAnnounced
