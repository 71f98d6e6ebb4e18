SPECIFICATION Spec
CONSTANTS
  Sessions = {s1, s2}
  Ops = {"enter"}
  Faults = {}
  Batches <- MCBatches
  Mixtures <- MCNone
  MaxSends = 2
  MaxSaves = 0
  MaxRounds = 2
  Threshold = 6
  KeepTail = 2
INVARIANTS
  PairsWhole
