SPECIFICATION FairSpec
CONSTANTS
  Sessions = {s1}
  Ops = {"click"}
  Faults = {}
  Batches <- MCDanger
  Mixtures <- MCStop
  MaxSends = 1
  MaxSaves = 0
  MaxRounds = 2
  Threshold = 6
  KeepTail = 2
PROPERTIES
  StopReturns
CHECK_DEADLOCK FALSE
