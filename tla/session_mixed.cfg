SPECIFICATION Spec
CONSTANTS
  Sessions = {s1, s2}
  Ops = {"enter", "session"}
  Faults = {}
  Batches <- MCSkill
  Mixtures <- MCRoam
  MaxSends = 1
  MaxSaves = 0
  MaxRounds = 2
  Threshold = 6
  KeepTail = 2
INVARIANTS
  SessionsApart
