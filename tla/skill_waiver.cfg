SPECIFICATION Spec
CONSTANTS
  Sessions = {s1}
  Ops = {"enter"}
  Faults = {}
  Batches <- MCSkill
  Mixtures <- MCNone
  MaxSends = 1
  MaxSaves = 0
  MaxRounds = 2
  Threshold = 6
  KeepTail = 2
PROPERTIES
  SkillEndsWaiver
