SPECIFICATION Spec
CONSTANTS
  Inside = {"in", "new"}
  Outside = {"out"}
  Lost = {"lost"}
  ReadCap = 3
  Accepts <- Valid
  Names = {"plan", "other"}
  Roots <- MCRoots
  Disks <- MCDisks
  FirstFiles <- MCFiles
  Batches <- MCBatches
  PoolSize = 2
  MaxBatches = 2
  MaxChanges = 1
INVARIANTS
  InTurn
  PanelCurrent
  SkillsAsAnnounced
