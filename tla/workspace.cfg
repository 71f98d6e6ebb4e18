SPECIFICATION FairSpec
CONSTANTS
  Paths = {"project", "cwd", "own"}
  Project = "project"
  Cwd = "cwd"
  FirstSaved <- MCSaved
  MaxHandles = 2
  MaxEnds = 2
  MaxLaunches = 2
  MaxChanges = 2
INVARIANTS
  TypeOK
  ProcessesOfWorkspace
  OneWorkspace
PROPERTIES
  ProcessesKept
  ChangeReturns
