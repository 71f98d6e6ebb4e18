SPECIFICATION FairSpec
CONSTANTS
  Sessions = {s1, s2}
  Ops = {"enter", "click", "session", "workspace", "settings", "quit"}
  Faults = {"throw", "report"}
  Batches <- MCSkill
  Mixtures <- MCOneKind
  MaxSends = 2
  MaxSaves = 1
  MaxRounds = 2
  Threshold = 6
  KeepTail = 2
INVARIANTS
  TypeOK
  SettingsReachRun
  OneQuestion
  LogSaved
  LogOwnership
  StreamRow
  SummaryFits
PROPERTIES
  ClientKept
  SkillAsks
  WorkspaceStill
  TakesTurns
CHECK_DEADLOCK FALSE
