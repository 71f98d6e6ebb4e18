SPECIFICATION PanelSpec
CONSTANTS
  s1 = s1
  s2 = s2
  s3 = s3
  Ids = {s1, s2, s3}
  NoSession = NoSession
  Times = {1, 2}
  Texts = {"whole", "cut"}
  MaxTurns = 2
  MaxFaults = 2
INVARIANTS
  TypeOK
  NothingForgotten
  CreatedStable
  LogsApart
  SidebarCurrent
SYMMETRY IdSymmetry
