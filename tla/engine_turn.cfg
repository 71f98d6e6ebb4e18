SPECIFICATION FairSpec
CONSTANTS
  Tools = {"calculator", "current_time", "write_file", "todo_add"}
  Exclusive = {"write_file", "todo_add"}
  Gated = {"write_file"}
  Unknown = "no_such_tool"
  Logs <- MCLogs
  Replies <- MCReplies
  MaxRounds = 2
  PoolSize = 2
INVARIANTS
  TypeOK
  Barrier
  EachCallOnce
  WellFormedOutside
PROPERTIES
  TurnEnds
  ImplementsToolLoop
