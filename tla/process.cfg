SPECIFICATION FairSpec
CONSTANTS
  Modes = {"sync", "background"}
  MaxChunks = 3
  PipeSize = 2
  MaxReads = 2
INVARIANTS
  TypeOK
  KillsOwn
  OutputOnce
  CodeTold
PROPERTIES
  CallReturns
