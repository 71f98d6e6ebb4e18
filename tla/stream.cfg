SPECIFICATION Spec
CONSTANTS
  Letters = {"{", "a", "b"}
  Replies <- MCReplies
  MaxText = 2
  MaxNoise = 1
  Window = 4
  MaxEndpoints = 2
INVARIANTS
  CallsWhole
  NothingMissing
