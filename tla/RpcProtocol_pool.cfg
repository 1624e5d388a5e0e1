SPECIFICATION ProtocolFairSpec
CONSTANTS
  client = client
  server = server
  Node <- MCNode
  Volatile <- MCVolatile
  Retry = 2
  MaxId = 1
  MaxCalls = 2
  MaxRestarts = 1
  BuffersPerChunk = 1
  MaxAvailable = 3
INVARIANTS
  OneOwner
  NoneLost
  NoDanglingControl
  AnswerFromSameId
PROPERTIES
  EventuallyCompletes
  EventuallyFreed
  ReplyWindowCloses
CHECK_DEADLOCK FALSE
