SPECIFICATION CallsSpec
CONSTANTS
  client = client
  server = server
  Node <- MCNode
  Volatile <- MCVolatile
  Retry = 2
  MaxId = 1
  MaxCalls = 2
  MaxRestarts = 1
  Kinds = {"CONNECT", "PING"}
INVARIANT
  SuccessWasGiven
CHECK_DEADLOCK FALSE
