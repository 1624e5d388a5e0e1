SPECIFICATION Spec
CONSTANTS
  client = client
  server = server
  Node <- MCNode
  Volatile <- MCNobody
  Retry = 3
  MaxId = 2
  MaxCalls = 1
  MaxRestarts = 0
INVARIANT
  CompletesAtMostOnce
CHECK_DEADLOCK FALSE
