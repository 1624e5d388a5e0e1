SPECIFICATION TimedSpec
CONSTANTS
  client = client
  server = server
  Node <- MCNode
  Volatile <- MCServer
  Retry = 4
  MaxId = 1
  MaxCalls = 1
  MaxRestarts = 1
  Period = 5
  Delays = {2, 4}
  Lags = {0, 1}
INVARIANTS
  AtMostOnce
  HeardOnce
  EndsInTime
PROPERTY
  NoRunAfterTimeout
CHECK_DEADLOCK FALSE
