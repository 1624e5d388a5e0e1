SPECIFICATION Spec
CONSTANTS
  client = client
  server = server
  Node <- MCNode
  Volatile <- MCServer
  Retry = 3
  MaxId = 2
  MaxCalls = 2
  MaxRestarts = 1
INVARIANTS
  AnswerMatchesCall
  TimeoutExcludesAnswer
  TransmissionBound
  TimeoutMeansBudgetSpent
  MappedUntilFreed
PROPERTY
  RefinesService
CHECK_DEADLOCK FALSE
