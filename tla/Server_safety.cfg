SPECIFICATION Spec
CONSTANTS
  e1 = e1
  e2 = e2
  null = null
  Endpoint <- MCEndpoint
  Server <- MCServer
  Payload <- MCPayload
  ClientPacket <- MCClientPacket
  IfAddress <- MCIfAddress
  ClientPort = {2}
  portFrom = 1
  portTo = 1
  MaxPort = 2
  MaxSessions = 1
  SessionLimit = 2
INVARIANTS
  TypeOK
  ConnectionsNameSessions
  NeverCrashes
  WireVerifies
CHECK_DEADLOCK FALSE
