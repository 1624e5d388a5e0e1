SPECIFICATION Spec
CONSTANTS
  Id = {1, 258}
  Content <- MCContent
  Stream <- MCStream
  null = null
INVARIANT
  FedAsSent
