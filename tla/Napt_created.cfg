SPECIFICATION Spec
CONSTANTS
  s1 = s1
  s2 = s2
  null = null
  Server <- MCServer
  Client <- MCClient
  ClientPort = {1, 2}
  Ranges <- MCRanges
  MaxPort = 3
INVARIANT
  CreatedIsOwn
