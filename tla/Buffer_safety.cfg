SPECIFICATION Spec
CONSTANTS
  Capacity = 7
  Byte = {0, 1, 2}
  Payload <- MCPayload
  MaxFrames = 3
  unknown = unknown
INVARIANTS
  WindowInside
  FramesIntact
PROPERTY
  ReadsOldest
