SPECIFICATION Spec
CONSTANTS
  BatchSize = 2
  MaxBatches = 4
  gone = gone
INVARIANTS
  TypeOK
  DeliveredInOrder
  NothingStranded
  NewestDelivered
  HandlerMayStop
CHECK_DEADLOCK FALSE
