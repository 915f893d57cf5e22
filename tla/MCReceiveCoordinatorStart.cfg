SPECIFICATION CoordinatorSpec
CONSTANTS
  WorkerBatches = 2
  QueueBatches = 2
  SlotUnits = 2
  MaxUnits = 4
  MaxStarts = 2
  MaxProcs = 2
INVARIANT InputOnlyWhileReceiving
CHECK_DEADLOCK FALSE
