\* Window 2, graphs of up to five batches, with and without a blocking read between runs.
SPECIFICATION FairSpec
CONSTANTS
  Window = 2
  MaxBatches = 5
  Drains = {TRUE, FALSE}
  Faults = {"add", "event", "wait"}
  MaxDispatches = 3
INVARIANTS
  TypeOK
  DispatchWithinWindow
  QueueWithinTwoWindows
PROPERTIES
  ImplementsBoundedQueue
  DispatchReturns
CHECK_DEADLOCK FALSE
