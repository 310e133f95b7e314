\* Two runs of a graph of up to three batches; the outputs of the first are not read.
SPECIFICATION Spec
CONSTANTS
  Window = 2
  MaxBatches = 3
  Drains = {FALSE}
  Faults = {}
  MaxDispatches = 2
INVARIANTS
  QueueWithinWindow
CHECK_DEADLOCK FALSE
