\* One thread, one queue, a driver that may refuse a kernel.
SPECIFICATION Spec
CONSTANTS
  Threads = {t1}
  Queues = {q1}
  NoQueue = NoQueue
  Slots = 1
  Windows = {2}
  Faults = {"enqueue"}
  MaxCalls = 5
  MaxControls = 1
INVARIANTS
  DocumentedWindow
CHECK_DEADLOCK FALSE
