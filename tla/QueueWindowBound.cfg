\* Two threads share one slot and two queues; resets, evictions and driver faults.
SPECIFICATION Spec
CONSTANTS
  Threads = {t1, t2}
  Queues = {q1, q2}
  NoQueue = NoQueue
  Slots = 1
  Windows = {0, 2}
  Faults = {"enqueue", "wait"}
  MaxCalls = 6
  MaxControls = 2
SYMMETRY WindowSymmetry
INVARIANTS
  TypeOK
  QueueBounded
CHECK_DEADLOCK FALSE
