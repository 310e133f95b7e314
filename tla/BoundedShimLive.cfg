\* Liveness and refinement, without symmetry: two calls of each thread, a driver that fails
\* waits, and an inference that ends while calls are going on.
SPECIFICATION FairSpec
CONSTANTS
  Threads = {t1, t2}
  Controllers = {java}
  ControlOps = {"begin", "end"}
  EventArgs = {TRUE}
  Durations = {1}
  VendorTables <- CompleteTable
  Faults = {"wait"}
  Errors = {"FAILED"}
  MaxCalls = 2
  MaxControls = 2
PROPERTIES
  ImplementsBoundedQueue
  CallsReturn
CHECK_DEADLOCK FALSE
