\* Three threads and two durations; begins, and resets that overlap calls or find none.  Kernels are
\* refused and the clock fails.
SPECIFICATION Spec
CONSTANTS
  Threads = {t1, t2, t3}
  Controllers = {java}
  ControlOps = {"begin", "reset"}
  EventArgs = {TRUE}
  Durations = {1, 2}
  VendorTables <- CompleteTable
  Faults = {"enqueue", "clock"}
  Errors = {"FAILED"}
  MaxCalls = 1
  MaxControls = 3
SYMMETRY ThreadSymmetry
INVARIANTS
  CountsAgree
  MaxWaitIsExact
CHECK_DEADLOCK FALSE
