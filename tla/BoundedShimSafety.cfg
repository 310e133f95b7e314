\* Two threads, a call each with or without an event, every fault; inference begins, ends and
\* begins again, or is reset, while they are in their calls.
SPECIFICATION Spec
CONSTANTS
  Threads = {t1, t2}
  Controllers = {java}
  ControlOps = {"begin", "end", "reset"}
  EventArgs = {TRUE, FALSE}
  Durations = {1}
  VendorTables <- PartialTables
  Faults = {"enqueue", "wait", "release", "clock"}
  Errors = {"FAILED", "INVALID_OPERATION"}
  MaxCalls = 1
  MaxControls = 3
SYMMETRY ThreadSymmetry
INVARIANTS
  TypeOK
  SuccessMeansFinished
  BoundaryEventReleased
  CallerEventKept
  InvalidMeansUnresolved
CHECK_DEADLOCK FALSE
