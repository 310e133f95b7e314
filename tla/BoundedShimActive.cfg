\* One thread and two controllers.
SPECIFICATION Spec
CONSTANTS
  Threads = {t1}
  Controllers = {java1, java2}
  ControlOps = {"begin", "end", "reset"}
  EventArgs = {TRUE}
  Durations = {1}
  VendorTables <- CompleteTable
  Faults = {}
  Errors = {"FAILED"}
  MaxCalls = 1
  MaxControls = 3
PROPERTIES
  ActiveSubmissionsWait
CHECK_DEADLOCK FALSE
