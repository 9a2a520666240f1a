CONSTANTS
  MaxConcurrent = 2
  MaxTasks = 3
SPECIFICATION Spec
INVARIANT DeclinedCloseKeepsClient
CHECK_DEADLOCK FALSE
