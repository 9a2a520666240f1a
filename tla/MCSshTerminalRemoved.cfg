CONSTANTS
  Terminals = {t1}
  MaxAttempts = 2
SPECIFICATION Spec
INVARIANT RemovedPaneStopsShell
CHECK_DEADLOCK FALSE
