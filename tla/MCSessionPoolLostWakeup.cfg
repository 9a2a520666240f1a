CONSTANTS
  Callers = {c1, c2, c3}
  MaxConnects = 2
SPECIFICATION Spec
INVARIANT WaitersRerun
CHECK_DEADLOCK FALSE
