CONSTANTS
  Terminals = {t1, t2}
  MaxAttempts = 2
SPECIFICATION Spec
INVARIANT ActiveMatchesOpen
SYMMETRY Symmetry
CHECK_DEADLOCK FALSE
