CONSTANTS
  Panes = {p1, p2, p3, p4, p5}
  MaxPanes = 4
  MaxInflight = 2
  None = None
  Observed = p1
SPECIFICATION ObservedSpec
INVARIANT SplitsAnswered
INVARIANT PaneLimit
INVARIANT SessionsHavePanes
INVARIANT DockMatchesPanes
INVARIANT OneTokenPerSource
PROPERTY RequestsSettle
CHECK_DEADLOCK FALSE
