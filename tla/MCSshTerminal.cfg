CONSTANTS
  Terminals = {t1}
  MaxAttempts = 3
SPECIFICATION FairSpec
INVARIANT ConnectedIffBackend
INVARIANT ShellsOwned
INVARIANT ActiveMatchesOpen
INVARIANT ConnectingIsUnderWay
PROPERTY ImplementsOneLink
PROPERTY StuckOnlyInDial
PROPERTY EndOfShellNoticed
CHECK_DEADLOCK FALSE
