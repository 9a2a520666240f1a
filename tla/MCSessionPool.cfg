CONSTANTS
  Callers = {c1, c2}
  MaxConnects = 3
SPECIFICATION FairSpec
INVARIANT SingleConnector
INVARIANT NoStaleHandout
PROPERTY ImplementsSharedSession
PROPERTY SubscriberReleased
CHECK_DEADLOCK FALSE
