CONSTANTS
  MaxAttempts = 2
  Sizes = {1, 2}
  QueueCap = 2
SPECIFICATION FairSpec
INVARIANT ConnectedIffBackend
INVARIANT AbandonedSessionsClosed
INVARIANT OnlyLatestDialGoesOn
INVARIANT GeometryReachesServer
PROPERTY ImplementsOneLink
PROPERTY AbandonedSessionEnds
CHECK_DEADLOCK FALSE
