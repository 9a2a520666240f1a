CONSTANTS
  MaxOutput = 2
  MaxEvents = 2
  Scrolling = TRUE
SPECIFICATION FairSpec
INVARIANT RepaintUnderWay
INVARIANT EventsBeforeTheirFrame
PROPERTY ImplementsEventFeed
PROPERTY OutputPainted
 
CHECK_DEADLOCK FALSE
