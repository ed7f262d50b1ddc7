CONSTANTS
  MaxCalls = 1
  MaxReplies = 1
  MaxEvents = 0
  MaxQueue = 2
  MaxDepth = 1
  Messages = {m1, m2}
  Handlers = {h1}
  Usage <- Failing
SPECIFICATION FairSpec
PROPERTY EveryCallReturns
\* The client may stop for good, or wait for an event that never comes.
CHECK_DEADLOCK FALSE
