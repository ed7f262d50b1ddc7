CONSTANTS
  MaxCalls = 2
  MaxReplies = 1
  MaxEvents = 0
  MaxQueue = 2
  MaxDepth = 3
  Messages = {m1, m2}
  Handlers = {h1}
  Usage <- Abusive
SPECIFICATION Spec
INVARIANT TypeOK
INVARIANT HeardOnce
INVARIANT HandlerRestored
INVARIANT RunningCallbackInPlace
\* The client may stop for good, or wait for an event that never comes.
CHECK_DEADLOCK FALSE
