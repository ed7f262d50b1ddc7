CONSTANTS
  MaxCalls = 2
  MaxReplies = 2
  MaxEvents = 1
  MaxQueue = 2
  MaxDepth = 1
  Messages = {m1, m2}
  Handlers = {}
  Usage <- Members
SPECIFICATION FairSpec
INVARIANT OwnRepliesOnly
INVARIANT CompleteOnReturn
INVARIANT StatusIsTheAnswer
INVARIANT NothingLeftBehind
PROPERTY CallContract
\* The client may stop for good, or wait for an event that never comes.
CHECK_DEADLOCK FALSE
