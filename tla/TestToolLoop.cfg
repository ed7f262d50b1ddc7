SPECIFICATION FairSpec
CONSTANTS
  k1 = k1
  Keys <- OneKey
  MaxLines = 3
  MaxChanges = 1
  Usage <- Failing
INVARIANT TypeOK
INVARIANT DoneBeforeEvents
INVARIANT NothingLostAtExit
PROPERTY EveryLineAnswered
PROPERTY EveryEventPrinted
\* The tester may stop writing for good, and the tool exits.
CHECK_DEADLOCK FALSE
