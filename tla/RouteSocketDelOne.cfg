SPECIFICATION Spec
CONSTANTS
  a1 = a1  a2 = a2  l1 = l1  r1 = r1
  Addresses <- TwoAddresses
  Links <- OneLink
  Routes <- OneRoute
  MaxCalls = 1
  MaxChanges = 0
  Usage <- Alone
PROPERTY DeletesAllMatched
CHECK_DEADLOCK FALSE
