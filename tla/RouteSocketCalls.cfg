SPECIFICATION Spec
CONSTANTS
  a1 = a1  a2 = a2  l1 = l1  r1 = r1
  Addresses <- TwoAddresses
  Links <- OneLink
  Routes <- OneRoute
  MaxCalls = 3
  MaxChanges = 2
  Usage <- Members
INVARIANT TypeOK
INVARIANT ResultIsTheEffect
INVARIANT NoAnswerLeft
CHECK_DEADLOCK FALSE
