SPECIFICATION Spec
CONSTANTS
  o1 = o1  o2 = o2  o3 = o3  o4 = o4
  Objects <- FourObjects
  Matching <- TwoMatching
  MaxChanges = 0
  Usage <- Empty
INVARIANT NoUndefined
CHECK_DEADLOCK FALSE
