SPECIFICATION Spec
CONSTANTS
  k1 = k1  k2 = k2  v1 = v1  v2 = v2  none = none
  Keys <- TwoKeys
  Values <- TwoValues
  Absent <- none
  MaxChanges = 3
  MaxQueue = 3
  MaxWatchers = 2
  Usage <- Early
INVARIANT NoUseAfterFree
CHECK_DEADLOCK FALSE
