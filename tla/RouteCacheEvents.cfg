SPECIFICATION FairSpec
CONSTANTS
  k1 = k1  k2 = k2  v1 = v1  v2 = v2  none = none
  Keys <- TwoKeys
  Values <- TwoValues
  Absent <- none
  MaxChanges = 4
  MaxQueue = 3
  MaxWatchers = 2
  Usage <- Rough
INVARIANT TypeOK
INVARIANT CacheFollowsKernel
INVARIANT WatchersKnowCache
INVARIANT DanglesOnlyMisused
PROPERTY CacheCatchesUp
CHECK_DEADLOCK FALSE
