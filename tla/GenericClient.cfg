SPECIFICATION FairSpec
CONSTANTS
  wifi = wifi  other = other  conf = conf
  Families <- TwoFamilies
  Nl80211 <- wifi
  Ids = {1, 2}
  Interfaces = {1}
  Configs <- OneConfig
  BigEndian = FALSE
  MaxCalls = 2
  MaxChanges = 3
  Usage <- Rough
INVARIANT TypeOK
INVARIANT GetIsTruthful
INVARIANT ListIsTruthful
INVARIANT ResolveIsTruthful
PROPERTY EveryCallReturns
CHECK_DEADLOCK FALSE
