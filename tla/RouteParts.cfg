SPECIFICATION MCSpec
CONSTANTS
  v = v  w = w  g = g  h = h  local = local  broadcast = broadcast  dst = dst
  c1 = c1  c2 = c2  c3 = c3  null = null  inet = inet  inet6 = inet6
  Vars <- TwoVars
  Hops <- TwoHops
  Cells <- ThreeCells
  Local <- local
  Broadcast <- broadcast
  Dst <- dst
  Families <- TwoFamilies
  Lengths = {0, 1}
  Null <- null
  Width = 4
SYMMETRY Symmetry
INVARIANT TypeOK
INVARIANT CountIsHolders
INVARIANT AddressAgrees
INVARIANT ListsTheFlags
PROPERTY PartsHoldValues
PROPERTY ListingEnds
CHECK_DEADLOCK FALSE
