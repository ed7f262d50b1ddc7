SPECIFICATION MCSpec
CONSTANTS
  x = x  y = y  z = z  c1 = c1  c2 = c2  c3 = c3  null = null  unborn = unborn
  o1 = o1  o2 = o2  o3 = o3  o4 = o4
  Vars <- ThreeVars
  Cells <- ThreeCells
  Null <- null
  Unborn <- unborn
  MaxHeld = 2
  Objects <- FourObjects
  Matching <- TwoMatching
  MaxChanges = 3
  Usage <- Careless
SYMMETRY Symmetry
INVARIANT HandlesTypeOK
INVARIANT CountIsOwners
INVARIANT NeverCrashes
INVARIANT OneOwner
INVARIANT TypeOK
INVARIANT InOrder
INVARIANT AllVisited
CHECK_DEADLOCK FALSE
