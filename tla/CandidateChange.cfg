\* Two steps of the user, three controller actions and a crash.
CONSTANTS
  p1 = p1
  p2 = p2
  q = q
  Paths <- ThreePaths
  Changed <- TwoChanged
  MaxEdits = 2
  MaxOps = 3
  MaxCrashes = 1
SYMMETRY Alike
SPECIFICATION Spec
INVARIANTS
  ReportsAreTrue
PROPERTIES
  UserStateKept
  WorktreesOwned
CHECK_DEADLOCK FALSE
