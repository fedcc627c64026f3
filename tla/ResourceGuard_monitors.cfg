CONSTANTS
  Sessions = {s1, s2}
  Profiles <- BothProfiles
  MaximumWarnings = 1
  ScansFail = TRUE
SPECIFICATION FairSpec
INVARIANT LastWord
PROPERTIES ImplementsGuard BreachIsFound
CHECK_DEADLOCK FALSE
