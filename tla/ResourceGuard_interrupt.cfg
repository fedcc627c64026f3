CONSTANTS
  Sessions = {s1, s2}
  Profiles <- WarningProfile
  MaximumWarnings = 1
  ScansFail = FALSE
SPECIFICATION Spec
INVARIANT WarningsDoNotInterrupt
CHECK_DEADLOCK FALSE
