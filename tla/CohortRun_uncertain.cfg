CONSTANTS
  N = 1
  Workers = {w1}
  NoWorker = none
  MaxContributions = 0
  PublisherBound = FALSE
  ArmConfigured = FALSE
  WallLimit = FALSE
  Faults = {"disk", "uncertain"}
SPECIFICATION Spec
INVARIANT UncertainScanMakesUnsafe
CHECK_DEADLOCK FALSE
