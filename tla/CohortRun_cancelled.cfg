CONSTANTS
  N = 1
  Workers = {w1}
  NoWorker = none
  MaxContributions = 0
  PublisherBound = FALSE
  ArmConfigured = FALSE
  WallLimit = FALSE
  Faults = {"ledger", "stop"}
SPECIFICATION Spec
INVARIANT CancelledMeansCleanedUp
CHECK_DEADLOCK FALSE
