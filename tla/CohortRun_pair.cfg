CONSTANTS
  N = 2
  Workers = {w1, w2}
  NoWorker = none
  MaxContributions = 1
  PublisherBound = FALSE
  ArmConfigured = TRUE
  WallLimit = FALSE
  Faults = {"ledger", "build", "stop", "disk", "tree", "uncertain"}
SPECIFICATION Spec
INVARIANTS SettledIsQuiet LostWorkIsFlagged
PROPERTY ImplementsContract
CHECK_DEADLOCK FALSE
