CONSTANTS
  N = 2
  Workers = {w1}
  NoWorker = none
  MaxContributions = 2
  PublisherBound = TRUE
  ArmConfigured = TRUE
  WallLimit = TRUE
  Faults = {"write", "ledger", "build", "stop", "disk", "tree", "uncertain", "cancel"}
SPECIFICATION FairSpec
INVARIANTS TypeOK PublicationsAccounted StoreAgrees SettlementAgrees SlotsBounded
PROPERTIES NoStartAfterUnknown Settles StopDrains
CHECK_DEADLOCK FALSE
