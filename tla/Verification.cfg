CONSTANTS
  Importers = {i1}
  Legacy = {"nn"}
  Materializers = {m1, m2}
  Nobody = nobody
  Kits = {k1, k2}
  MaxInvocations = 2
  Accepted = {"nn"}
  MaxCalls = 2
  MaxTroubles = 1
SPECIFICATION FairSpec
INVARIANTS TypeOK ReceiptIsTrue DocumentsAreBacked CountIsHonest RacersAgree
PROPERTY EveryCallReturns
CHECK_DEADLOCK FALSE
