CONSTANTS
  Planners = {p1, p2}
  Launchers = {l1, l2}
  Sessions = {"s1", "s2"}
  Concurrency = 1
  Verdicts = {"SUCCEEDED"}
  Nobody = nobody
  PowerLosses = 1
  Reader = reader
  Crowds <- About
SYMMETRY Interchangeable
SPECIFICATION Spec
INVARIANTS TypeOK NeverHalfThere ReportedStays StatusIsAnswered
PROPERTY WriteOnce
CHECK_DEADLOCK FALSE
