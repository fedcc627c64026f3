CONSTANTS
  a = a  b = b  x = x  t1 = t1  t2 = t2
  Nobody = nobody
  Launch = {a, b}
  Others = {x}
  Admitters = {a, x}
  Tasks = {t1, t2}
  Author <- MCAuthor
  Depends <- MCDepends
  Leases = {2}
  Texts = {1}
  Base <- MCBase
  MaxLedger = 7
  Faults = {"publish", "drift"}
SPECIFICATION Spec
INVARIANTS LeaseExclusive DependenciesFirst NeverExpiresEarly ReleaseIsComplete
PROPERTY ImplementsWorklist
CHECK_DEADLOCK FALSE
