CONSTANTS
  QueueBound = 1
  Faults = {}
SPECIFICATION Spec
INVARIANT RefusedStartHasNoThread
CHECK_DEADLOCK FALSE
