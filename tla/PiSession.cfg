CONSTANTS
  QueueBound = 1
  Faults = {"evidence", "channel", "observer", "discovery"}
SPECIFICATION FairSpec
INVARIANTS TypeOK FinalityInOrder AnswerLeavesNothingBehind SuccessIsProven
PROPERTIES ImplementsBackend CallsComeBack
CHECK_DEADLOCK FALSE
