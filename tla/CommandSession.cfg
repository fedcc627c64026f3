CONSTANT Faults = {"adapter", "fsync"}
SPECIFICATION FairSpec
INVARIANTS AnswerLeavesNothingBehind SuccessIsClean
PROPERTIES ImplementsBackend CallsComeBack
CHECK_DEADLOCK FALSE
