CONSTANTS
  MaxCalls = 3
  MaxFound = 1
  MaxPending = 2
SPECIFICATION FairSpec
INVARIANTS
  ConsoleInvariant
  OwnAnswer
  ScanListsAll
PROPERTIES
  AnswerNotReused
  WaitEnds
CHECK_DEADLOCK FALSE
