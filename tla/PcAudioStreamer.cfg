CONSTANTS
  Capacity = 2
  MaxStreams = 2
  MaxBlocks = 3
SPECIFICATION FairSpec
INVARIANTS
  StreamerInvariant
  LossesCounted
PROPERTIES
  ThreadsEnd
