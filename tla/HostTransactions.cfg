CONSTANTS
  info = info
  status = status
  Commands = {info, status}
  Retries <- RetriesOf
  Modulus = 2
  MaxCalls = 3
SPECIFICATION FairSpec
INVARIANTS
  OwnUnlessOverdue
PROPERTIES
  CallEnds
