CONSTANTS
  BatchLimit = 2
  MaxNetworks = 3
  Capacity = 6
  CommandEvents = 1
  ServiceEvents = 6
SPECIFICATION FairAppSpec
INVARIANTS
  LoopInvariant
  NothingLostOnceCaughtUp
PROPERTIES
  DoneCountsNetworks
  HostLearnsLink
  EventsLeave
