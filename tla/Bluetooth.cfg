CONSTANTS
  MaxEntries = 2
  BatchLimit = 1
  Capacity = 7
SPECIFICATION FairSpec
INVARIANTS
  ControllerInvariant
  DoneCounts
  BurstFits
PROPERTIES
  ClassicReports
  BleReports
