SPECIFICATION TestsFairSpec
INVARIANTS
  TestsTypeOK
  PassMeansBothWays
  LeavesNothingOpen
PROPERTIES
  HostHearsOfLoss
  TestsEnd
