CONSTANTS
  Contents <- ContentsOf
  Crc <- CrcOf
  MaxPayload = 12
  Noise = {0, 1, 12, 85, 170, 255}
  MaxFaults = 2
SPECIFICATION LineSpec
INVARIANTS
  LineTypeOK
  UndamagedArrives
  LossBounded
PROPERTIES
  ImplementsLossyLine
