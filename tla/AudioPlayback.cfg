CONSTANTS
  Capacity = 20
  HeaderBytes = 1
  BlockSamples = 2
  PrebufferBlocks = 2
  Payloads = {good, bad}
  Good = {good}
  NoPayload = none
  NoBlock = noBlock
  MaxFrames = 2
SPECIFICATION FairSpec
INVARIANTS
  OldStreamSilent
PROPERTIES
  ImplementsPacketQueue
  CallbackEnds
  StreamHeard
