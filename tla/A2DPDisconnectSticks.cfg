CONSTANTS
  Addresses = {a1}
  NoAddress = none
  MediaRetries = 0
SPECIFICATION Spec
PROPERTY
  DisconnectSticks
