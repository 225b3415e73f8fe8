CONSTANTS
  Addresses = {a1}
  NoAddress = none
  MediaRetries = 1
SPECIFICATION Spec
INVARIANTS
  SessionInvariant
  OutcomeAfterCleanup
  SilentWithoutLink
PROPERTIES
  ImplementsSession
