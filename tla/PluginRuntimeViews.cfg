SPECIFICATION Spec
CONSTANTS
  None = None
  Ids = {s1}
  MaxSessions = 1
  Permits = 1
  QueueLimit = 2
  ByteLimit = 1
  Summarizer = FALSE
  PortMayDrop = TRUE
  MaxStates = 1
  MaxGeneration = 2
  MaxEpoch = 1
  MaxMessages = 2
  MaxContent = 1
INVARIANTS
  ViewMatchesEpoch
CHECK_DEADLOCK FALSE
