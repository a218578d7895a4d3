SPECIFICATION FairSpec
CONSTANTS
  None = None
  Ids = {s1}
  MaxSessions = 1
  Permits = 2
  QueueLimit = 3
  ByteLimit = 1
  Summarizer = TRUE
  PortMayDrop = TRUE
  MaxStates = 1
  MaxGeneration = 2
  MaxEpoch = 0
  MaxMessages = 1
  MaxContent = 0
INVARIANTS
  WorkExact
PROPERTIES
  WorkEnds
CHECK_DEADLOCK FALSE
