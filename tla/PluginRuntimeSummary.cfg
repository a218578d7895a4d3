SPECIFICATION FairSpec
CONSTANTS
  None = None
  Ids = {s1}
  MaxSessions = 1
  Permits = 1
  QueueLimit = 2
  ByteLimit = 1
  Summarizer = FALSE
  PortMayDrop = FALSE
  MaxStates = 1
  MaxGeneration = 1
  MaxEpoch = 0
  MaxMessages = 1
  MaxContent = 1
INVARIANTS
  NoStaleSummary
CHECK_DEADLOCK FALSE
