SPECIFICATION FairSpec
CONSTANTS
  None = None
  Ids = {s1}
  MaxSessions = 1
  Permits = 2
  QueueLimit = 4
  ByteLimit = 1
  Summarizer = FALSE
  PortMayDrop = TRUE
  MaxStates = 1
  MaxGeneration = 2
  MaxEpoch = 0
  MaxMessages = 1
  MaxContent = 0
PROPERTIES
  BusySessionsGetFree
CHECK_DEADLOCK FALSE
