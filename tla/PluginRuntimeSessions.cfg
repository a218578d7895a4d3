SPECIFICATION Spec
CONSTANTS
  None = None
  Ids = {s1, s2}
  MaxSessions = 1
  Permits = 1
  QueueLimit = 3
  ByteLimit = 1
  Summarizer = FALSE
  PortMayDrop = FALSE
  MaxStates = 2
  MaxGeneration = 1
  MaxEpoch = 0
  MaxMessages = 1
  MaxContent = 0
INVARIANTS
  TypeOK
  FlagsExact
CHECK_DEADLOCK FALSE
