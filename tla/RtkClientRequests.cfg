SPECIFICATION Spec
CONSTANTS
  MaxPending = 2
  MaxQueuedBytes = 3
  FrameBytes = {1, 2}
  LateReplyRing = 1
  StreakLimit = 2
  MaxRestartAttempts = 1
  MaxCalls = 3
  MaxSpawns = 2
  MaxNoise = 2
INVARIANTS
  AdmissionExact
PROPERTIES
  LateReplyNeverStrikes
  RepliesCorrelate
CHECK_DEADLOCK FALSE
