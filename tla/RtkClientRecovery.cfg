SPECIFICATION FairSpec
CONSTANTS
  MaxPending = 2
  MaxQueuedBytes = 2
  FrameBytes = {1}
  LateReplyRing = 1
  StreakLimit = 2
  MaxRestartAttempts = 1
  MaxCalls = 2
  MaxSpawns = 3
  MaxNoise = 1
INVARIANTS
  OneChild
  OneRecoveryOwner
  ShutdownReaps
PROPERTIES
  SlotIsFreed
  RecoversOrBreaks
CHECK_DEADLOCK FALSE
