SPECIFICATION ThreadsSpec
CONSTANTS
  Period = 2
  MaxLag = 4
  MaxClock = 12
  Cameras = {workspace, wrist}
  MaxSessions = 1
  SanityWindow = 1
  FatalNonproductive = 3
  FatalFaults = 3
  FatalReads = 2
  ChunkEnd = 4
  MaxRuntime = 7
  MaxDelay = 1
  ChunkLimit = 3
  Duration = 2
  SettleTicks = 2
  ChunkSize = 2
  Spacing = 1
  MaxChunkAge = 2
  MaxTime = 1
  MaxSequence = 3
  MaxChunks = 2
  ActionSteps = 2
  StageLimit = 2
  MaxServerPolls = 2
  StaleAfter = 1
  MaxReadErrors = 2
INVARIANTS
  ThreadsTypeOK
  PaceKept
  MonitorJudges
  CyclesInOrder
  BufferInvariant
  StagedSafe
PROPERTIES
  ThreadsLive
CHECK_DEADLOCK FALSE
