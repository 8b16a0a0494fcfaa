SPECIFICATION ControlSpec
CONSTANTS
  ChunkSize = 2
  Spacing = 1
  MaxChunkAge = 9
  MaxTime = 4
  MaxSequence = 0
  MaxChunks = 1
  MaxRequests = 9
  InitialSequence = 0
  RebaseToPublication = FALSE
  MaxContributors = 1
  Lookahead = 0
  HoldPolicy = "HOLD_LAST_COMMANDED"
  HoldTimeout = 1
  DegradedThreshold = 1
INVARIANTS
  HoldTimesOut
