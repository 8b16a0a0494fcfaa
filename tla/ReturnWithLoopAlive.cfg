SPECIFICATION SessionSpec
CONSTANTS
  ChunkSize = 3
  Spacing = 1
  MaxChunkAge = 9
  MaxTime = 4
  MaxSequence = 1
  MaxChunks = 2
  MaxRequests = 1
  InitialSequence = 1
  RebaseToPublication = TRUE
  MaxContributors = 2
  Lookahead = 0
  HoldPolicy = "NO_WRITE"
  HoldTimeout = 1
  DegradedThreshold = 1
  Mode = "sequential"
INVARIANTS
  ReturnsAlone
