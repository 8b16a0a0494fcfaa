SPECIFICATION ModesSpec
CONSTANTS
  ChunkSize = 3
  Spacing = 1
  MaxChunkAge = 9
  MaxSequence = 1
  MaxChunks = 2
  MaxContributors = 2
  Lookahead = 0
  HoldPolicy = "NO_WRITE"
  HoldTimeout = 1
  DegradedThreshold = 1
  ContinuousTime = 2
  SequentialTime = 4
  Unlimited = 9
INVARIANTS
  LoopWithinSession
  OnlyTheAdmittedChunk
  ReturnsUndisturbed
PROPERTIES
  ShutdownEnds
  SessionUsesControl
