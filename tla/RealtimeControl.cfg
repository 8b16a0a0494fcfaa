SPECIFICATION ControlSpec
CONSTANTS
  ChunkSize = 4
  Spacing = 1
  MaxChunkAge = 9
  MaxTime = 3
  MaxSequence = 2
  MaxChunks = 2
  MaxRequests = 9
  InitialSequence = 0
  RebaseToPublication = FALSE
  MaxContributors = 2
  Lookahead = 0
  HoldPolicy = "NO_WRITE"
  HoldTimeout = 1
  DegradedThreshold = 1
INVARIANTS
  ControlTypeOK
  WorkerAccounts
  RejectedNeverContributes
  QuarantineBounded
  AtMostOneWriteAfterStop
  StoppedIsQuiet
PROPERTIES
  ImplementsCommandStream
