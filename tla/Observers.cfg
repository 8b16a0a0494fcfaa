SPECIFICATION ObserversSpec
CONSTANTS
  StaleAfter = 1
  MaxReadErrors = 2
  MaxPolls = 3
  MaxNow = 2
  Cameras = {workspace, wrist}
  MaxSessions = 2
  StaleAge = 1
  Timeout = 1
  StallAfter = 2
  Delay = 1
  Rate = 1
  RangeEnd = 1
  Farthest = 2
  LeaderAt = {1, 2}
  MaxReadings = 2
  Keys = {k1, k2}
  ClearAfter = 2
  MaxFrames = 5
  Escalating = {k1}
  Resolution = 7
  RangeMin = 0
  RangeMax = 6
  Margin = 40
  Expected = 0
  MaxServoChanges = 1
  MaxUnread = 1
  MaxPlanned = 2
  Roots = {1, 2}
  Recordings = {"sweep", "hold"}
  Angle <- SomeAngle
  LastFrame = 3
  MinimumSamples = 3
  TrimEvery = 4
  RangeMargin = 1
  MaxDiskChanges = 2
  MaxAnalyses = 2
  SearchedCommands = {0, 1, 2, 3}
  SearchedFrames = 4
  LimitLow = 1
  LimitHigh = 2
INVARIANTS
  ObserversTypeOK
  SkewBounded
  HealthHonest
  CamerasCoherent
  ObservedTruly
PROPERTIES
  ViewerSafe
CHECK_DEADLOCK FALSE
