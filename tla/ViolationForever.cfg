SPECIFICATION ViewerSpec
CONSTANTS
  StaleAge = 1
  Timeout = 1
  StallAfter = 2
  Delay = 1
  Rate = 1
  RangeEnd = 1
  Farthest = 2
  LeaderAt = {1, 2}
  MaxReadings = 2
PROPERTIES
  ViolationIsForEver
CHECK_DEADLOCK FALSE
