SPECIFICATION WritersSpec
CONSTANTS
  Clients = {a, b}
  MaxCalls = 3
  MaxRetries = 2
  QueueLength = 2
  Runs = {r1, r2}
  Resolution = 7
  RangeMin = 0
  RangeMax = 6
  Margin = 40
  Expected = 0
  Joints = {j1, j2}
  Lead = 3
  Soft = 1
  Velocity = 1
  Acceleration = 1
  Jerk = 1
  Full = 2
  Recovery = 1
  Threshold = 1
  NoResponseTimeout = 3
  OppositeTimeout = 2
  TickPeriod = 1
  RangeLow = 1
  RangeHigh = 2
  Gross = 1
  JumpLimit = 1
  Positions = {0, 2}
  Wanted <- SlowOrFast
  Targets = {0}
  Contexts = {1}
  MaxGap = 2
INVARIANTS
  WritersTypeOK
  JointSafe
  TargetWithinReach
PROPERTIES
  PolicyAnswers
  TargetsGentle
SYMMETRY EitherOne
CHECK_DEADLOCK FALSE
