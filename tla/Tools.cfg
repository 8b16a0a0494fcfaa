SPECIFICATION ToolsSpec
CONSTANTS
  DiagJoints = {d1, d2}
  DiagEnd = 1
  DiagLeaderAt = {0, 1, 2}
  ResumeAfter = 2
  MaxAsked = 4
  Apart = 1
  ApartFor = 2
  SatWindow = 2
  Moving = 2
  Still = 1
  SignMemory = 2
  SignWindow = 2
  SignCount = 2
  SignStep = 1
  OffWindow = 3
  OffSamples = 3
  OffPoses = 2
  OffSpread = 0
  Steps = {1, 2}
  LeaderAngles = {0, 2}
  FollowerAngles = {0, 2}
  MaxSamples = 6
  TeleopCommands = {0, 2}
  TeleopSteps = {1, 2}
  MaxDelta = 1
  MaxJump = 1
  Noise = 2
  Lookahead = 2
  Stationary = 1
  MaxCycles = 3
  NumEpisodes = 2
  SyncSeconds = 0
  ResetSeconds = 1
  MaxTakes = 2
  MaxSessions = 2
  HistorySize = 2
  Quarantines = {0, 1}
  MaxTicks = 4
  LiftWindow = 1
  Secured = 2
  MaxArmSteps = 5
  MaxCubeSteps = 5
  NoPosition = NoPosition
  CtlValues = {0, 1, 2, 3}
  Delay = 1
  SoftLimit = 1
  Deadband = 1
  CtlEnd = 3
  ShadowJoints = {w, g}
  Wrist = w
  Gripper = g
  Lo = 8
  Hi = 10
  MaxStep = 1
  GrossRange = 3
  GrossStep = 2
  Shut = 8
  Tiny = 1
  States = {7, 8, 9, 11}
  Answers = {1, 6, 7, 8, 10, 12, 17}
  EpisodeLength = 3
  Targets = {0, 1, 3, 4, 6}
  RangeLo = 1
  RangeHi = 3
  Tolerance = 1
  FrameDelta = 1
  ChunkLength = 2
  Chunks = 2
  RollSteps = 3
  Rollouts = 2
  Poses = {8, 10}
  Wishes = {8, 9, 12, 17}
  ShtAngles = {0, 1, 2}
  AbortAt = 1
  FixedAt = 0
  AccelEvery = 2
  ShtDuration = 3
  Versions = {0, 1}
  AsExpected = {0, 1}
  MaxChanges = 1
  MaxBuilds = 3
INVARIANTS
  ToolsTypeOK
  Diagnosed
  TeleopsSafe
  RecordsTrue
  SimulationsTrue
CHECK_DEADLOCK FALSE
