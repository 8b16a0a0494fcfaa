SPECIFICATION ShadowSpec
CONSTANTS
  NoPosition = NoPosition
  CtlValues = {0}
  Delay = 1
  SoftLimit = 1
  Deadband = 1
  CtlEnd = 0
  ShadowJoints = {w, g}
  Wrist = w
  Gripper = g
  Lo = 8
  Hi = 10
  MaxStep = 1
  GrossRange = 3
  GrossStep = 2
  Shut = 8
  Tiny = 1
  States = {7, 8, 9, 11}
  Answers = {1, 6, 7, 8, 10, 12, 17}
INVARIANTS
  ActionIsExecuted
CHECK_DEADLOCK FALSE
