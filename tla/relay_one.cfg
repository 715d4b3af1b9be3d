CONSTANTS
  DevKit = {2}
  QueueSize = 2
  Retention = 1
  Presplit = FALSE
  Names <- OwnNames
  Audiences <- WholeAudience
  MonitorMayStall = TRUE
  MaxTime = 2
  MaxFrame = 2
  MaxControl = 3
  MaxSession = 2
  MaxEvent = 0
SPECIFICATION Spec
INVARIANTS TypeOK ControlOrder ViewBehindCache LastControlWins InitialFrameNotLost
PROPERTIES ControlsReachSimulatorInOrder FramesInOrder
