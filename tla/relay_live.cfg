CONSTANTS
  DevKit = {2}
  QueueSize = 1
  Retention = 1
  Presplit = FALSE
  Names <- OwnNames
  Audiences <- AnyAudience
  MonitorMayStall = FALSE
  MaxTime = 1
  MaxFrame = 2
  MaxControl = 2
  MaxSession = 1
  MaxEvent = 1
SPECIFICATION FairSpec
INVARIANTS InitialFrameNotLost
PROPERTIES ControlEventuallyMerged FrameEchoed QueueDrains
