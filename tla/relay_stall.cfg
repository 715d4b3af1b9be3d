CONSTANTS
  DevKit = {2}
  QueueSize = 1
  Retention = 1
  Presplit = FALSE
  Names <- OwnNames
  Audiences <- WholeAudience
  MonitorMayStall = TRUE
  MaxTime = 1
  MaxFrame = 1
  MaxControl = 1
  MaxSession = 1
  MaxEvent = 0
SPECIFICATION FairSpec
PROPERTIES ControlEventuallyMerged
