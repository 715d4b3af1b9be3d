CONSTANTS
  DevKit = {1, 2}
  QueueSize = 1
  Retention = 1
  Presplit = TRUE
  Names <- BothNames
  Audiences <- WholeAudience
  MonitorMayStall = FALSE
  MaxTime = 1
  MaxFrame = 2
  MaxControl = 2
  MaxSession = 1
  MaxEvent = 0
SPECIFICATION Spec
PROPERTIES ImplementsRegister
