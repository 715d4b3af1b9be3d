CONSTANTS
  s1 = s1
  s2 = s2
  Simulator = {s1}
  d1 = d1
  d2 = d2
  e1 = e1
  e2 = e2
  NoEndpoint = NoEndpoint
  DevKit = {d1}
  Client = {c1}
  Endpoint = {e1, e2}
  Initial <- OneConfigured
  MaxTask = 3
  Serial = FALSE
  MonitorMayStall = TRUE
SPECIFICATION FairSpec
PROPERTIES HandlersReturn
