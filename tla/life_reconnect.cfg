CONSTANTS
  s1 = s1
  s2 = s2
  Simulator = {s1}
  d1 = d1
  d2 = d2
  e1 = e1
  e2 = e2
  NoEndpoint = NoEndpoint
  DevKit = {d1}
  Client = {}
  Endpoint = {e1}
  Initial <- OneConfigured
  MaxTask = 3
  Serial = FALSE
  MonitorMayStall = FALSE
SPECIFICATION Spec
INVARIANTS Served
