CONSTANTS
  s1 = s1
  s2 = s2
  Simulator = {s1, s2}
  d1 = d1
  d2 = d2
  e1 = e1
  e2 = e2
  NoEndpoint = NoEndpoint
  DevKit = {d1, d2}
  Client = {c1}
  Endpoint = {e1, e2}
  Initial <- OneUnconfigured
  MaxTask = 2
  Serial = TRUE
  MonitorMayStall = FALSE
SPECIFICATION FairSpec
INVARIANTS TypeOK UniqueEndpoints NoOrphan Served DownWhenOff ConnectedToEndpoint
PROPERTIES KeepsDialing
