CONSTANTS
  m1 = m1
  m2 = m2
  Monitor = {m1, m2}
  Reader = {m1}
  Window = 0
  HighWater = 0
  MaxFlight = 1
  MaxTime = 1
  MaxFacts = 2
  MaxRecord = 1
  Active = {m2}
SPECIFICATION FairSpec
INVARIANTS TypeOK MirrorExact DrainedMonitorCurrent
PROPERTIES ShownNeverOlder StatusReachesReader
CHECK_DEADLOCK FALSE
