CONSTANTS
  m1 = m1
  m2 = m2
  Monitor = {m1}
  Reader = {m1}
  Window = 0
  HighWater = 0
  MaxFlight = 1
  MaxTime = 1
  MaxFacts = 0
  MaxRecord = 1
  Active = {"tower"}
SPECIFICATION FairSpec
PROPERTIES RateReachesReader
CHECK_DEADLOCK FALSE
