CONSTANTS
  junk = junk
  digit = digit
  Junk = junk
  Digits <- MCDigits
  Payload <- MCPayload
  Vehicle = {1, 2}
  DevKit = {1}
  HighWater = 0
  MaxEvent = 2
  MaxInput = 4
SPECIFICATION FairSpec
INVARIANTS TypeOK LatestReading ScanGenuine ScanPlaced PageShowsCache TraceFollowsButton ButtonShowsTracing
PROPERTIES StreamCatchesUp
CHECK_DEADLOCK FALSE
