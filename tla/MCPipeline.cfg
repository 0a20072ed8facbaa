SPECIFICATION PFairSpec
CONSTANTS
  MaxLines = 6
  ChunkLines = 2
  PipeLines = 3
  Replay = 2
  MaxFailures = 2
  Stops = TRUE
  a = a
  b = b
  IPs = {a, b}
  Noise = Noise
  Undecodable = Undecodable
  Logs <- MCLogs
  Threshold = 2
  Window = 2
  Subscribers <- MCSubscribers
  NoEvent = NoEvent
INVARIANTS
  TypeOK
  NothingLostOrReordered
  BreachOfDistinctLines
PROPERTIES
  StopIsHonoured
  PipeDrains
  ImplementsLogWatch
CHECK_DEADLOCK FALSE
