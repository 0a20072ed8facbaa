SPECIFICATION FairSpec
CONSTANTS
  MaxLines = 3
  ChunkLines = 3
  PipeLines = 3
  Replay = 3
  MaxFailures = 0
  Stops = FALSE
PROPERTY EveryLineHandled
