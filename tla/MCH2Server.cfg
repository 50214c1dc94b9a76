SPECIFICATION Spec
CONSTANTS
  IsServer = TRUE
  StreamIds = {1, 3}
  MaxConcurrentStreams = 1
  FirstStreamId = 2
  MaxLeaked = 0
INVARIANTS TypeOK StreamsSound
CHECK_DEADLOCK FALSE
