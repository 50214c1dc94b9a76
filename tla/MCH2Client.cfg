SPECIFICATION Spec
CONSTANTS
  IsServer = FALSE
  StreamIds = {1, 2}
  MaxConcurrentStreams = 1
  FirstStreamId = 1
  MaxLeaked = 1
INVARIANTS StreamsSound NothingAfterEnd
CHECK_DEADLOCK FALSE
