SPECIFICATION Spec
CONSTANTS
  IsServer = TRUE
  StreamIds = {1, 3}
  MaxConcurrentStreams = 1
  FirstStreamId = 2
  MaxLeaked = 1
CHECK_DEADLOCK FALSE
INVARIANT ConcurrencyLimit
