SPECIFICATION FairSpec
CONSTANTS
  Requests = {r1, r2}
  MaxConns = 2
  MaxTries = 2
INVARIANT Heard
PROPERTY Answered
CHECK_DEADLOCK FALSE
