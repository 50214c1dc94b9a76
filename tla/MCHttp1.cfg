SPECIFICATION HttpFairSpec
CONSTANTS
  Data = {"d", "LF"}
  Body <- MCBody
  Cuts = {1}
INVARIANTS RequestIntact ResponseIntact EndsOnce
PROPERTY RequestEnds
CHECK_DEADLOCK FALSE
