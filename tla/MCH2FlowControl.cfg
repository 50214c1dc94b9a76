SPECIFICATION FairSpec
CONSTANTS
  Streams = {1, 3}
  Early = {1}
  Lens = {1, 3}
  DefaultWindow = 2
  DefaultMin = 2
  ConnStep = 5
  StreamStep = 4
  MaxWindow = 12
  MaxSent = 8
INVARIANTS SentWithinGrant UpdatesFit QuietAgreement BlockedHasWaker
CHECK_DEADLOCK FALSE
PROPERTY BlockedIsWoken
