SPECIFICATION FairSpec
CONSTANTS
  Room = 1
  RecSize = 2
  MaxOut = 4
  MaxIn = 2
INVARIANT WireIntact
PROPERTIES InputHandedOver OutcomeTold
CHECK_DEADLOCK FALSE
