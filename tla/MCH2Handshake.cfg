SPECIFICATION FairSpec
CONSTANTS
  Cap = 2
  Requests = {r1, r2}
INVARIANTS WireInOrder HandshakeGoesOn OpenMeansExchanged
PROPERTY HandshakeEnds
CHECK_DEADLOCK FALSE
