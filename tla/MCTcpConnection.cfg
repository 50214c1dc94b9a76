SPECIFICATION FairSpec
CONSTANTS
  SockRoom = 2
  MaxIn = 2
  InitSize = 1
  RecvSize = 1
  MaxOut = 4
  Shapes <- MCShapes
INVARIANTS NoByteLost NoLostWakeup InputInOrder EndReportedOnce NothingAfterClose
PROPERTIES IsByteStream WriterIsTold PeerLossReported
CHECK_DEADLOCK FALSE
