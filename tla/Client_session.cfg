SPECIFICATION FairSpec
CONSTANTS
  Sizes = {0, 1, 2}
  SendSpace = 2
  PeerTexts = {"ok", "text"}
  MaxLines = 2
  MaxArrived = 3
INVARIANTS
  TypeOK
  SocketOutlivesReceiver
  ShownInOrder
  RefusedLeftNothing
PROPERTIES
  StopReturns
  LossIsNoticed
