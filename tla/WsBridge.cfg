SPECIFICATION FairSpec
CONSTANTS
  MaxConns = 2
  MaxFrames = 2
INVARIANTS WsInv EndIsReported
PROPERTY CloseReturns
CHECK_DEADLOCK FALSE
