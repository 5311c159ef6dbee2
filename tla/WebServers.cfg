SPECIFICATION SpecServers
CONSTANTS
  Clients = {b1, b2}
  MaxDepth = 1
  MaxFrames = 2
  MaxBegins = 2
  Workers = {w1, w2}
  Requests = {r1, r2}
  None = None
  MaxStarts = 2
  Tasks = {task}
  Viewers = {v1, v2}
  MaxServers = 3
INVARIANTS EventSourceInv ReplyIsOwn SurfacesInv
PROPERTIES StopReturnsWhenListening LatestFrameArrives StopServerReturns ExitEndsOnceListening
CHECK_DEADLOCK FALSE
