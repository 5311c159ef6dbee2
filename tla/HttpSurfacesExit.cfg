SPECIFICATION FairSpecSurfaces
CONSTANTS
  Tasks = {}
  Viewers = {}
  MaxServers = 2
PROPERTY ExitEnds
CHECK_DEADLOCK FALSE
