SPECIFICATION SpecWeb
CONSTANTS
  Workers = {w1, w2}
  Requests = {r1, r2}
  None = None
  MaxStarts = 1
PROPERTY RestartExits
CHECK_DEADLOCK FALSE
