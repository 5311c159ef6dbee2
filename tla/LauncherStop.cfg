SPECIFICATION SpecLauncher
CONSTANTS
  Tasks = {1, 2}
  MaxRuns = 2
  MaxInFlight = 1
INVARIANT StopKillsSketch
CHECK_DEADLOCK FALSE
