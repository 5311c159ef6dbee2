SPECIFICATION SpecProcesses
CONSTANTS
  MaxUsr1 = 2
  Tasks = {1, 2, 3, 4}
  MaxRuns = 2
  MaxInFlight = 2
  MaxForks = 2
  p1 = p1
  p2 = p2
  p3 = p3
  x = x
  y = y
  Pushers = {p1, p2, p3}
  Knows = {p1}
  Image <- Firmware
  Blocks = {x, y}
  MaxLen = 2
  DiskFaults = TRUE
  NoMd5 = NoMd5
INVARIANTS RunInv LauncherInv KillsOnlyOwn OtaInv OkMeansInstalled UpdateInv
PROPERTIES ScreenshotRunReturns CommandsReturn AdvertDiesWithSketch HandleReturns
CHECK_DEADLOCK FALSE
