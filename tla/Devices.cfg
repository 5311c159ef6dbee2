SPECIFICATION SpecDevices
CONSTANTS
  Injectors = {web, cli}
  Writes <- DriverWrites
  HistMax = 3
  MaxTokens = 6
  MaxScans = 2
  MaxInjects = 1
  Threads = {t1, t2}
  Tones = {0, 1}
  Duties = {0, 1}
  MaxCalls = 4
  Plain = {c1, c2}
  Secure = s
  Fds = {3, 4, 5, 6}
  MaxConns = 2
  Wrap = 16
  InjectFor = 3
  ScriptFor = 2
  PressReads = 2
  ReleaseReads = 1
  Corners = 2
  Script <- TwoTaps
  Patience = 2
  MaxPosts = 2
  MaxTime = 9
  Setups <- EverySetup
  MaxHeaders = 2
  Pieces = 2
  MaxBegins = 3
  MaxRequests = 3
  Names = {f, g}
  Dirs <- DirsDef
  Leaves <- LeavesDef
  Top = "top"
  MaxFsCalls = 5
INVARIANTS UartInv AcksFollowStream ReadsWhereAimed TapsAreClicks SettingsKept SessionIsItsSockets AnswersAreOwn FilesInv
PROPERTY ScanReleased
CHECK_DEADLOCK FALSE
