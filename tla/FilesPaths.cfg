SPECIFICATION SpecFiles
CONSTANTS
  Names = {f, g}
  Dirs <- DirsDef
  Leaves <- LeavesDef
  Top = "top"
  MaxFsCalls = 5
INVARIANT PathsAreSketchs
CHECK_DEADLOCK FALSE
