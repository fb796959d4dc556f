\* A script that exits before its output is read.
SPECIFICATION Spec
CONSTANTS
  c1 = c1
  h1 = h1
  h2 = h2
  NoClient = NoClient
  NoHandler = NoHandler
  Client <- OneClient
  Handler <- TwoHandlers
  OutputSize = 2
  ReadSize = 1
  PipeSize = 2
  ExecMayFail = FALSE
  DeathMayLast = TRUE
INVARIANTS OutputWhole
