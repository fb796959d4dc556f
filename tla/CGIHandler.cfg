\* A client that may ask twice before it is answered, a script of more than
\* one read's output, every failure.
SPECIFICATION FairSpec
CONSTANTS
  c1 = c1
  h1 = h1
  h2 = h2
  NoClient = NoClient
  NoHandler = NoHandler
  Client <- OneClient
  Handler <- TwoHandlers
  OutputSize = 2
  ReadSize = 1
  PipeSize = 2
  ExecMayFail = TRUE
  DeathMayLast = TRUE
INVARIANTS TypeOK ProcessesOwned OneAnswer OutputArrives
 
\* A server that no socket is registered with any more waits for ever.
CHECK_DEADLOCK FALSE
