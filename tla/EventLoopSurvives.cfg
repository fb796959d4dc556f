\* Does an event of one client ever end the process?
SPECIFICATION FairSpec
CONSTANTS
  Fd <- AmpleFds
  ListenFds <- OneListener
  MaxConns = 2
  Requests = {"plain", "post_cgi"}
  CtlMayFail = FALSE
INVARIANTS LoopSurvives
