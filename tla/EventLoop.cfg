\* Two clients and their CGIs, with liveness.
SPECIFICATION FairSpec
CONSTANTS
  Fd <- AmpleFds
  ListenFds <- OneListener
  MaxConns = 2
  Requests = {"part", "plain", "post_cgi", "too_big"}
  CtlMayFail = FALSE
INVARIANTS TypeOK OwnedExactly NoLeftovers StaleOnlyPipes
PROPERTIES AnomalyNeedsStale HangUpReclaimed CgiAnswered
