\* Two listening sockets and a pool of reused connection objects.
SPECIFICATION Spec
CONSTANTS
  Fd <- ScarceFds
  ListenFds <- TwoListeners
  MaxConns = 2
  Requests = {"plain"}
  CtlMayFail = FALSE
INVARIANTS ServesOwnConfig
