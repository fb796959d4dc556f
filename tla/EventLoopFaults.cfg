\* Three connections, too few descriptors, epoll_ctl that may fail.
SPECIFICATION Spec
CONSTANTS
  Fd <- ScarceFds
  ListenFds <- OneListener
  MaxConns = 3
  Requests = {"get_cgi"}
  CtlMayFail = TRUE
INVARIANTS IInv
