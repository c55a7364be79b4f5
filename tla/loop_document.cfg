SPECIFICATION FairSpec
CONSTANTS
  Fd <- MCFd
  ListenFd <- MCListenFd
  Conn = {c1, c2}
  NoFd = NoFd
  NoConn = NoConn
  MaxScript = 1
  MaxEvent = 2
  ResponseTypes = {"document"}
  AddMayFail = FALSE
  MayAbort = TRUE
INVARIANTS
  Wired
PROPERTIES
  PendingUntouched
  ConnectionsEnd
CHECK_DEADLOCK FALSE
