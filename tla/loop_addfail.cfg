SPECIFICATION Spec
CONSTANTS
  Fd <- MCFd
  ListenFd <- MCListenFd
  Conn = {c1, c2}
  NoFd = NoFd
  NoConn = NoConn
  MaxScript = 2
  MaxEvent = 2
  ResponseTypes <- AllTypes
  AddMayFail = TRUE
  MayAbort = FALSE
INVARIANTS
  OwnersLive
CHECK_DEADLOCK FALSE
