SPECIFICATION Spec
CONSTANTS
  Fd <- MCFd5
  ListenFd <- MCListenFd
  Conn = {c1, c2}
  NoFd = NoFd
  NoConn = NoConn
  MaxScript = 2
  MaxEvent = 2
  ResponseTypes <- AllTypes
  AddMayFail = FALSE
  MayAbort = FALSE
INVARIANTS
  OneCarrier
  DanglingIsRedirect
  ReplyKnowsScript
PROPERTIES
  ImplementsLifecycle
CHECK_DEADLOCK FALSE
