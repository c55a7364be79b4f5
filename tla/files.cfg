SPECIFICATION FairSpec
CONSTANTS
  c1 = c1
  c2 = c2
  Conn = {c1, c2}
  NoConn = NoConn
  Requests <- MCRequests
  Locations <- MCLocations
  ErrorPages <- MCErrorPages
  Files <- MCFiles
  Changes <- MCChanges
  IndexHtml <- MCIndexHtml
  MaxFd = 3
  MaxSeen = 3
INVARIANTS
  SpinsOnly
PROPERTIES
  AnswerIsTrue
  Served
CHECK_DEADLOCK FALSE
