SPECIFICATION FairSpec
CONSTANTS
  c1 = c1
  c2 = c2
  Conn <- MCConn
  Pages <- MCPages
  Heads <- MCHeads
  MaxOut <- MCMaxOut
INVARIANTS
  WireIsReply
  EndIsKnown
PROPERTY KnowsEnd
CHECK_DEADLOCK FALSE
