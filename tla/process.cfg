SPECIFICATION FairSpec
CONSTANTS
  Conn = {c1, c2}
  Requests <- MCRequests
  Capacity = 1
INVARIANTS
  BlockedByGreedy
  TakenWhole
PROPERTIES
  KilledWhileClosing
  ServedOrWaits
CHECK_DEADLOCK FALSE
