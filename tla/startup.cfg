SPECIFICATION Spec
CONSTANTS
  Files <- MCFiles
  Hosts <- MCHosts
INVARIANTS
  CursorInBounds
  ParsedIsRight
  StartsIfRight
  EveryServerListened
  SelectedIsRight
PROPERTY StartEnds
CHECK_DEADLOCK FALSE
