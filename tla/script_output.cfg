SPECIFICATION Spec
CONSTANTS
  Scripts <- MCScripts
  kMaxHeaderSize = 8
  kBuffSize = 8
INVARIANTS
  PublishedIsRight
  BodyIsOutput
PROPERTIES
  AsTheLoopAssumes
CHECK_DEADLOCK FALSE
