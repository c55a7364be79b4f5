SPECIFICATION FairSpec
CONSTANTS
  HeaderSize = 2
  MaxOut = 5
  HexLen <- MCHexLen
  Modulus = 64
INVARIANTS
  Accounting
  EndIsRight
PROPERTIES
  ChunksTile
  ImplementsRelay
  Ends
CHECK_DEADLOCK FALSE
