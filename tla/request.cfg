SPECIFICATION Spec
CONSTANTS
  Bytes <- MCBytes
  MaxBody = 4
  Requests <- MCRequests
  BufferSize = 40
  Pieces <- MCPieces
INVARIANTS
  NothingLost
  OutcomeIsRight
  WaitsOnlyForMore
  WholeChunkedDecoded
  ChunkedIsPrefix
CHECK_DEADLOCK FALSE
