SPECIFICATION Spec
CONSTANTS
  Bytes <- MCBytes
  MaxBody = 4
  Requests <- MCChunked
  BufferSize = 40
  Pieces <- MCPieces
INVARIANTS
  ChunkedCompleteMeansDecoded
CHECK_DEADLOCK FALSE
