CONSTANTS
  BufferSize = 2
  ApiBufferSize = 1
  MaxSends = 2
  MaxCompleted = 2
  Load = 11
  MaxUnread <- MCMaxUnread
SPECIFICATION Spec
INVARIANTS NotAllBlocked
PROPERTIES EveryMessageHandled
