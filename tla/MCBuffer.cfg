SPECIFICATION BufferSpec
CONSTANTS
  Byte <- MCByte
  Input <- MCInput
  Count <- MCCount
  IO_BUFFER_SIZE = 3
  MaxStream = 6
INVARIANTS
  InBounds
  AdvanceIsExact
PROPERTIES
  IsByteQueue
  CallsReturn
