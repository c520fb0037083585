SPECIFICATION IOSpec
CONSTANTS
  short = short
  long = long
  bad = bad
  Message <- MCMessage
  Size <- MCSize
  Garbled = {bad}
  Version = short
  IO_BUFFER_SIZE = 4
  Window = 2
  BAN = 20
  Penalty = 10
  Score = {20}
  MaxSent = 2
  MaxArrived = 2
CHECK_DEADLOCK FALSE
INVARIANT
  UnfinishedIsRegistered
