CONSTANTS
  Modulus = 16
  Size = 8
  Byte <- MCByte
  Base = 4
  Magic = 3
  HeaderSize = 4
  LenPos = 2
  CrcSize = 2
  CrcChunk = 16
  CrcZero = 0
  CrcStep <- MCCrcStep
  CrcInvert <- MCCrcInvert
  CrcBytes <- MCCrcBytes
  Sessions <- CleanSessions
  Modes = {"chunk", "byte"}
  Memories <- MCMemories
  Chunks = {1, 2, 3, 4, 5, 6, 7, 8, 9, 10, 11}
  Room = 8
SPECIFICATION Spec
INVARIANTS TypeOK ConsumedIsStored Framed InOrder
PROPERTY AllDelivered
CHECK_DEADLOCK FALSE
