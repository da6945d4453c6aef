CONSTANTS
  Modulus = 64
  Size = 32
  Byte <- MCByte
  Base = 4
  Magic = 3
  HeaderSize = 5
  LenPos = 2
  CrcSize = 2
  CrcChunk = 32
  CrcZero = 0
  CrcStep <- MCCrcStep
  CrcInvert <- MCCrcInvert
  CrcBytes <- MCCrcBytes
  Sessions <- DisturbedSessions
  Modes = {"chunk", "byte"}
  Memories <- MagicMemory
  Chunks = {1, 3, 4, 11}
  Room = 8
SPECIFICATION Spec
INVARIANTS ConsumedIsStored Framed OnlyGoodFrames
PROPERTY Recovers
CHECK_DEADLOCK FALSE
