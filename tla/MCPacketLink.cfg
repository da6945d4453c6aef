CONSTANTS
  Modulus = 16
  Size = 8
  Byte <- MCByte
  Base = 4
  Magic = 3
  HeaderSize = 4
  LenPos = 2
  CrcSize = 2
  CrcChunk = 16
  CrcZero = 0
  CrcStep <- MCCrcStep
  CrcInvert <- MCCrcInvert
  CrcBytes <- MCCrcBytes
  Outgoing <- Packets
  SenderMem <- MCMem
  MaxDrain = 8
  MaxPackets = 4
  Chunks = {1, 2, 3, 4}
  Room = 8
  ReceiverMem <- MCMem
SPECIFICATION Spec
INVARIANT WrittenIsAccepted
CHECK_DEADLOCK FALSE
