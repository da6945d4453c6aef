CONSTANTS
  Modulus = 8
  Size = 4
  MaxCall = 3
  Byte <- MCByte
SPECIFICATION BufferSpec
INVARIANT CountsHold
PROPERTY RefinesFifo
