CONSTANTS
  Modulus = 8
  Capacity = 4
  MaxLen = 2
  Byte <- MCByte
SPECIFICATION Spec
INVARIANTS TypeOK NoRace
PROPERTY RefinesFifo
