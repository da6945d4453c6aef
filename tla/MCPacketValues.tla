--------------------------- MODULE MCPacketValues ---------------------------
(***************************************************************************)
(* Small values for the packet modules: bytes 0 .. 3 with 3 the magic      *)
(* byte, and a checksum of two bytes, computed by a table step that is     *)
(* one-to-one in the register, as the CRC's is, and an inversion without a *)
(* fixed point.  A header has four bytes (magic, id, length low, length    *)
(* high), or five, the last of them one more of the id.                    *)
(***************************************************************************)
EXTENDS PacketOps

MCByte == 0 .. 3
MCCrcStep(c, b) == (5 * c + 2 * b + 1) % 16
MCCrcInvert(c) == 15 - c
MCCrcBytes(c) == << c % 4, c \div 4 >>

Packet(v, data) ==
  [id |-> [i \in IdPos |-> v], len |-> Len(data), data |-> data]

Packets == {Packet(0, << >>), Packet(1, << 3 >>), Packet(2, << 1, 2 >>)}
=============================================================================
