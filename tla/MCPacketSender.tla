--------------------------- MODULE MCPacketSender ---------------------------
EXTENDS PacketSender, MCPacketValues

MCMem == [i \in 0 .. Size - 1 |-> 0]
=============================================================================
