---------------------------- MODULE MCPacketLink ----------------------------
EXTENDS PacketLink, MCPacketValues

MCMem == [i \in 0 .. Size - 1 |-> 0]
=============================================================================
