----------------------------- MODULE PacketLink -----------------------------
(***************************************************************************)
(* bscl_packet_write at one end of a wire and bscl_packet_receive at the   *)
(* other: PacketSender composed with PacketReceiver, whose stream is what  *)
(* has left the sender.  The wire neither loses nor changes a byte.        *)
(***************************************************************************)
EXTENDS PacketSender

CONSTANTS Chunks, Room, ReceiverMem

VARIABLES rx, mode, pos, phase, ret, got

receiverVars == <<rx, mode, pos, phase, ret, got>>
vars == <<tx, wire, accepted, result, rx, mode, pos, phase, ret, got>>

(* The receiver's stream and its packets, as the sender made them. *)
OnWire == [bytes |-> wire, sent |-> accepted]

Receiver == INSTANCE PacketReceiver WITH
  pak <- rx, session <- OnWire,
  Sessions <- {}, Modes <- {"chunk", "byte"}, Memories <- {ReceiverMem}

Init == SenderInit /\ mode \in {"chunk", "byte"} /\ Receiver!Start

SenderStep == SenderNext /\ UNCHANGED receiverVars

ReceiverStep == UNCHANGED senderVars /\ Receiver!Next

Next == SenderStep \/ ReceiverStep

Spec == Init /\ [][Next]_vars

-----------------------------------------------------------------------------
(* "write packet to buffer, return 0 for success" (bscl_packet.h:35): a    *)
(* packet that bscl_packet_write accepted and that arrives as it was sent  *)
(* has the checksum bscl_packet_parse computes.                            *)
WrittenIsAccepted == ret # BADCRC
=============================================================================
