---------------------------- MODULE PacketSender ----------------------------
(***************************************************************************)
(* The sending side of src/bscl_packet.c: bscl_packet_write puts whole     *)
(* packets into the buffer of a bscl_packet_t, and the caller takes bytes  *)
(* out of that buffer with buffer_read and puts them on the wire, as many  *)
(* at a time as the line accepts.                                          *)
(***************************************************************************)
EXTENDS PacketOps

CONSTANTS
  Outgoing,     \* the packets the caller may write: records [id, len, data]
  SenderMem,    \* what the caller's memory holds at bscl_packet_init
  MaxDrain,     \* the most bytes taken out at a time
  MaxPackets    \* bound: the packets written in a run

ASSUME SenderAssumption ==
  /\ \A p \in Outgoing :
       /\ p.id \in [IdPos -> Byte]
       /\ p.data \in Seq(Byte) /\ p.len = Len(p.data)
       /\ CrcBytes(WriteCrc(p.id, p.data)) \in [1 .. CrcSize -> Byte]
  /\ SenderMem \in [0 .. Size - 1 -> Byte]
  /\ MaxDrain \in 1 .. Modulus - 1
  /\ MaxPackets \in Nat

VARIABLES
  tx,         \* the sender's bscl_packet_t
  wire,       \* the bytes that have left the sender
  accepted,   \* the packets for which bscl_packet_write returned 0
  result      \* the last return value of bscl_packet_write

senderVars == <<tx, wire, accepted, result>>

SenderInit ==
  /\ tx = NewPacket(SenderMem)
  /\ wire = << >>
  /\ accepted = << >>
  /\ result = 0

(* bscl_packet_write *)
CallWrite(p) ==
  LET r == PacketWrite(tx, p.id, p.data) IN
  /\ Len(accepted) < MaxPackets
  /\ tx' = r.pak
  /\ result' = r.ret
  /\ accepted' = IF r.ret = 0 THEN Append(accepted, p) ELSE accepted
  /\ UNCHANGED wire

(* buffer_read of up to n bytes, onto the wire *)
DrainBytes(n) ==
  LET data == Copy(tx.mo, 0, n) IN
  /\ ~IsEmpty(tx.mo)
  /\ wire' = wire \o data
  /\ tx' = [tx EXCEPT !.mo.rdp = Wrap(@ + Len(data))]
  /\ UNCHANGED <<accepted, result>>

SenderNext ==
  \/ \E p \in Outgoing : CallWrite(p)
  \/ \E n \in 1 .. MaxDrain : DrainBytes(n)

SenderSpec == SenderInit /\ [][SenderNext]_senderVars

-----------------------------------------------------------------------------
(* The bytes bscl_packet_write makes of a packet. *)
WrittenFrame(p) ==
  Header(p.id, p.len) \o p.data \o CrcBytes(WriteCrc(p.id, p.data))

Frames(ps) ==
  LET upto[i \in 0 .. Len(ps)] ==
        IF i = 0 THEN << >> ELSE upto[i - 1] \o WrittenFrame(ps[i])
  IN  upto[Len(ps)]

(* A packet is written as a whole or not at all, whatever the buffer still *)
(* holds and wherever it wraps: what has left the sender and what is still *)
(* in its buffer are together the frames of the accepted packets, in       *)
(* order (the three writes of bscl_packet.c:332-342 never stop half way).  *)
WholeFrames == wire \o Contents(tx.mo) = Frames(accepted)
=============================================================================
