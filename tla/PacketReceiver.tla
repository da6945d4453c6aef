--------------------------- MODULE PacketReceiver ---------------------------
(***************************************************************************)
(* A bscl_packet_t fed from a byte stream that is cut anywhere, and the    *)
(* caller that bscl_packet.h asks for: READY (or 1 from receive_byte) is   *)
(* followed by parse; a parse that ends in anything but MOREDATA by        *)
(* resync; and after resync either parse or more bytes.                    *)
(***************************************************************************)
EXTENDS PacketOps

CONSTANTS
  Sessions,   \* the streams: records [bytes, sent], sent the packets in bytes
  Modes,      \* a subset of {"chunk", "byte"}: receive, or receive_byte
  Memories,   \* what the caller's memory may hold at bscl_packet_init
  Chunks,     \* the numbers of bytes handed to a call of receive
  Room        \* the size of the caller's buffer for the data of a packet

ASSUME ReceiverAssumption ==
  /\ \A s \in Sessions : s.bytes \in Seq(Byte)
  /\ Modes \subseteq {"chunk", "byte"}
  /\ Memories \subseteq [0 .. Size - 1 -> Byte]
  /\ Chunks \subseteq Nat \ {0}
  /\ Room \in Nat

VARIABLES
  pak,        \* the bscl_packet_t
  session,    \* the stream (chosen at the start)
  mode,       \* the receive function the caller uses (chosen at the start)
  pos,        \* the bytes of the stream reported consumed so far
  phase,      \* what the caller does next: receive, parse, resync, or spin
  ret,        \* the last return value
  got         \* the packets parse has handed out

vars == <<pak, session, mode, pos, phase, ret, got>>

Start ==
  /\ pak \in {NewPacket(mem) : mem \in Memories}
  /\ pos = 0
  /\ phase = "receive"
  /\ ret = MOREDATA
  /\ got = << >>

Init == session \in Sessions /\ mode \in Modes /\ Start

(* bscl_packet_receive with the next n bytes; the caller comes back with   *)
(* what was not consumed.                                                  *)
CallReceive(n) ==
  LET r == Receive(pak, SubSeq(session.bytes, pos + 1, pos + n)) IN
  /\ phase = "receive" /\ mode = "chunk"
  /\ pos + n <= Len(session.bytes)
  /\ pak' = r.pak
  /\ ret' = r.ret
  /\ pos' = pos + r.used
  /\ phase' = IF r.ret = READY THEN "parse" ELSE "receive"
  /\ UNCHANGED <<session, mode, got>>

(* bscl_packet_receive_byte with the next byte. *)
CallReceiveByte ==
  LET r == ReceiveByte(pak, session.bytes[pos + 1]) IN
  /\ phase = "receive" /\ mode = "byte"
  /\ pos < Len(session.bytes)
  /\ pak' = r.pak
  /\ ret' = r.ret
  /\ pos' = pos + 1
  /\ phase' = IF r.ret > 0 THEN "parse" ELSE "receive"
  /\ UNCHANGED <<session, mode, got>>

(* bscl_packet_parse *)
CallParse ==
  LET r == Parse(pak, Room) IN
  /\ phase = "parse"
  /\ pak' = r.pak
  /\ ret' = r.ret
  /\ got' = got \o r.msg
  /\ phase' = IF r.ret = MOREDATA THEN "receive" ELSE "resync"
  /\ UNCHANGED <<session, mode, pos>>

(* bscl_packet_resync *)
CallResync ==
  LET r == Resync(pak) IN
  /\ phase = "resync"
  /\ pak' = r.pak
  /\ ret' = r.ret
  /\ phase' = CASE r.ret = READY -> "parse"
                [] r.ret = SPIN -> "spin"
                [] OTHER -> "receive"
  /\ UNCHANGED <<session, mode, pos, got>>

(* The search of resync that finds nothing and does not end. *)
Spinning == phase = "spin" /\ UNCHANGED vars

Next ==
  \/ \E n \in Chunks : CallReceive(n)
  \/ CallReceiveByte
  \/ CallParse
  \/ CallResync
  \/ Spinning

(* The caller keeps calling while there are bytes or something to do. *)
Spec == Init /\ [][Next]_vars /\ WF_vars(Next)

-----------------------------------------------------------------------------
TypeOK ==
  /\ pak \in PacketType
  /\ session \in Sessions /\ mode \in Modes
  /\ pos \in 0 .. Len(session.bytes)
  /\ phase \in {"receive", "parse", "resync", "spin"}
  /\ ret \in {MOREDATA, READY, RESYNC, ERROR, BADCRC, ERROR_NOHEAD,
              ERROR_NOCRC, SPIN}
  /\ \A i \in DOMAIN got : Len(got[i].data) = Least(Room, got[i].len)

(* The bytes in the buffer are the bytes reported consumed last: receive   *)
(* and receive_byte store what they say they took ("out: consumed size",   *)
(* bscl_packet.c:60), and parse and resync drop from the front only.       *)
ConsumedIsStored ==
  Contents(pak.mo) =
    SubSeq(session.bytes, pos - Count(pak.mo) + 1, pos)

(* Whenever the caller is to bring more bytes, `left' is exactly what the  *)
(* part of the packet that `stat' names still lacks, whichever of receive, *)
(* receive_byte, resync and parse has set the two; resync and receive mean *)
(* the same by `left' although one counts from the header's end.  Left out *)
(* are packets so long that `left', a uint16_t, overflows, and those whose *)
(* length needs two bytes, of which receive_byte reads the first only.     *)
Framed ==
  LET count == Count(pak.mo)
      len   == LenAt(pak.mo, 0)
      long  == /\ count >= HeaderSize
               /\ \/ FrameSize(len) >= Base * Base
                  \/ mode = "byte" /\ len >= Base
  IN  phase = "receive" /\ ~long =>
        CASE pak.stat = SYNC -> count = 0
          [] pak.stat = HEAD -> count + pak.left = HeaderSize /\ count < HeaderSize
          [] pak.stat = DATA -> /\ count + pak.left = HeaderSize + len
                                /\ count \in HeaderSize .. HeaderSize + len - 1
          [] pak.stat = CRC -> /\ count + pak.left = FrameSize(len)
                               /\ count \in HeaderSize + len .. FrameSize(len) - 1
          [] OTHER -> FALSE

(* A stream of whole packets is handed out packet for packet, in order,    *)
(* wherever it was cut and wherever the ring wraps.                        *)
InOrder ==
  /\ Len(got) <= Len(session.sent)
  /\ got = SubSeq(session.sent, 1, Len(got))

(* The message m stands in these bytes behind the first `at' of them, in   *)
(* one piece with a length and a checksum that are right.                  *)
StandsIn(bytes, m, at) ==
  LET end  == at + HeaderSize + m.len
      body == SubSeq(bytes, at + 1, end)
  IN  /\ LenOf(body[LenPos + 1], body[LenPos + 2]) = m.len
      /\ m.id = [i \in IdPos |-> body[i]]
      /\ m.data = SubSeq(body, HeaderSize + 1, HeaderSize + Least(Room, m.len))
      /\ SubSeq(bytes, end + 1, end + CrcSize) = CrcBytes(CrcBody(body))

(* Noise may cost packets, but what is handed out stood in the stream, in  *)
(* one piece with its checksum, and the pieces are in order and do not     *)
(* overlap: no byte is used twice.  (That a piece starts with a magic byte *)
(* is not so: resync may stop at a stale one behind the contents.)         *)
OnlyGoodFrames ==
  LET starts(i, from) == {at \in from .. pos - FrameSize(got[i].len) :
                            StandsIn(session.bytes, got[i], at)}
      end[i \in 0 .. Len(got)] ==
        IF i = 0 THEN 0
        ELSE IF starts(i, end[i - 1]) = {} THEN pos + 1
        ELSE FrameSize(got[i].len) +
               (CHOOSE at \in starts(i, end[i - 1]) :
                  \A a \in starts(i, end[i - 1]) : at <= a)
  IN  end[Len(got)] <= pos

(* Every packet of an undisturbed stream is handed out in the end. *)
AllDelivered == <>(got = session.sent)

(* A packet that was never sent, but whose checksum matched by chance: a   *)
(* 32-bit checksum makes that rare, the small one of a TLC run does not.   *)
ByChance == \E i \in DOMAIN got : \A j \in DOMAIN session.sent :
              got[i] # session.sent[j]

(* One disturbance does not last: the receiver gets back in step by        *)
(* resync and hands out the last packet when the line goes on for as long  *)
(* as the longest packet, unless it is caught in resync's search or noise  *)
(* passed for a packet.                                                    *)
Recovers ==
  <>(\/ phase = "spin" \/ ByChance
     \/ \E i \in DOMAIN got : got[i] = session.sent[Len(session.sent)])

-----------------------------------------------------------------------------
(* resync gives up when it runs out of bytes, says the test "if (c < 0)",  *)
(* which is there to leave its search (bscl_packet.c:212).                 *)
ResyncReturns == phase # "spin"
=============================================================================
