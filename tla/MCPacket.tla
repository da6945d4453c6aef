------------------------------ MODULE MCPacket ------------------------------
EXTENDS PacketReceiver, MCPacketValues

(* The bytes of a packet whose checksum the receiver accepts. *)
GoodFrame(p) ==
  LET body == Header(p.id, p.len) \o p.data IN
  body \o CrcBytes(Crc32(body, CrcZero))

(* A stream of three packets, and nothing else. *)
Whole(ps) ==
  [bytes |-> GoodFrame(ps[1]) \o GoodFrame(ps[2]) \o GoodFrame(ps[3]),
   sent  |-> ps]

CleanSessions == {Whole(ps) : ps \in [1 .. 3 -> Packets]}

(* Bytes that belong to no packet before the first one. *)
AfterNoise(noise, ps) ==
  [bytes |-> noise \o Whole(ps).bytes, sent |-> ps]

(* One byte of the stream changed on the way. *)
Damaged(s, i, b) == [s EXCEPT !.bytes[i] = b]

FirstFrame(s) == FrameSize(s.sent[1].len)

(* A stray byte after the first packet. *)
Stray(s, b) ==
  [s EXCEPT !.bytes = SubSeq(@, 1, FirstFrame(s)) \o << b >>
                        \o SubSeq(@, FirstFrame(s) + 1, Len(@))]

(* The last packet is another one than those before it. *)
Triples == {<<p, p, q>> : p, q \in Packets} \ {<<p, p, p>> : p \in Packets}

(* The line goes on, for as long as the longest packet a header can say. *)
Followed(s) ==
  [s EXCEPT !.bytes = @ \o [i \in 1 .. FrameSize(Base * Base - 1) |-> 0]]

(* The bytes of a disturbance: the magic byte, and one that makes a length *)
(* long.                                                                   *)
Noise == {1, 3}

NoisySessions ==
  {Followed(AfterNoise(noise, ps)) :
     noise \in UNION {[1 .. n -> Noise] : n \in 1 .. 2}, ps \in Triples}

DamagedSessions ==
  UNION {{Damaged(Followed(s), i, b) : i \in 1 .. FirstFrame(s), b \in Noise}
           : s \in {Whole(ps) : ps \in Triples}}

StraySessions ==
  {Damaged(Stray(Followed(Whole(ps)), b), FirstFrame(Whole(ps)), c)
     : ps \in Triples, b, c \in Noise}

DisturbedSessions == NoisySessions \union DamagedSessions \union StraySessions

Memory(b) == [i \in 0 .. Size - 1 |-> b]
MCMemories == {Memory(0), Memory(3)}
MagicMemory == {Memory(3)}
=============================================================================
