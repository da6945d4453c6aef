----------------------------- MODULE PacketOps -----------------------------
(***************************************************************************)
(* The functions of src/bscl_packet.c, as operators on a bscl_packet_t     *)
(* record [mo, left, stat].  A packet on the wire is                       *)
(*                                                                         *)
(*    magic, other header bytes with the length at LenPos, data, checksum. *)
(*                                                                         *)
(* The header fields msgid and seq are together the `id' of a packet, a    *)
(* function of their places in the header; the lengths of the parts are    *)
(* constants, so that a small instance has every case of the code that     *)
(* depends on where a chunk is cut.                                        *)
(***************************************************************************)
EXTENDS BufferOps

CONSTANTS Base,         \* the number of values of a byte: 256
          Magic,        \* PACKET_MAGIC
          HeaderSize,   \* PACKET_HEADER_SIZE
          LenPos,       \* PACKET_LEN_POS, the first of the two length bytes
          CrcSize,      \* PACKET_CRC_SIZE
          CrcChunk,     \* CRC_BUFFER_LEN
          CrcZero,      \* the checksum register's start value
          CrcStep(_, _),    \* one byte through the table
          CrcInvert(_),     \* crc ^ ~0
          CrcBytes(_)       \* the register as bytes

ASSUME PacketAssumption ==
  /\ Base \in Nat \ {0, 1} /\ Byte = 0 .. Base - 1 /\ Magic \in Byte
  /\ LenPos \in Nat \ {0, 1} /\ CrcSize \in Nat \ {0} /\ CrcChunk \in Nat \ {0}
  /\ HeaderSize \in Nat /\ LenPos + 2 <= HeaderSize
  /\ HeaderSize + CrcSize < Base * Base          \* a uint16_t holds it
  /\ Size + HeaderSize + CrcSize < Modulus       \* a uint32_t holds it

SYNC == "sync"
HEAD == "head"
DATA == "data"
CRC == "crc"
PARSE == "parse"

MOREDATA == 0
READY == 1
RESYNC == 2
ERROR == -1
BADCRC == -2
ERROR_NOHEAD == -3
ERROR_NOCRC == -4

(* `left' is a uint16_t. *)
U16(x) == x % (Base * Base)

PacketType == [mo : BufferType, left : 0 .. Base * Base - 1,
               stat : {SYNC, HEAD, DATA, CRC, PARSE}]

(* bscl_packet_init, on memory that holds anything. *)
NewPacket(mem) ==
  [mo |-> [buf |-> mem, wrp |-> 0, rdp |-> 0], left |-> 0, stat |-> SYNC]

-----------------------------------------------------------------------------
(* bscl_crc32: every call inverts the register once, at its end. *)
Crc32(bytes, init) ==
  LET reg[i \in 0 .. Len(bytes)] ==
        IF i = 0 THEN init ELSE CrcStep(reg[i - 1], bytes[i])
  IN  CrcInvert(reg[Len(bytes)])

(* Packet data is read for its checksum a chunk at a time, each chunk a    *)
(* call of bscl_crc32.                                                     *)
Chunked(total) == 1 .. (total + CrcChunk - 1) \div CrcChunk

CrcOf(chunk) ==
  LET sum[k \in 0 .. Len(chunk)] ==
        IF k = 0 THEN CrcZero ELSE Crc32(chunk[k], sum[k - 1])
  IN  sum[Len(chunk)]

(* packet_crc_buffer: header and data, as they are in the buffer, *)
CrcBuffer(mo, len) ==
  LET total == HeaderSize + len IN
  CrcOf([k \in Chunked(total) |->
           LET off == (k - 1) * CrcChunk IN
           Copy(mo, off, Least(total - off, CrcChunk))])

(* and the same of header and data in one piece. *)
CrcBody(body) ==
  CrcOf([k \in Chunked(Len(body)) |->
           SubSeq(body, (k - 1) * CrcChunk + 1, Least(k * CrcChunk, Len(body)))])

(* The length in a header: two bytes, low byte first. *)
LenOf(lo, hi) == lo + Base * hi

(* The header bytes that are msgid and seq, and their values in a buffer. *)
IdPos == (2 .. HeaderSize) \ {LenPos + 1, LenPos + 2}

IdOf(mo) == LET head == Copy(mo, 0, HeaderSize) IN [i \in IdPos |-> head[i]]

Header(id, len) ==
  [i \in 1 .. HeaderSize |->
     IF i = 1 THEN Magic
     ELSE IF i = LenPos + 1 THEN len % Base
     ELSE IF i = LenPos + 2 THEN (len \div Base) % Base
     ELSE id[i]]

FrameSizeNoCrc(len) == HeaderSize + len    \* mutant

FrameSize(len) == HeaderSize + len + CrcSize

-----------------------------------------------------------------------------
(* bscl_packet_receive.  d is what is left of the caller's bytes; the      *)
(* result is the packet, the number of bytes reported consumed, and the    *)
(* return value.                                                           *)
Received(pak, used, ret) == [pak |-> pak, used |-> used, ret |-> ret]

(* Not enough for this part: all of d goes into the buffer. *)
Await(pak, d) ==
  Received([pak EXCEPT !.mo = Write(@, d), !.left = @ - Len(d)],
           Len(d), MOREDATA)

(* Mutant: every byte of the call counts as consumed. *)
ReceiveCrcAll(pak, d) ==
  IF Len(d) < pak.left THEN Await(pak, d)
  ELSE Received([pak EXCEPT !.mo = Write(@, SubSeq(d, 1, pak.left))],
                Len(d), READY)

(* READY leaves stat and left as they were. *)
ReceiveCrc(pak, d) ==
  IF Len(d) < pak.left THEN Await(pak, d)
  ELSE Received([pak EXCEPT !.mo = Write(@, SubSeq(d, 1, pak.left))],
                pak.left, READY)

ReceiveData(pak, d) ==
  IF Len(d) < pak.left THEN Await(pak, d)
  ELSE ReceiveCrc([pak EXCEPT !.stat = CRC, !.left = U16(@ + CrcSize)], d)

(* Mutant: the halves of a length field cut in the middle are swapped. *)
LenFieldSwapped(pak, d) ==
  LET got == HeaderSize - pak.left
      s   == Copy(pak.mo, LenPos, 2)
  IN  IF got <= LenPos THEN LenOf(d[LenPos - got + 1], d[LenPos - got + 2])
      ELSE IF Len(s) = 1 THEN LenOf(d[1], s[1]) ELSE LenOf(s[1], s[2])

(* The length field as receive puts it together from the bytes that are    *)
(* stored already and those that are in d; what buffer_copy does not       *)
(* deliver stays 0.                                                        *)
LenField(pak, d) ==
  LET got       == HeaderSize - pak.left
      stored(n) == LET s == Copy(pak.mo, LenPos, n) IN
                   [i \in 1 .. 2 |-> IF i <= Len(s) THEN s[i] ELSE 0]
  IN  IF got <= LenPos THEN LenOf(d[LenPos - got + 1], d[LenPos - got + 2])
      ELSE IF got = LenPos + 1 THEN LenOf(stored(1)[1], d[1])
      ELSE LenOf(stored(2)[1], stored(2)[2])

ReceiveHead(pak, d) ==
  IF Len(d) < pak.left THEN Await(pak, d)
  ELSE ReceiveData([pak EXCEPT !.stat = DATA,
                               !.left = U16(@ + LenField(pak, d))], d)

(* Only here is the space of the buffer looked at. *)
ReceiveSync(pak, d) ==
  LET magics == {i \in 1 .. Len(d) : d[i] = Magic}
      skip   == (CHOOSE i \in magics : \A j \in magics : i <= j) - 1
      space  == Space(pak.mo)
      len    == IF space < Len(d) - skip THEN space + skip ELSE Len(d)
      head   == [pak EXCEPT !.stat = HEAD, !.left = HeaderSize]
      rest   == ReceiveHead(head, SubSeq(d, skip + 1, len))
  IN  IF magics = {} THEN Received(pak, Len(d), MOREDATA)
      ELSE IF skip = len THEN Received(head, len, MOREDATA)
      ELSE [rest EXCEPT !.used = @ + skip]

(* In state PARSE no branch is taken: the bytes count as consumed. *)
Receive(pak, d) ==
  CASE pak.stat = SYNC -> ReceiveSync(pak, d)
    [] pak.stat = HEAD -> ReceiveHead(pak, d)
    [] pak.stat = DATA -> ReceiveData(pak, d)
    [] pak.stat = CRC -> ReceiveCrc(pak, d)
    [] OTHER -> Received(pak, Len(d), MOREDATA)

-----------------------------------------------------------------------------
(* bscl_packet_receive_byte.  buffer_putc is never negative, so its test   *)
(* never fires; a buffer that is now full is handed to parse.              *)
Returned(pak, ret) == [pak |-> pak, ret |-> ret]

DoParse(pak) ==
  Returned([pak EXCEPT !.stat = PARSE], IF pak.stat # PARSE THEN 1 ELSE 0)

EnterCrcKeepsLeft(pak) == [pak EXCEPT !.stat = CRC]     \* mutant

EnterCrc(pak) == [pak EXCEPT !.stat = CRC, !.left = CrcSize]

(* The header is complete: only the first of the length bytes is read. *)
ByteHeadDone(pak) ==
  LET len == CopyChar(pak.mo, LenPos) IN
  IF len < 0 THEN DoParse(pak)
  ELSE IF len = 0 THEN Returned(EnterCrc(pak), 0)
  ELSE Returned([pak EXCEPT !.left = len, !.stat = DATA], 0)

ReceiveByte(pak0, c) ==
  LET pak  == [pak0 EXCEPT !.mo = Putc(@, c)]
      less == [pak EXCEPT !.left = U16(@ - 1)]
  IN  CASE Space(pak.mo) = 0 -> DoParse(pak)
        [] Space(pak.mo) # 0 /\ pak.stat = SYNC ->
             Returned(IF c = Magic
                      THEN [pak EXCEPT !.stat = HEAD, !.left = HeaderSize - 1]
                      ELSE [pak EXCEPT !.mo = DropChar(@)], 0)
        [] Space(pak.mo) # 0 /\ pak.stat = HEAD ->
             IF less.left = 0 THEN ByteHeadDone(less) ELSE Returned(less, 0)
        [] Space(pak.mo) # 0 /\ pak.stat = DATA ->
             Returned(IF less.left = 0 THEN EnterCrc(less) ELSE less, 0)
        [] Space(pak.mo) # 0 /\ pak.stat = CRC ->
             IF less.left = 0 THEN Returned([less EXCEPT !.stat = PARSE], 1)
             ELSE Returned(less, 0)
        [] OTHER -> DoParse(pak)

-----------------------------------------------------------------------------
(* bscl_packet_resync.  Its loops drop bytes until one stops them: a magic *)
(* byte too close to the end to show its length, or one whose packet fits  *)
(* the buffer.  Nothing stops the search at the end of the contents: there *)
(* buffer_copy_first reads the byte the write counter points at, a stale   *)
(* one, and buffer_drop_char drops nothing.  SPIN is the search that goes  *)
(* on for ever.                                                            *)
SPIN == 99

LenAt(mo, k) ==
  LenOf(CopyWord(mo, k + LenPos), CopyWord(mo, k + LenPos + 1))

StopsAt(mo, k) ==
  /\ CopyWord(mo, k) = Magic
  /\ \/ Count(mo) - k < HeaderSize
     \/ FrameSize(LenAt(mo, k)) <= Size

MissingAll(part, count) == part      \* mutant: the count is forgotten

(* What a part that ends at byte `part' lacks when count bytes are there. *)
Missing(part, count) == part - count

Resync(pak) ==
  LET stops == {k \in 0 .. Count(pak.mo) : StopsAt(pak.mo, k)}
      k     == CHOOSE i \in stops : \A j \in stops : i <= j
      mo    == Drop(pak.mo, IF stops = {} THEN Count(pak.mo) ELSE k)
      count == Count(mo)
      len   == LenAt(mo, 0)
      state(stat, left) == [mo |-> mo, left |-> left, stat |-> stat]
  IN  CASE stops = {} -> Returned(state(SYNC, pak.left), SPIN)
        [] stops # {} /\ count < HeaderSize ->
             Returned(state(HEAD, Missing(HeaderSize, count)), MOREDATA)
        [] stops # {} /\ count \in HeaderSize .. HeaderSize + len - 1 ->
             Returned(state(DATA, Missing(HeaderSize + len, count)), MOREDATA)
        [] stops # {} /\ count \in HeaderSize + len .. FrameSize(len) - 1 ->
             Returned(state(CRC, Missing(FrameSize(len), count)), MOREDATA)
        [] OTHER -> Returned(state(PARSE, pak.left), READY)

-----------------------------------------------------------------------------
(* bscl_packet_parse, into a caller's buffer of room bytes: the packet,    *)
(* the return value, and the message handed out (none unless it was good). *)
Parsed(pak, ret, msg) == [pak |-> pak, ret |-> ret, msg |-> msg]

(* The checksum behind the data, as many bytes of it as there are. *)
StoredCrc(mo, len) == Copy(mo, HeaderSize + len, CrcSize)

IntactUnchecked(mo, len) == TRUE     \* mutant

Intact(mo, len) == CrcBytes(CrcBuffer(mo, len)) = StoredCrc(mo, len)

RejectKeeps(pak) == pak      \* mutant: nothing is dropped

(* One byte is dropped, so that resync looks for the next magic byte. *)
Reject(pak) == [pak EXCEPT !.mo = DropChar(@)]

(* Mutant: the data is copied before the header is skipped. *)
MessageEarly(mo, room, len) ==
  [id |-> IdOf(mo), len |-> len,
   data |-> Copy(mo, 0, Least(room, len))]

Message(mo, room, len) ==
  [id |-> IdOf(mo), len |-> len,
   data |-> Copy(Drop(mo, HeaderSize), 0, Least(room, len))]

Parse(pak, room) ==
  LET mo    == pak.mo
      len   == LenAt(mo, 0)
      whole == Len(Copy(mo, 0, HeaderSize)) = HeaderSize
      rest  == Drop(Drop(Drop(mo, HeaderSize), len), CrcSize)
      msg   == << Message(mo, room, len) >>
  IN  CASE ~whole -> Parsed(pak, ERROR_NOHEAD, << >>)
        [] whole /\ len > Size -> Parsed(Reject(pak), ERROR, << >>)
        [] whole /\ len <= Size /\ Len(StoredCrc(mo, len)) # CrcSize ->
             Parsed(pak, ERROR_NOCRC, << >>)
        [] OTHER ->
             IF ~Intact(mo, len) THEN Parsed(Reject(pak), BADCRC, << >>)
             ELSE IF Count(rest) > 0
             THEN Parsed([pak EXCEPT !.mo = rest], RESYNC, msg)
             ELSE Parsed([pak EXCEPT !.mo = rest, !.stat = SYNC], MOREDATA, msg)

-----------------------------------------------------------------------------
(* bscl_packet_write: the checksum runs over the header and then over the  *)
(* data, in two calls of bscl_crc32; what the buffer takes of each of the  *)
(* three parts is checked as it is written.                                *)
WriteCrc(id, data) ==
  Crc32(data, Crc32(Header(id, Len(data)), CrcZero))

PacketWrite(pak, id, data) ==
  LET head == Header(id, Len(data))
      sum  == CrcBytes(WriteCrc(id, data))
      mo1  == Write(pak.mo, head)
      mo2  == Write(mo1, data)
      mo3  == Write(mo2, sum)
      after(mo) == [pak EXCEPT !.mo = mo]
  IN  CASE FrameSize(Len(data)) > Space(pak.mo) -> Returned(pak, -1)
        [] FrameSize(Len(data)) <= Space(pak.mo) /\ WriteLen(pak.mo, head) # HeaderSize ->
             Returned(after(mo1), -1)
        [] OTHER ->
             IF WriteLen(mo1, data) # Len(data) THEN Returned(after(mo2), -1)
             ELSE IF WriteLen(mo2, sum) # CrcSize THEN Returned(after(mo3), -1)
             ELSE Returned(after(mo3), 0)
=============================================================================
