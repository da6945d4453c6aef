---------------------------- MODULE PacketProofs ----------------------------
(***************************************************************************)
(* For every stream, however it is cut, and all sizes that the assumptions *)
(* allow: what src/bscl_packet.c keeps in its buffer are the bytes that it *)
(* reported consumed, `stat' and `left' say what they lack, and parse      *)
(* hands out packets that stood in the stream.  receive looks at the space *)
(* of the buffer at a magic byte only, so this is said of streams that     *)
(* announce nothing too large (NoneTooLarge) or have no noise (CleanLine). *)
(* For every choice of packets: bscl_packet_write writes whole ones.       *)
(***************************************************************************)
EXTENDS PacketReceiver, PacketSender, BufferProofs, TLAPS

-----------------------------------------------------------------------------
(* Numbers. *)
Top == Base * Base

LEMMA PacketConstants ==
  /\ Base \in Nat /\ 2 <= Base /\ Byte = 0 .. Base - 1 /\ Magic \in Byte
  /\ HeaderSize \in Nat /\ LenPos \in Nat /\ 2 <= LenPos /\ LenPos + 2 <= HeaderSize
  /\ CrcSize \in Nat /\ 1 <= CrcSize /\ CrcChunk \in Nat /\ 1 <= CrcChunk
  /\ Top \in Nat /\ HeaderSize + CrcSize < Top /\ Base < Top
  /\ Size \in Nat /\ 1 <= Size /\ Modulus \in Nat
  /\ Size + HeaderSize + CrcSize < Modulus
<1>1. Base \in Nat /\ 2 <= Base /\ Byte = 0 .. Base - 1 /\ Magic \in Byte
  BY PacketAssumption
<1>2. /\ HeaderSize \in Nat /\ LenPos \in Nat /\ 2 <= LenPos /\ LenPos + 2 <= HeaderSize
      /\ CrcSize \in Nat /\ 1 <= CrcSize /\ CrcChunk \in Nat /\ 1 <= CrcChunk
  BY PacketAssumption
<1>3. Top \in Nat /\ Base < Top
  <2>1. Base * Base >= 2 * Base /\ Base * Base \in Nat
    BY <1>1
  <2> QED BY <1>1, <2>1 DEF Top
<1>4. HeaderSize + CrcSize < Top /\ Size + HeaderSize + CrcSize < Modulus
  BY PacketAssumption DEF Top
<1> QED BY <1>1, <1>2, <1>3, <1>4, SizeFacts

(* Two bytes are a number below Top. *)
LEMMA LenRange ==
  ASSUME NEW lo \in Byte, NEW hi \in Byte
  PROVE  LenOf(lo, hi) \in 0 .. Top - 1 /\ lo <= LenOf(lo, hi)
         /\ (LenOf(lo, hi) < Base => LenOf(lo, hi) = lo)
<1>1. /\ lo \in 0 .. Base - 1 /\ hi \in 0 .. Base - 1 /\ Base \in Nat /\ 2 <= Base
  BY PacketConstants
<1>2. Base * hi \in Nat /\ Base * hi <= Base * (Base - 1)
  BY <1>1
<1>3. Base * (Base - 1) = Base * Base - Base
  BY <1>1
<1>4. hi >= 1 => Base * hi >= Base
  BY <1>1
<1>5. hi = 0 => Base * hi = 0
  BY <1>1
<1> DEFINE x == Base * hi
           y == Base * Base
<1> HIDE DEF x, y
<1>6. x \in Nat /\ x <= y - Base /\ (hi >= 1 => x >= Base) /\ (hi = 0 => x = 0)
  BY <1>2, <1>3, <1>4, <1>5 DEF x, y
<1>7. y \in Nat
  BY <1>1 DEF y
<1>8. lo + x \in 0 .. y - 1 /\ lo <= lo + x /\ (lo + x < Base => lo + x = lo)
  BY <1>1, <1>6, <1>7
<1> QED BY <1>8 DEF x, y, LenOf, Top

LEMMA U16Facts ==
  ASSUME NEW x \in Int
  PROVE  /\ U16(x) \in 0 .. Top - 1
         /\ x \in 0 .. Top - 1 => U16(x) = x
         /\ x \in Top .. Top + Top - 1 => U16(x) = x - Top
<1>1. Top \in Nat \ {0} /\ Top \in Int
  BY PacketConstants
<1>2. U16(x) = x % Top
  BY DEF U16, Top
<1>3. x % Top \in 0 .. Top - 1
  BY <1>1, ModRange
<1>4. x \in 0 .. Top - 1 => x % Top = x
  BY <1>1, ModSmall
<1>5. ASSUME x \in Top .. Top + Top - 1 PROVE x % Top = x - Top
  <2>1. x - Top \in 0 .. Top - 1 /\ Top * 1 + (x - Top) = x
    BY <1>1, <1>5
  <2>2. (Top * 1 + (x - Top)) % Top = x - Top
    BY <1>1, <2>1, ModUnique
  <2> QED BY <2>1, <2>2
<1> QED BY <1>2, <1>3, <1>4, <1>5

(* A packet and its size. *)
LEMMA FrameFacts ==
  ASSUME NEW n \in Int
  PROVE  FrameSize(n) \in Int /\ FrameSize(n) = HeaderSize + n + CrcSize
BY PacketConstants DEF FrameSize

-----------------------------------------------------------------------------
(* Windows of a sequence: what is behind its first a elements, up to b. *)
LEMMA Window ==
  ASSUME NEW S, NEW s \in Seq(S), NEW a \in Nat, NEW b \in Nat, a <= b, b <= Len(s),
         NEW w, w = SubSeq(s, a + 1, b)
  PROVE  /\ w \in Seq(S) /\ Len(w) = b - a
         /\ \A i \in 1 .. b - a : w[i] = s[a + i]
         /\ w = [i \in 1 .. b - a |-> s[a + i]]
<1>1. \A i \in a + 1 .. b : s[i] \in S
  BY ElementOfSeq
<1>2. /\ w \in Seq(S)
      /\ Len(w) = IF a + 1 <= b THEN b - (a + 1) + 1 ELSE 0
      /\ \A i \in 1 .. b - (a + 1) + 1 : w[i] = s[a + 1 + i - 1]
  BY <1>1, SubSeqProperties
<1>3. Len(w) = b - a /\ \A i \in 1 .. b - a : w[i] = s[a + i]
  BY <1>2
<1>4. w = [i \in 1 .. b - a |-> w[i]]
  BY <1>2, <1>3, SeqAsFunction
<1> QED BY <1>2, <1>3, <1>4

LEMMA WindowOfWindow ==
  ASSUME NEW S, NEW s \in Seq(S), NEW a \in Nat, NEW b \in Nat, a <= b, b <= Len(s),
         NEW i \in Nat, NEW j \in Nat, i <= j, j <= b - a
  PROVE  SubSeq(SubSeq(s, a + 1, b), i + 1, j) = SubSeq(s, a + i + 1, a + j)
<1> DEFINE w == SubSeq(s, a + 1, b)
           x == SubSeq(w, i + 1, j)
           y == SubSeq(s, a + i + 1, a + j)
<1>1. w \in Seq(S) /\ Len(w) = b - a /\ \A k \in 1 .. b - a : w[k] = s[a + k]
  BY Window
<1> HIDE DEF w
<1>2. x = [k \in 1 .. j - i |-> w[i + k]]
  BY <1>1, Window
<1>3. a + i \in Nat /\ a + j \in Nat /\ a + i <= a + j /\ a + j <= Len(s)
      /\ (a + j) - (a + i) = j - i
  OBVIOUS
<1>4. y = [k \in 1 .. (a + j) - (a + i) |-> s[(a + i) + k]]
  <2> DEFINE u == a + i
             v == a + j
  <2>1. u \in Nat /\ v \in Nat /\ u <= v /\ v <= Len(s)
    BY <1>3
  <2> HIDE DEF u, v
  <2>2. SubSeq(s, u + 1, v) = [k \in 1 .. v - u |-> s[u + k]]
    BY <2>1, Window
  <2> QED BY <2>2 DEF u, v
<1>5. \A k \in 1 .. j - i : w[i + k] = s[(a + i) + k]
  <2> TAKE k \in 1 .. j - i
  <2>1. i + k \in 1 .. b - a /\ a + (i + k) = (a + i) + k
    OBVIOUS
  <2> QED BY <1>1, <2>1
<1> HIDE DEF x, y
<1>6. x = y
  BY <1>2, <1>3, <1>4, <1>5
<1> QED BY <1>6 DEF x, y, w

LEMMA JoinIs ==
  ASSUME NEW S, NEW x \in Seq(S), NEW y \in Seq(S), NEW z \in Seq(S),
         Len(z) = Len(x) + Len(y),
         \A i \in 1 .. Len(x) : z[i] = x[i],
         \A i \in 1 .. Len(y) : z[Len(x) + i] = y[i]
  PROVE  x \o y = z
<1> DEFINE t == x \o y
<1>1. /\ t \in Seq(S) /\ Len(t) = Len(x) + Len(y)
      /\ \A i \in 1 .. Len(x) + Len(y) : t[i] = IF i <= Len(x) THEN x[i] ELSE y[i - Len(x)]
  BY ConcatProperties
<1> HIDE DEF t
<1>2. Len(x) \in Nat /\ Len(y) \in Nat
  OBVIOUS
<1>3. ASSUME NEW i \in 1 .. Len(t) PROVE t[i] = z[i]
  <2>1. CASE i <= Len(x)
    BY <1>1, <1>2, <1>3, <2>1
  <2>2. CASE ~(i <= Len(x))
    <3>1. i - Len(x) \in 1 .. Len(y) /\ Len(x) + (i - Len(x)) = i
      BY <1>1, <1>2, <1>3, <2>2
    <3>2. z[Len(x) + (i - Len(x))] = y[i - Len(x)]
      BY <3>1
    <3> QED BY <1>1, <1>2, <2>2, <3>1, <3>2
  <2> QED BY <2>1, <2>2
<1>4. t = z
  BY <1>1, <1>3, SeqEqual
<1> QED BY <1>4 DEF t

LEMMA WindowJoin ==
  ASSUME NEW S, NEW s \in Seq(S), NEW a \in Nat, NEW b \in Nat, NEW e \in Nat,
         a <= b, b <= e, e <= Len(s)
  PROVE  SubSeq(s, a + 1, b) \o SubSeq(s, b + 1, e) = SubSeq(s, a + 1, e)
<1> DEFINE x == SubSeq(s, a + 1, b)
           y == SubSeq(s, b + 1, e)
           z == SubSeq(s, a + 1, e)
<1>1. b <= Len(s) /\ a <= e
  OBVIOUS
<1>2. x \in Seq(S) /\ Len(x) = b - a /\ \A i \in 1 .. b - a : x[i] = s[a + i]
  BY <1>1, Window
<1>3. y \in Seq(S) /\ Len(y) = e - b /\ \A i \in 1 .. e - b : y[i] = s[b + i]
  BY Window
<1>4. z \in Seq(S) /\ Len(z) = e - a /\ \A i \in 1 .. e - a : z[i] = s[a + i]
  BY <1>1, Window
<1> HIDE DEF x, y, z
<1>5. Len(z) = Len(x) + Len(y)
  BY <1>2, <1>3, <1>4
<1>6. \A i \in 1 .. Len(x) : z[i] = x[i]
  BY <1>2, <1>4, SMTT(30)
<1>7. ASSUME NEW i \in 1 .. Len(y) PROVE z[Len(x) + i] = y[i]
  <2>1. i \in 1 .. e - b /\ (b - a) + i \in 1 .. e - a /\ a + ((b - a) + i) = b + i
    BY <1>3, <1>7
  <2>2. y[i] = s[b + i] /\ z[(b - a) + i] = s[a + ((b - a) + i)]
    BY <1>3, <1>4, <2>1
  <2> QED BY <1>2, <2>1, <2>2
<1>8. x \o y = z
  BY <1>2, <1>3, <1>4, <1>5, <1>6, <1>7, JoinIs
<1> QED BY <1>8 DEF x, y, z

-----------------------------------------------------------------------------
(* Every state of a bscl_packet_t. *)
Sound(p) == /\ p \in PacketType /\ Count(p.mo) <= Size
            /\ p.stat = HEAD => p.left \in 1 .. HeaderSize

LEMMA SoundFacts ==
  ASSUME NEW p, Sound(p)
  PROVE  /\ Valid(p.mo) /\ p.mo \in BufferType
         /\ p.left \in 0 .. Top - 1 /\ p.left \in Nat
         /\ p.stat \in {SYNC, HEAD, DATA, CRC, PARSE}
         /\ Contents(p.mo) \in Seq(Byte) /\ Len(Contents(p.mo)) = Count(p.mo)
         /\ Count(p.mo) \in 0 .. Size
<1>1. p.mo \in BufferType /\ p.left \in 0 .. Top - 1 /\ p.stat \in {SYNC, HEAD, DATA, CRC, PARSE}
  BY DEF Sound, PacketType, Top
<1>2. Valid(p.mo)
  BY <1>1 DEF Sound, Valid
<1>3. p.left \in Nat
  BY <1>1, PacketConstants
<1> QED BY <1>1, <1>2, <1>3, CountIsLen

LEMMA MakeSound ==
  ASSUME NEW p, NEW mo, NEW left, NEW stat, p = [mo |-> mo, left |-> left, stat |-> stat],
         Valid(mo), left \in 0 .. Top - 1, stat \in {SYNC, HEAD, DATA, CRC, PARSE},
         stat = HEAD => left \in 1 .. HeaderSize
  PROVE  Sound(p)
BY DEF Sound, PacketType, Top, Valid

(* It is a record of three fields. *)
LEMMA PacketRecord ==
  ASSUME NEW p, Sound(p)
  PROVE  p = [mo |-> p.mo, left |-> p.left, stat |-> p.stat]
BY DEF Sound, PacketType

(* A write into a buffer that may be too full keeps what fits. *)
LEMMA WriteFits ==
  ASSUME NEW b, Valid(b), NEW data \in Seq(Byte)
  PROVE  Valid(Write(b, data))
<1> DEFINE n == WriteLen(b, data)
<1>1. /\ Len(data) \in Nat /\ Count(b) \in 0 .. Size /\ Space(b) = Size - Count(b)
      /\ Size \in Nat
  BY ValidFacts, SizeFacts
<1>2. n \in 0 .. Len(data) /\ n <= Size - Count(b)
  BY <1>1 DEF WriteLen, Least
<1>3. Write(b, data) = [b EXCEPT !.buf = Place(@, Offset(b.wrp), data, n), !.wrp = Wrap(@ + n)]
  BY DEF Write
<1> HIDE DEF n
<1> QED BY <1>2, <1>3, PlaceAppends

-----------------------------------------------------------------------------
(* bscl_packet_receive takes bytes of its caller's and stays sound, even   *)
(* where the buffer is too small for the packet.                           *)
Typed(r, d) == /\ r = Received(r.pak, r.used, r.ret)
               /\ Sound(r.pak) /\ r.used \in 0 .. Len(d)
               /\ r.ret \in {MOREDATA, READY}

LEMMA AwaitSound ==
  ASSUME NEW p, Sound(p), NEW d \in Seq(Byte), Len(d) < p.left, NEW r, r = Await(p, d)
  PROVE  /\ Typed(r, d)
         /\ r.used = Len(d) /\ r.ret = MOREDATA
         /\ r.pak = [mo |-> Write(p.mo, d), left |-> p.left - Len(d), stat |-> p.stat]
<1> DEFINE q == [mo |-> Write(p.mo, d), left |-> p.left - Len(d), stat |-> p.stat]
<1>1. /\ r.pak = [p EXCEPT !.mo = Write(@, d), !.left = @ - Len(d)]
      /\ r.used = Len(d) /\ r.ret = MOREDATA
  BY DEF Await, Received
<1>2. r.pak = q /\ r.used = Len(d) /\ r.ret = MOREDATA
  <2>1. /\ r.pak.mo = Write(p.mo, d) /\ r.pak.left = p.left - Len(d) /\ r.pak.stat = p.stat
        /\ r.pak = [mo |-> r.pak.mo, left |-> r.pak.left, stat |-> r.pak.stat]
    BY <1>1 DEF Sound, PacketType
  <2> QED BY <1>1, <2>1
<1>3. Valid(Write(p.mo, d)) /\ p.stat \in {SYNC, HEAD, DATA, CRC, PARSE}
  BY SoundFacts, WriteFits
<1>4. /\ Len(d) \in Nat /\ p.left \in 0 .. Top - 1 /\ HeaderSize \in Nat /\ Top \in Nat
      /\ p.stat = HEAD => p.left \in 1 .. HeaderSize
  BY SoundFacts, PacketConstants DEF Sound
<1>5. /\ p.left - Len(d) \in 0 .. Top - 1
      /\ p.stat = HEAD => p.left - Len(d) \in 1 .. HeaderSize
  BY <1>4
<1>6. Sound(q)
  BY <1>3, <1>5, MakeSound
<1>7. r = Received(r.pak, r.used, r.ret)
  BY DEF Await, Received
<1> HIDE DEF q
<1> QED BY <1>2, <1>4, <1>6, <1>7 DEF Typed, q

LEMMA CrcSound ==
  ASSUME NEW p, Sound(p), NEW d \in Seq(Byte), NEW r, r = ReceiveCrc(p, d)
  PROVE  Typed(r, d)
<1>1. CASE Len(d) < p.left
  BY <1>1, AwaitSound DEF ReceiveCrc
<1>2. CASE ~(Len(d) < p.left)
  <2> DEFINE s == SubSeq(d, 1, p.left)
             q == [mo |-> Write(p.mo, s), left |-> p.left, stat |-> p.stat]
  <2>1. p.left \in 0 .. Len(d)
    BY <1>2, SoundFacts
  <2>2. r = Received(q, p.left, READY)
    BY <1>2 DEF ReceiveCrc, Sound, PacketType
  <2>3. s \in Seq(Byte)
    BY <2>1, PrefixFacts
  <2>4. Valid(Write(p.mo, s))
    <3> HIDE DEF s
    <3> QED BY <2>3, SoundFacts, WriteFits
  <2>5. Sound(q)
    <3> HIDE DEF s
    <3>1. /\ p.left \in 0 .. Top - 1 /\ p.stat \in {SYNC, HEAD, DATA, CRC, PARSE}
          /\ p.stat = HEAD => p.left \in 1 .. HeaderSize
      BY SoundFacts DEF Sound
    <3> QED BY <2>4, <3>1, MakeSound
  <2> HIDE DEF q
  <2>6. r.pak = q /\ r.used = p.left /\ r.ret = READY
    BY <2>2 DEF Received
  <2> QED BY <2>1, <2>2, <2>5, <2>6 DEF Typed
<1> QED BY <1>1, <1>2

(* The packet on its way from one part to the next. *)
EnteredCrc(p) == [mo |-> p.mo, left |-> U16(p.left + CrcSize), stat |-> CRC]
EnteredData(p, len) == [mo |-> p.mo, left |-> U16(p.left + len), stat |-> DATA]

LEMMA Entered ==
  ASSUME NEW p, Sound(p)
  PROVE  /\ [p EXCEPT !.stat = CRC, !.left = U16(@ + CrcSize)] = EnteredCrc(p)
         /\ Sound(EnteredCrc(p))
         /\ \A len : [p EXCEPT !.stat = DATA, !.left = U16(@ + len)] = EnteredData(p, len)
         /\ \A len \in Int : Sound(EnteredData(p, len))
<1>1. Valid(p.mo) /\ p.left \in Int /\ CrcSize \in Int
  BY SoundFacts, PacketConstants, SMTT(30)
<1>2. Sound(EnteredCrc(p))
  <2>1. p.left + CrcSize \in Int
    BY <1>1
  <2>2. U16(p.left + CrcSize) \in 0 .. Top - 1
    BY <2>1, U16Facts
  <2>3. CRC \in {SYNC, HEAD, DATA, CRC, PARSE} /\ CRC # HEAD
    BY DEF CRC, HEAD
  <2> QED BY <1>1, <2>2, <2>3, MakeSound DEF EnteredCrc
<1>3. ASSUME NEW len \in Int PROVE Sound(EnteredData(p, len))
  <2>1. p.left + len \in Int
    BY <1>1
  <2>2. U16(p.left + len) \in 0 .. Top - 1
    BY <2>1, U16Facts
  <2>3. DATA \in {SYNC, HEAD, DATA, CRC, PARSE} /\ DATA # HEAD
    BY DEF DATA, HEAD
  <2> QED BY <1>1, <2>2, <2>3, MakeSound DEF EnteredData
<1>4. ASSUME NEW q, q = [p EXCEPT !.stat = CRC, !.left = U16(@ + CrcSize)]
      PROVE  q = EnteredCrc(p)
  <2>1. /\ q.mo = p.mo /\ q.left = U16(p.left + CrcSize) /\ q.stat = CRC
        /\ q = [mo |-> q.mo, left |-> q.left, stat |-> q.stat]
    BY <1>4 DEF Sound, PacketType
  <2> QED BY <2>1 DEF EnteredCrc
<1>5. ASSUME NEW len, NEW q, q = [p EXCEPT !.stat = DATA, !.left = U16(@ + len)]
      PROVE  q = EnteredData(p, len)
  <2>1. /\ q.mo = p.mo /\ q.left = U16(p.left + len) /\ q.stat = DATA
        /\ q = [mo |-> q.mo, left |-> q.left, stat |-> q.stat]
    BY <1>5 DEF Sound, PacketType
  <2> QED BY <2>1 DEF EnteredData
<1> QED BY <1>2, <1>3, <1>4, <1>5, Zenon

LEMMA DataSound ==
  ASSUME NEW p, Sound(p), NEW d \in Seq(Byte), NEW r, r = ReceiveData(p, d)
  PROVE  Typed(r, d)
<1>1. CASE Len(d) < p.left
  BY <1>1, AwaitSound DEF ReceiveData
<1>2. CASE ~(Len(d) < p.left)
  <2>1. r = ReceiveCrc(EnteredCrc(p), d)
    BY <1>2, Entered DEF ReceiveData
  <2> QED BY <2>1, Entered, CrcSound
<1> QED BY <1>1, <1>2

-----------------------------------------------------------------------------
(* The length field, from the bytes that are there: whatever they are, a   *)
(* uint16_t, and the right one if the buffer holds the header's beginning. *)
HeadLen(c) == LenOf(c[LenPos + 1], c[LenPos + 2])

LEMMA HeadLenRange ==
  ASSUME NEW c \in Seq(Byte), HeaderSize <= Len(c)
  PROVE  HeadLen(c) \in 0 .. Top - 1
<1>1. LenPos + 1 \in 1 .. Len(c) /\ LenPos + 2 \in 1 .. Len(c)
  BY PacketConstants
<1>2. c[LenPos + 1] \in Byte /\ c[LenPos + 2] \in Byte
  BY <1>1, ElementOfSeq
<1> QED BY <1>2, LenRange DEF HeadLen

LEMMA StoredBytes ==
  ASSUME NEW b, Valid(b), NEW n \in 1 .. 2, NEW s, s = Copy(b, LenPos, n)
  PROVE  /\ \A i \in 1 .. 2 : (IF i <= Len(s) THEN s[i] ELSE 0) \in Byte
         /\ LenPos + n <= Count(b) =>
              Len(s) = n /\ \A i \in 1 .. n : s[i] = Contents(b)[LenPos + i]
<1> DEFINE c == Contents(b)
<1>1. c \in Seq(Byte) /\ Len(c) = Count(b) /\ Count(b) \in 0 .. Size
  BY CountIsLen
<1>2. LenPos \in Nat /\ n \in Nat /\ LenPos + n < Modulus /\ Size \in Nat
  BY PacketConstants
<1>3. s = SubSeq(c, LenPos + 1, Least(LenPos + n, Len(c)))
  BY <1>2, CopyIsWindow
<1> HIDE DEF c
<1>4. Least(LenPos + n, Len(c)) \in 0 .. Len(c)
  BY <1>1, <1>2 DEF Least
<1>5. s \in Seq(Byte)
  <2>1. \A i \in LenPos + 1 .. Least(LenPos + n, Len(c)) : c[i] \in Byte
    BY <1>1, <1>2, <1>4, ElementOfSeq
  <2> QED BY <1>2, <1>3, <1>4, <2>1, SubSeqProperties
<1>6. 0 \in Byte
  BY PacketConstants
<1>7. \A i \in 1 .. 2 : i <= Len(s) => s[i] \in Byte
  BY <1>5, ElementOfSeq, LenProperties
<1>8. ASSUME LenPos + n <= Len(c)
      PROVE  Len(s) = n /\ \A i \in 1 .. n : s[i] = c[LenPos + i]
  <2>1. Least(LenPos + n, Len(c)) = LenPos + n
    BY <1>1, <1>2, <1>8 DEF Least
  <2>2. \A i \in LenPos + 1 .. LenPos + n : c[i] \in Byte
    BY <1>1, <1>2, <1>8, ElementOfSeq
  <2>3. s = SubSeq(c, LenPos + 1, LenPos + n)
    BY <1>3, <2>1
  <2>4. /\ Len(s) = IF LenPos + 1 <= LenPos + n THEN LenPos + n - (LenPos + 1) + 1 ELSE 0
        /\ \A i \in 1 .. LenPos + n - (LenPos + 1) + 1 : s[i] = c[LenPos + 1 + i - 1]
    BY <1>2, <2>2, <2>3, SubSeqProperties
  <2>5. LenPos + n - (LenPos + 1) + 1 = n /\ LenPos + 1 <= LenPos + n
    BY <1>2
  <2>6. \A i \in 1 .. n : LenPos + 1 + i - 1 = LenPos + i
    BY <1>2
  <2> QED BY <2>4, <2>5, <2>6
<1> QED BY <1>1, <1>6, <1>7, <1>8 DEF c

LEMMA LenFieldFacts ==
  ASSUME NEW p, Sound(p), p.stat = HEAD, NEW d \in Seq(Byte), p.left <= Len(d)
  PROVE  /\ LenField(p, d) \in 0 .. Top - 1
         /\ Count(p.mo) + p.left = HeaderSize => LenField(p, d) = HeadLen(Contents(p.mo) \o d)
<1> DEFINE have == HeaderSize - p.left
           c == Contents(p.mo)
           s1 == Copy(p.mo, LenPos, 1)
           s2 == Copy(p.mo, LenPos, 2)
           at(s, i) == IF i <= Len(s) THEN s[i] ELSE 0
<1>1. /\ p.left \in 1 .. HeaderSize /\ have \in 0 .. HeaderSize - 1
      /\ HeaderSize \in Nat /\ LenPos \in Nat /\ LenPos + 2 <= HeaderSize
      /\ Len(d) \in Nat /\ p.left <= Len(d)
  BY SoundFacts, PacketConstants DEF Sound
<1>2. /\ Valid(p.mo) /\ c \in Seq(Byte) /\ Len(c) = Count(p.mo)
  BY SoundFacts
<1>3. LenField(p, d) =
        IF have <= LenPos THEN LenOf(d[LenPos - have + 1], d[LenPos - have + 2])
        ELSE IF have = LenPos + 1 THEN LenOf(at(s1, 1), d[1])
        ELSE LenOf(at(s2, 1), at(s2, 2))
  BY DEF LenField
<1>4. /\ at(s1, 1) \in Byte
      /\ at(s2, 1) \in Byte /\ at(s2, 2) \in Byte
      /\ LenPos + 1 <= Len(c) => at(s1, 1) = c[LenPos + 1]
      /\ LenPos + 2 <= Len(c) => at(s2, 1) = c[LenPos + 1] /\ at(s2, 2) = c[LenPos + 2]
  <2>1. /\ \A i \in 1 .. 2 : at(s1, i) \in Byte
        /\ LenPos + 1 <= Count(p.mo) =>
              Len(s1) = 1 /\ \A i \in 1 .. 1 : s1[i] = Contents(p.mo)[LenPos + i]
    BY <1>2, StoredBytes
  <2>2. /\ \A i \in 1 .. 2 : at(s2, i) \in Byte
        /\ LenPos + 2 <= Count(p.mo) =>
              Len(s2) = 2 /\ \A i \in 1 .. 2 : s2[i] = Contents(p.mo)[LenPos + i]
    BY <1>2, StoredBytes
  <2> HIDE DEF s1, s2
  <2> QED BY <1>2, <2>1, <2>2
<1>5. \A i \in 1 .. Len(d) : d[i] \in Byte
  BY ElementOfSeq
<1> HIDE DEF at, s1, s2, c
<1>6. LenField(p, d) \in 0 .. Top - 1
  <2>1. CASE have <= LenPos
    <3>1. LenPos - have + 1 \in 1 .. Len(d) /\ LenPos - have + 2 \in 1 .. Len(d)
      BY <1>1, <2>1, SMTT(30)
    <3>2. d[LenPos - have + 1] \in Byte /\ d[LenPos - have + 2] \in Byte
      BY <1>5, <3>1
    <3> QED BY <1>3, <2>1, <3>2, LenRange
  <2>2. CASE have = LenPos + 1
    <3>1. d[1] \in Byte /\ ~(have <= LenPos)
      BY <1>1, <1>5, <2>2
    <3> QED BY <1>3, <1>4, <2>2, <3>1, LenRange
  <2>3. CASE ~(have <= LenPos) /\ have # LenPos + 1
    BY <1>3, <1>4, <2>3, LenRange
  <2> QED BY <2>1, <2>2, <2>3
<1>7. ASSUME Count(p.mo) + p.left = HeaderSize
      PROVE  LenField(p, d) = HeadLen(c \o d)
  <2> DEFINE e == c \o d
  <2>1. Len(c) = have /\ have \in Nat
    BY <1>1, <1>2, <1>7
  <2>2. \A i \in 1 .. have + Len(d) : e[i] = IF i <= have THEN c[i] ELSE d[i - have]
    BY <1>2, <2>1, ConcatProperties
  <2> HIDE DEF e
  <2>3. HeadLen(e) = LenOf(e[LenPos + 1], e[LenPos + 2])
    BY DEF HeadLen
  <2>4. LenPos + 1 \in 1 .. have + Len(d) /\ LenPos + 2 \in 1 .. have + Len(d)
    BY <1>1
  <2>5. CASE have <= LenPos
    <3>0. ~(LenPos + 1 <= have) /\ ~(LenPos + 2 <= have)
      BY <1>1, <2>5
    <3>1. e[LenPos + 1] = d[LenPos + 1 - have] /\ e[LenPos + 2] = d[LenPos + 2 - have]
      <4> HIDE DEF have
      <4> QED BY <1>1, <2>1, <2>2, <2>4, <3>0
    <3>2. LenPos + 1 - have = LenPos - have + 1 /\ LenPos + 2 - have = LenPos - have + 2
      BY <1>1
    <3> QED BY <1>3, <2>3, <2>5, <3>1, <3>2 DEF e
  <2>6. CASE have = LenPos + 1
    <3>0. LenPos + 1 <= have /\ ~(LenPos + 2 <= have)
      BY <1>1, <2>6
    <3>1. e[LenPos + 1] = c[LenPos + 1] /\ e[LenPos + 2] = d[LenPos + 2 - have]
      <4> HIDE DEF have
      <4> QED BY <1>1, <2>1, <2>2, <2>4, <3>0
    <3>2. LenPos + 2 - have = 1 /\ ~(have <= LenPos) /\ LenPos + 1 <= Len(c)
      BY <1>1, <2>1, <2>6
    <3> QED BY <1>3, <1>4, <2>3, <2>6, <3>1, <3>2 DEF e
  <2>7. CASE ~(have <= LenPos) /\ have # LenPos + 1
    <3>1. LenPos + 2 <= have
      BY <1>1, <2>7
    <3>2. e[LenPos + 1] = c[LenPos + 1] /\ e[LenPos + 2] = c[LenPos + 2]
      BY <1>1, <2>2, <2>4, <3>1
    <3> QED BY <1>3, <1>4, <2>1, <2>3, <2>7, <3>1, <3>2 DEF e
  <2> QED BY <2>5, <2>6, <2>7
<1> QED BY <1>6, <1>7 DEF c

-----------------------------------------------------------------------------
LEMMA HeadSound ==
  ASSUME NEW p, Sound(p), p.stat = HEAD, NEW d \in Seq(Byte), NEW r, r = ReceiveHead(p, d)
  PROVE  Typed(r, d)
<1>1. CASE Len(d) < p.left
  BY <1>1, AwaitSound DEF ReceiveHead
<1>2. CASE ~(Len(d) < p.left)
  <2> DEFINE len == LenField(p, d)
  <2>1. len \in Int
    <3>1. p.left <= Len(d)
      BY <1>2, SoundFacts
    <3>2. len \in 0 .. Top - 1
      BY <3>1, LenFieldFacts
    <3> QED BY <3>2, PacketConstants
  <2>2. r = ReceiveData(EnteredData(p, len), d)
    BY <1>2, Entered DEF ReceiveHead
  <2> HIDE DEF len
  <2> QED BY <2>1, <2>2, Entered, DataSound
<1> QED BY <1>1, <1>2

(* A header begins in an empty packet. *)
Begun(p) == [mo |-> p.mo, left |-> HeaderSize, stat |-> HEAD]

LEMMA BegunSound ==
  ASSUME NEW p, Sound(p)
  PROVE  /\ [p EXCEPT !.stat = HEAD, !.left = HeaderSize] = Begun(p)
         /\ Sound(Begun(p))
<1>1. ASSUME NEW q, q = [p EXCEPT !.stat = HEAD, !.left = HeaderSize]
      PROVE  q = Begun(p)
  <2>1. /\ q.mo = p.mo /\ q.left = HeaderSize /\ q.stat = HEAD
        /\ q = [mo |-> q.mo, left |-> q.left, stat |-> q.stat]
    BY <1>1 DEF Sound, PacketType
  <2> QED BY <2>1 DEF Begun
<1>2. Sound(Begun(p))
  <2>1. HeaderSize \in 0 .. Top - 1 /\ HeaderSize \in 1 .. HeaderSize
    BY PacketConstants
  <2> QED BY <2>1, SoundFacts, MakeSound DEF Begun
<1> QED BY <1>1, <1>2, Zenon

(* What receive skips up to the magic byte, and where it cuts the rest. *)
Magics(d) == {i \in 1 .. Len(d) : d[i] = Magic}
Skip(d) == (CHOOSE i \in Magics(d) : \A j \in Magics(d) : i <= j) - 1
Cut(p, d) == IF Space(p.mo) < Len(d) - Skip(d) THEN Space(p.mo) + Skip(d) ELSE Len(d)

LEMMA SyncFacts ==
  ASSUME NEW p, Sound(p), NEW d \in Seq(Byte), NEW r, r = ReceiveSync(p, d)
  PROVE  /\ Magics(d) = {} => r = Received(p, Len(d), MOREDATA)
         /\ Magics(d) # {} =>
              /\ Skip(d) \in 0 .. Len(d) - 1 /\ Cut(p, d) \in Skip(d) .. Len(d)
              /\ d[Skip(d) + 1] = Magic
              /\ \A i \in 1 .. Skip(d) : d[i] # Magic
              /\ IF Skip(d) = Cut(p, d) THEN r = Received(Begun(p), Cut(p, d), MOREDATA)
                 ELSE r = [ReceiveHead(Begun(p), SubSeq(d, Skip(d) + 1, Cut(p, d)))
                             EXCEPT !.used = @ + Skip(d)]
<1>1. r = IF Magics(d) = {} THEN Received(p, Len(d), MOREDATA)
          ELSE IF Skip(d) = Cut(p, d) THEN Received(Begun(p), Cut(p, d), MOREDATA)
          ELSE [ReceiveHead(Begun(p), SubSeq(d, Skip(d) + 1, Cut(p, d)))
                  EXCEPT !.used = @ + Skip(d)]
  <2> DEFINE head == [p EXCEPT !.stat = HEAD, !.left = HeaderSize]
  <2>1. r = IF Magics(d) = {} THEN Received(p, Len(d), MOREDATA)
            ELSE IF Skip(d) = Cut(p, d) THEN Received(head, Cut(p, d), MOREDATA)
            ELSE [ReceiveHead(head, SubSeq(d, Skip(d) + 1, Cut(p, d)))
                    EXCEPT !.used = @ + Skip(d)]
    BY Zenon DEF ReceiveSync, Magics, Skip, Cut
  <2>2. head = Begun(p)
    BY BegunSound
  <2> HIDE DEF head
  <2> QED BY <2>1, <2>2, Zenon
<1>2. ASSUME Magics(d) # {}
      PROVE  /\ Skip(d) \in 0 .. Len(d) - 1 /\ Cut(p, d) \in Skip(d) .. Len(d)
             /\ d[Skip(d) + 1] = Magic
             /\ \A i \in 1 .. Skip(d) : d[i] # Magic
  <2> DEFINE m == CHOOSE i \in Magics(d) : \A j \in Magics(d) : i <= j
  <2>1. Magics(d) \subseteq Nat /\ Len(d) \in Nat
    BY DEF Magics
  <2>2. m \in Magics(d) /\ \A j \in Magics(d) : m <= j
    BY <1>2, <2>1, ChosenMinimum
  <2>3. Skip(d) = m - 1
    BY DEF Skip
  <2> HIDE DEF m
  <2>4. m \in 1 .. Len(d) /\ d[m] = Magic
    BY <2>2 DEF Magics
  <2>5. Skip(d) \in 0 .. Len(d) - 1 /\ Skip(d) + 1 = m
    BY <2>1, <2>3, <2>4
  <2>6. ASSUME NEW i \in 1 .. Skip(d) PROVE d[i] # Magic
    <3>1. i \in 1 .. Len(d) /\ i < m
      BY <2>1, <2>4, <2>5
    <3> QED BY <2>2, <3>1, <2>4 DEF Magics
  <2>7. Cut(p, d) \in Skip(d) .. Len(d)
    <3>1. Space(p.mo) \in 0 .. Size /\ Size \in Nat
      BY SoundFacts, ValidFacts, SizeFacts
    <3> QED BY <2>1, <2>5, <3>1 DEF Cut
  <2> QED BY <2>4, <2>5, <2>6, <2>7
<1> QED BY <1>1, <1>2

LEMMA SyncSound ==
  ASSUME NEW p, Sound(p), NEW d \in Seq(Byte), NEW r, r = ReceiveSync(p, d)
  PROVE  Typed(r, d)
<1> DEFINE k == Skip(d)
           e == Cut(p, d)
           s == SubSeq(d, k + 1, e)
           h == ReceiveHead(Begun(p), s)
<1>1. Len(d) \in Nat
  OBVIOUS
<1>2. CASE Magics(d) = {}
  <2>1. r = Received(p, Len(d), MOREDATA)
    BY <1>2, SyncFacts
  <2> QED BY <1>1, <2>1 DEF Typed, Received
<1>3. CASE Magics(d) # {}
  <2>1. /\ k \in 0 .. Len(d) - 1 /\ e \in k .. Len(d)
        /\ IF k = e THEN r = Received(Begun(p), e, MOREDATA)
           ELSE r = [h EXCEPT !.used = @ + k]
    BY <1>3, SyncFacts
  <2>2. CASE k = e
    <3>1. e \in 0 .. Len(d)
      BY <1>1, <2>1
    <3>2. r = Received(Begun(p), e, MOREDATA)
      BY <2>1, <2>2
    <3>3. r.pak = Begun(p) /\ r.used = e /\ r.ret = MOREDATA
      BY <3>2 DEF Received
    <3> HIDE DEF h, s, k, e
    <3> QED BY <3>1, <3>2, <3>3, BegunSound DEF Typed
  <2>3. CASE k # e
    <3>1. s \in Seq(Byte) /\ Len(s) = e - k
      <4> HIDE DEF k, e
      <4>1. k + 1 \in Int /\ e \in Int /\ k + 1 <= e /\ e - (k + 1) + 1 = e - k
        BY <1>1, <2>1, <2>3
      <4>2. \A i \in k + 1 .. e : d[i] \in Byte
        BY <1>1, <2>1, ElementOfSeq
      <4> QED BY <4>1, <4>2, SubSeqProperties
    <3>2. Typed(h, s)
      <4>1. Sound(Begun(p)) /\ Begun(p).stat = HEAD
        BY BegunSound DEF Begun
      <4> HIDE DEF s
      <4> QED BY <3>1, <4>1, HeadSound
    <3> HIDE DEF h, s
    <3>3. r = [h EXCEPT !.used = @ + k]
      BY <2>1, <2>3
    <3>4. h = [pak |-> h.pak, used |-> h.used, ret |-> h.ret]
      BY <3>2 DEF Typed, Received
    <3>5. r = [pak |-> h.pak, used |-> h.used + k, ret |-> h.ret]
      BY <3>3, <3>4
    <3>6. h.used + k \in 0 .. Len(d)
      <4>1. h.used \in 0 .. e - k
        BY <3>1, <3>2 DEF Typed
      <4> HIDE DEF k, e
      <4> QED BY <1>1, <2>1, <4>1
    <3> QED BY <3>2, <3>5, <3>6 DEF Typed, Received
  <2> QED BY <2>2, <2>3
<1> QED BY <1>2, <1>3

LEMMA ReceiveCases ==
  ASSUME NEW p, NEW d
  PROVE  /\ p.stat = SYNC => Receive(p, d) = ReceiveSync(p, d)
         /\ p.stat = HEAD => Receive(p, d) = ReceiveHead(p, d)
         /\ p.stat = DATA => Receive(p, d) = ReceiveData(p, d)
         /\ p.stat = CRC => Receive(p, d) = ReceiveCrc(p, d)
         /\ p.stat = PARSE => Receive(p, d) = Received(p, Len(d), MOREDATA)
<1>1. CASE p.stat = SYNC
  BY <1>1 DEF Receive, SYNC, HEAD, DATA, CRC, PARSE
<1>2. CASE p.stat = HEAD
  BY <1>2 DEF Receive, SYNC, HEAD, DATA, CRC, PARSE
<1>3. CASE p.stat = DATA
  BY <1>3 DEF Receive, SYNC, HEAD, DATA, CRC, PARSE
<1>4. CASE p.stat = CRC
  BY <1>4 DEF Receive, SYNC, HEAD, DATA, CRC, PARSE
<1>5. CASE p.stat = PARSE
  BY <1>5 DEF Receive, SYNC, HEAD, DATA, CRC, PARSE
<1> QED BY <1>1, <1>2, <1>3, <1>4, <1>5

LEMMA ReceiveSound ==
  ASSUME NEW p, Sound(p), NEW d \in Seq(Byte), NEW r, r = Receive(p, d)
  PROVE  Typed(r, d)
<1>1. CASE p.stat = SYNC
  BY <1>1, ReceiveCases, SyncSound
<1>2. CASE p.stat = HEAD
  BY <1>2, ReceiveCases, HeadSound
<1>3. CASE p.stat = DATA
  BY <1>3, ReceiveCases, DataSound
<1>4. CASE p.stat = CRC
  BY <1>4, ReceiveCases, CrcSound
<1>5. CASE p.stat = PARSE
  <2>1. r = Received(p, Len(d), MOREDATA)
    BY <1>5, ReceiveCases
  <2>2. Len(d) \in Nat
    OBVIOUS
  <2> QED BY <2>1, <2>2 DEF Typed, Received
<1> QED BY <1>1, <1>2, <1>3, <1>4, <1>5, SoundFacts

-----------------------------------------------------------------------------
(* bscl_packet_receive_byte, case for case. *)
Pak(mo, left, stat) == [mo |-> mo, left |-> left, stat |-> stat]

LEMMA PakFacts ==
  ASSUME NEW mo, NEW left, NEW stat, NEW p, p = Pak(mo, left, stat)
  PROVE  /\ p.mo = mo /\ p.left = left /\ p.stat = stat
         /\ EnterCrc(p) = Pak(mo, CrcSize, CRC)
         /\ DoParse(p) = Returned(Pak(mo, left, PARSE), IF stat # PARSE THEN 1 ELSE 0)
<1>1. p.mo = mo /\ p.left = left /\ p.stat = stat
  BY DEF Pak
<1>2. EnterCrc(p) = Pak(mo, CrcSize, CRC)
  <2>1. EnterCrc(p) = [[p EXCEPT !.stat = CRC] EXCEPT !.left = CrcSize]
    BY DEF EnterCrc
  <2>2. [p EXCEPT !.stat = CRC] = Pak(mo, left, CRC)
    BY DEF Pak
  <2>3. [Pak(mo, left, CRC) EXCEPT !.left = CrcSize] = Pak(mo, CrcSize, CRC)
    BY DEF Pak
  <2> QED BY <2>1, <2>2, <2>3
<1>3. DoParse(p) = Returned(Pak(mo, left, PARSE), IF stat # PARSE THEN 1 ELSE 0)
  <2> DEFINE q == [p EXCEPT !.stat = PARSE]
  <2>1. DoParse(p) = Returned(q, IF p.stat # PARSE THEN 1 ELSE 0)
    BY Zenon DEF DoParse
  <2>2. q = Pak(mo, left, PARSE)
    BY DEF Pak
  <2> HIDE DEF q
  <2> QED BY <1>1, <2>1, <2>2
<1> QED BY <1>1, <1>2, <1>3

LEMMA HeadDoneFacts ==
  ASSUME NEW mo, NEW left, NEW stat, NEW p, p = Pak(mo, left, stat), stat # PARSE,
         NEW len, len = CopyChar(mo, LenPos)
  PROVE  ByteHeadDone(p) = IF len < 0 THEN Returned(Pak(mo, left, PARSE), 1)
                           ELSE IF len = 0 THEN Returned(Pak(mo, CrcSize, CRC), 0)
                           ELSE Returned(Pak(mo, len, DATA), 0)
<1> DEFINE q == [p EXCEPT !.left = len, !.stat = DATA]
<1>1. p.mo = mo
  BY PakFacts
<1>2. ByteHeadDone(p) = IF CopyChar(p.mo, LenPos) < 0 THEN DoParse(p)
                        ELSE IF CopyChar(p.mo, LenPos) = 0 THEN Returned(EnterCrc(p), 0)
                        ELSE Returned([p EXCEPT !.left = CopyChar(p.mo, LenPos), !.stat = DATA], 0)
  BY Zenon DEF ByteHeadDone
<1>3. ByteHeadDone(p) = IF len < 0 THEN DoParse(p)
                        ELSE IF len = 0 THEN Returned(EnterCrc(p), 0)
                        ELSE Returned(q, 0)
  BY <1>1, <1>2
<1>4. q = Pak(mo, len, DATA)
  <2>1. q = [[p EXCEPT !.left = len] EXCEPT !.stat = DATA]
    OBVIOUS
  <2>2. [p EXCEPT !.left = len] = Pak(mo, len, stat)
    BY DEF Pak
  <2>3. [Pak(mo, len, stat) EXCEPT !.stat = DATA] = Pak(mo, len, DATA)
    BY DEF Pak
  <2> QED BY <2>1, <2>2, <2>3
<1> HIDE DEF q
<1> QED BY <1>3, <1>4, PakFacts

LEMMA ByteFacts ==
  ASSUME NEW p, Sound(p), NEW c, NEW r, r = ReceiveByte(p, c),
         NEW mo, mo = Putc(p.mo, c), NEW l, l = U16(p.left - 1),
         NEW len, len = CopyChar(mo, LenPos)
  PROVE  /\ Space(mo) = 0 \/ p.stat = PARSE =>
              r = Returned(Pak(mo, p.left, PARSE), IF p.stat # PARSE THEN 1 ELSE 0)
         /\ Space(mo) # 0 /\ p.stat = SYNC =>
              r = Returned(IF c = Magic THEN Pak(mo, HeaderSize - 1, HEAD)
                           ELSE Pak(DropChar(mo), p.left, SYNC), 0)
         /\ Space(mo) # 0 /\ p.stat = HEAD =>
              r = IF l # 0 THEN Returned(Pak(mo, l, HEAD), 0)
                  ELSE IF len < 0 THEN Returned(Pak(mo, l, PARSE), 1)
                  ELSE IF len = 0 THEN Returned(Pak(mo, CrcSize, CRC), 0)
                  ELSE Returned(Pak(mo, len, DATA), 0)
         /\ Space(mo) # 0 /\ p.stat = DATA =>
              r = Returned(IF l = 0 THEN Pak(mo, CrcSize, CRC) ELSE Pak(mo, l, DATA), 0)
         /\ Space(mo) # 0 /\ p.stat = CRC =>
              r = IF l = 0 THEN Returned(Pak(mo, l, PARSE), 1) ELSE Returned(Pak(mo, l, CRC), 0)
<1> DEFINE q == [p EXCEPT !.mo = Putc(@, c)]
           less == [q EXCEPT !.left = U16(@ - 1)]
           begun == [q EXCEPT !.stat = HEAD, !.left = HeaderSize - 1]
           skipped == [q EXCEPT !.mo = DropChar(@)]
           done == [less EXCEPT !.stat = PARSE]
<1>1. r = CASE Space(q.mo) = 0 -> DoParse(q)
            [] Space(q.mo) # 0 /\ q.stat = SYNC -> Returned(IF c = Magic THEN begun ELSE skipped, 0)
            [] Space(q.mo) # 0 /\ q.stat = HEAD ->
                 IF less.left = 0 THEN ByteHeadDone(less) ELSE Returned(less, 0)
            [] Space(q.mo) # 0 /\ q.stat = DATA ->
                 Returned(IF less.left = 0 THEN EnterCrc(less) ELSE less, 0)
            [] Space(q.mo) # 0 /\ q.stat = CRC ->
                 IF less.left = 0 THEN Returned(done, 1) ELSE Returned(less, 0)
            [] OTHER -> DoParse(q)
  BY Zenon DEF ReceiveByte
<1>2. q = Pak(mo, p.left, p.stat)
  <2>1. p = Pak(p.mo, p.left, p.stat)
    BY PacketRecord DEF Pak
  <2> QED BY <2>1 DEF Pak
<1>3. less = Pak(mo, l, p.stat)
  <2> HIDE DEF q
  <2> QED BY <1>2 DEF Pak
<1>4. begun = Pak(mo, HeaderSize - 1, HEAD)
  <2> HIDE DEF q
  <2>1. begun = [[q EXCEPT !.stat = HEAD] EXCEPT !.left = HeaderSize - 1]
    OBVIOUS
  <2>2. [q EXCEPT !.stat = HEAD] = Pak(mo, p.left, HEAD)
    BY <1>2 DEF Pak
  <2>3. [Pak(mo, p.left, HEAD) EXCEPT !.left = HeaderSize - 1] = Pak(mo, HeaderSize - 1, HEAD)
    BY DEF Pak
  <2> QED BY <2>1, <2>2, <2>3
<1>5. skipped = Pak(DropChar(mo), p.left, p.stat)
  <2> HIDE DEF q
  <2> QED BY <1>2 DEF Pak
<1>6. done = Pak(mo, l, PARSE)
  <2> HIDE DEF less
  <2> QED BY <1>3 DEF Pak
<1> HIDE DEF q, less, begun, skipped, done
<1>7. q.mo = mo /\ q.stat = p.stat /\ less.left = l
  BY <1>2, <1>3, PakFacts
<1>8. DoParse(q) = Returned(Pak(mo, p.left, PARSE), IF p.stat # PARSE THEN 1 ELSE 0)
  BY <1>2, PakFacts
<1>9. EnterCrc(less) = Pak(mo, CrcSize, CRC)
  BY <1>3, PakFacts
<1>10. ASSUME p.stat # PARSE
       PROVE  ByteHeadDone(less) = IF len < 0 THEN Returned(Pak(mo, l, PARSE), 1)
                                   ELSE IF len = 0 THEN Returned(Pak(mo, CrcSize, CRC), 0)
                                   ELSE Returned(Pak(mo, len, DATA), 0)
  BY <1>3, <1>10, HeadDoneFacts
<1>11. /\ SYNC # HEAD /\ SYNC # DATA /\ SYNC # CRC /\ SYNC # PARSE /\ HEAD # DATA
       /\ HEAD # CRC /\ HEAD # PARSE /\ DATA # CRC /\ DATA # PARSE /\ CRC # PARSE
  BY DEF SYNC, HEAD, DATA, CRC, PARSE
<1>12. CASE Space(mo) = 0
  <2>1. r = DoParse(q)
    BY <1>1, <1>7, <1>12
  <2> QED BY <1>8, <1>12, <2>1
<1>13. CASE Space(mo) # 0 /\ p.stat = PARSE
  <2>1. r = DoParse(q)
    BY <1>1, <1>7, <1>11, <1>13
  <2> QED BY <1>8, <1>11, <1>13, <2>1
<1>14. CASE Space(mo) # 0 /\ p.stat = SYNC
  BY <1>1, <1>4, <1>5, <1>7, <1>11, <1>14
<1>15. CASE Space(mo) # 0 /\ p.stat = HEAD
  BY <1>1, <1>3, <1>7, <1>10, <1>11, <1>15
<1>16. CASE Space(mo) # 0 /\ p.stat = DATA
  BY <1>1, <1>3, <1>7, <1>9, <1>11, <1>16
<1>17. CASE Space(mo) # 0 /\ p.stat = CRC
  BY <1>1, <1>3, <1>6, <1>7, <1>11, <1>17
<1> QED BY <1>12, <1>13, <1>14, <1>15, <1>16, <1>17, SoundFacts

LEMMA ReturnedFacts ==
  ASSUME NEW a, NEW b, NEW r, r = Returned(a, b)
  PROVE  r.pak = a /\ r.ret = b
BY DEF Returned

(* What the buffer holds after one more byte, if there is room for it. *)
LEMMA PutFacts ==
  ASSUME NEW b, Valid(b), NEW c \in Byte, NEW mo, mo = Putc(b, c)
  PROVE  /\ Valid(mo)
         /\ Count(b) < Size => /\ Contents(mo) = Contents(b) \o << c >>
                               /\ Count(mo) = Count(b) + 1
<1> DEFINE s == << c >>
<1>1. s \in Seq(Byte) /\ Len(s) = 1
  OBVIOUS
<1>2. mo = Write(b, s)
  BY PutcIsWrite
<1> HIDE DEF s
<1>3. Valid(mo)
  BY <1>1, <1>2, WriteFits
<1>4. Count(b) < Size => Len(s) <= Size - Count(b)
  BY <1>1, CountIsLen
<1> QED BY <1>1, <1>2, <1>3, <1>4, WriteAppends DEF s

LEMMA ByteSound ==
  ASSUME NEW p, Sound(p), NEW c \in Byte, NEW r, r = ReceiveByte(p, c)
  PROVE  Sound(r.pak) /\ r.ret \in {0, 1}
<1> DEFINE mo == Putc(p.mo, c)
           l == U16(p.left - 1)
           len == CopyChar(mo, LenPos)
           P(m, x, s, y) == /\ r = Returned(Pak(m, x, s), y)
                            /\ Valid(m) /\ x \in 0 .. Top - 1
                            /\ s \in {SYNC, HEAD, DATA, CRC, PARSE}
                            /\ s = HEAD => x \in 1 .. HeaderSize
                            /\ y \in {0, 1}
<1> SUFFICES \E m, x, s, y : P(m, x, s, y)
  <2>1. PICK m, x, s, y : P(m, x, s, y)
    OBVIOUS
  <2>2. r.pak = Pak(m, x, s) /\ r.ret = y
    BY <2>1, ReturnedFacts
  <2> QED BY <2>1, <2>2, MakeSound DEF Pak
<1>1. /\ p.left \in 0 .. Top - 1 /\ p.left - 1 \in Int /\ l \in 0 .. Top - 1
      /\ p.left \in 1 .. Top - 1 => l = p.left - 1
  <2>1. p.left \in 0 .. Top - 1 /\ p.left - 1 \in Int /\ Top \in Nat
    BY SoundFacts, PacketConstants
  <2>2. p.left \in 1 .. Top - 1 => p.left - 1 \in 0 .. Top - 1
    BY <2>1
  <2> QED BY <2>1, <2>2, U16Facts
<1>2. Valid(mo) /\ Valid(DropChar(mo))
  <2>1. Valid(mo)
    BY SoundFacts, PutFacts
  <2> HIDE DEF mo
  <2>2. 1 \in Nat
    OBVIOUS
  <2> QED BY <2>1, <2>2, DropTakes DEF DropChar
<1>3. len < 0 \/ len \in Byte
  <2>1. CopyChar(mo, LenPos) = IF Count(mo) < LenPos THEN -1 ELSE mo.buf[Offset(mo.rdp + LenPos)]
    BY DEF CopyChar
  <2>2. mo.buf[Offset(mo.rdp + LenPos)] \in Byte
    <3> HIDE DEF mo
    <3>0. mo.rdp \in Int /\ mo.buf \in [0 .. Size - 1 -> Byte]
      BY <1>2, ValidFacts
    <3>1. mo.rdp \in Int /\ mo.buf \in [0 .. Size - 1 -> Byte] /\ LenPos \in Int
      BY <3>0, PacketConstants
    <3>2. mo.rdp + LenPos \in Int /\ 0 \in 0 .. Size - 1
      BY <3>1, PacketConstants
    <3>3. Offset(mo.rdp + LenPos) \in 0 .. Size - 1
      BY <3>2, OffsetStep
    <3> QED BY <3>1, <3>3
  <2> QED BY <2>1, <2>2
<1>4. /\ \A x \in Byte : x \in 0 .. Top - 1
      /\ CrcSize \in 0 .. Top - 1 /\ HeaderSize - 1 \in 1 .. HeaderSize
      /\ HeaderSize - 1 \in 0 .. Top - 1
  BY PacketConstants
<1>5. /\ Space(mo) = 0 \/ p.stat = PARSE =>
           r = Returned(Pak(mo, p.left, PARSE), IF p.stat # PARSE THEN 1 ELSE 0)
      /\ Space(mo) # 0 /\ p.stat = SYNC =>
           r = Returned(IF c = Magic THEN Pak(mo, HeaderSize - 1, HEAD)
                        ELSE Pak(DropChar(mo), p.left, SYNC), 0)
      /\ Space(mo) # 0 /\ p.stat = HEAD =>
           r = IF l # 0 THEN Returned(Pak(mo, l, HEAD), 0)
               ELSE IF len < 0 THEN Returned(Pak(mo, l, PARSE), 1)
               ELSE IF len = 0 THEN Returned(Pak(mo, CrcSize, CRC), 0)
               ELSE Returned(Pak(mo, len, DATA), 0)
      /\ Space(mo) # 0 /\ p.stat = DATA =>
           r = Returned(IF l = 0 THEN Pak(mo, CrcSize, CRC) ELSE Pak(mo, l, DATA), 0)
      /\ Space(mo) # 0 /\ p.stat = CRC =>
           r = IF l = 0 THEN Returned(Pak(mo, l, PARSE), 1) ELSE Returned(Pak(mo, l, CRC), 0)
  BY ByteFacts
<1>6. /\ SYNC # HEAD /\ DATA # HEAD /\ CRC # HEAD /\ PARSE # HEAD
  BY DEF SYNC, HEAD, DATA, CRC, PARSE
<1> HIDE DEF mo, l, len
<1>7. CASE Space(mo) = 0 \/ p.stat = PARSE
  <2>1. P(mo, p.left, PARSE, IF p.stat # PARSE THEN 1 ELSE 0)
    BY <1>1, <1>2, <1>5, <1>6, <1>7
  <2> HIDE DEF P
  <2> QED BY <2>1
<1>8. CASE Space(mo) # 0 /\ p.stat = SYNC
  <2>1. CASE c = Magic
    <3>1. P(mo, HeaderSize - 1, HEAD, 0)
      BY <1>2, <1>4, <1>5, <1>8, <2>1
    <3> HIDE DEF P
    <3> QED BY <3>1
  <2>2. CASE c # Magic
    <3>1. P(DropChar(mo), p.left, SYNC, 0)
      BY <1>1, <1>2, <1>5, <1>6, <1>8, <2>2
    <3> HIDE DEF P
    <3> QED BY <3>1
  <2> QED BY <2>1, <2>2
<1>9. CASE Space(mo) # 0 /\ p.stat = HEAD
  <2>1. CASE l # 0
    <3>1. l \in 1 .. HeaderSize
      <4>1. p.left \in 1 .. HeaderSize /\ HeaderSize \in Nat /\ HeaderSize < Top /\ Top \in Nat
        BY <1>9, PacketConstants DEF Sound
      <4>2. p.left \in 1 .. Top - 1
        BY <4>1
      <4> QED BY <1>1, <2>1, <4>1, <4>2
    <3>2. P(mo, l, HEAD, 0)
      BY <1>1, <1>2, <1>5, <1>9, <2>1, <3>1
    <3> HIDE DEF P
    <3> QED BY <3>2
  <2>2. CASE l = 0 /\ len < 0
    <3>1. P(mo, l, PARSE, 1)
      BY <1>1, <1>2, <1>5, <1>6, <1>9, <2>2
    <3> HIDE DEF P
    <3> QED BY <3>1
  <2>3. CASE l = 0 /\ ~(len < 0) /\ len = 0
    <3>1. P(mo, CrcSize, CRC, 0)
      BY <1>2, <1>4, <1>5, <1>6, <1>9, <2>3
    <3> HIDE DEF P
    <3> QED BY <3>1
  <2>4. CASE l = 0 /\ ~(len < 0) /\ len # 0
    <3>1. P(mo, len, DATA, 0)
      BY <1>2, <1>3, <1>4, <1>5, <1>6, <1>9, <2>4
    <3> HIDE DEF P
    <3> QED BY <3>1
  <2> QED BY <2>1, <2>2, <2>3, <2>4
<1>10. CASE Space(mo) # 0 /\ p.stat = DATA
  <2>1. CASE l = 0
    <3>1. P(mo, CrcSize, CRC, 0)
      BY <1>2, <1>4, <1>5, <1>6, <1>10, <2>1
    <3> HIDE DEF P
    <3> QED BY <3>1
  <2>2. CASE l # 0
    <3>1. P(mo, l, DATA, 0)
      BY <1>1, <1>2, <1>5, <1>6, <1>10, <2>2
    <3> HIDE DEF P
    <3> QED BY <3>1
  <2> QED BY <2>1, <2>2
<1>11. CASE Space(mo) # 0 /\ p.stat = CRC
  <2>1. CASE l = 0
    <3>1. P(mo, l, PARSE, 1)
      BY <1>1, <1>2, <1>5, <1>6, <1>11, <2>1
    <3> HIDE DEF P
    <3> QED BY <3>1
  <2>2. CASE l # 0
    <3>1. P(mo, l, CRC, 0)
      BY <1>1, <1>2, <1>5, <1>6, <1>11, <2>2
    <3> HIDE DEF P
    <3> QED BY <3>1
  <2> QED BY <2>1, <2>2
<1> QED BY <1>7, <1>8, <1>9, <1>10, <1>11, SoundFacts

-----------------------------------------------------------------------------
(* What `stat' and `left' say of n bytes that begin with a header whose    *)
(* length is len, while bytes are awaited by the function of mode m.       *)
Part(stat, left, n, len, m) ==
  LET long == FrameSize(len) >= Top \/ (m = "byte" /\ len >= Base)
  IN  /\ stat \in {SYNC, HEAD, DATA, CRC}
      /\ stat = SYNC => n = 0
      /\ stat # SYNC => 1 <= left
      /\ stat = HEAD => n + left = HeaderSize
      /\ stat \in {DATA, CRC} => HeaderSize <= n /\ FrameSize(len) <= Size
      /\ stat = DATA => n + left <= HeaderSize + len
      /\ stat = CRC => n + left <= FrameSize(len)
      /\ stat = DATA /\ (m = "chunk" \/ ~long) => n + left = HeaderSize + len
      /\ stat = CRC /\ ~long => n + left = FrameSize(len) /\ HeaderSize + len <= n

LEMMA StatsDiffer ==
  /\ SYNC # HEAD /\ SYNC # DATA /\ SYNC # CRC /\ SYNC # PARSE /\ HEAD # DATA
  /\ HEAD # CRC /\ HEAD # PARSE /\ DATA # CRC /\ DATA # PARSE /\ CRC # PARSE
BY DEF SYNC, HEAD, DATA, CRC, PARSE

(* The length in a buffer, at its k-th byte. *)
LEMMA LenAtFacts ==
  ASSUME NEW b, Valid(b), NEW k \in Nat
  PROVE  /\ LenAt(b, k) \in 0 .. Top - 1
         /\ k + HeaderSize <= Count(b) =>
              LenAt(b, k) = HeadLen(SubSeq(Contents(b), k + 1, Count(b)))
<1> DEFINE c == Contents(b)
           n == Count(b)
<1>1. /\ b.rdp \in Int /\ b.buf \in [0 .. Size - 1 -> Byte] /\ n \in 0 .. Size
      /\ c \in Seq(Byte) /\ Len(c) = n /\ n \in Nat
  BY ValidFacts, CountIsLen
<1>2. LenPos \in Nat /\ LenPos + 2 <= HeaderSize /\ HeaderSize \in Nat /\ Size \in Nat \ {0}
  BY PacketConstants
<1>3. ASSUME NEW i \in Nat PROVE CopyWord(b, i) \in Byte
  <2>1. b.rdp + i \in Int /\ 0 \in 0 .. Size - 1
    BY <1>1, <1>2
  <2>2. Offset(b.rdp + i) \in 0 .. Size - 1
    BY <2>1, OffsetStep
  <2> QED BY <1>1, <2>2 DEF CopyWord
<1>4. k + LenPos \in Nat /\ k + LenPos + 1 \in Nat
  BY <1>2
<1>5. LenAt(b, k) \in 0 .. Top - 1
  <2>1. CopyWord(b, k + LenPos) \in Byte /\ CopyWord(b, k + LenPos + 1) \in Byte
    BY <1>3, <1>4
  <2> QED BY <2>1, LenRange DEF LenAt
<1>6. ASSUME k + HeaderSize <= n
      PROVE  LenAt(b, k) = HeadLen(SubSeq(c, k + 1, n))
  <2>1. k + LenPos < n /\ k + LenPos + 1 < n
    BY <1>1, <1>2, <1>6
  <2>2. /\ CopyWord(b, k + LenPos) = c[k + LenPos + 1]
        /\ CopyWord(b, k + LenPos + 1) = c[k + LenPos + 1 + 1]
    BY <1>4, <2>1, WordAt
  <2> HIDE DEF c, n
  <2> DEFINE s == SubSeq(c, k + 1, n)
  <2>3. \A i \in 1 .. n - (k + 1) + 1 : s[i] = c[k + 1 + i - 1]
    <3>1. \A i \in k + 1 .. n : c[i] \in Byte
      BY <1>1, ElementOfSeq
    <3>2. k + 1 \in Int /\ n \in Int
      BY <1>1
    <3> QED BY <3>1, <3>2, SubSeqProperties
  <2>4. /\ LenPos + 1 \in 1 .. n - (k + 1) + 1 /\ LenPos + 2 \in 1 .. n - (k + 1) + 1
        /\ k + 1 + (LenPos + 1) - 1 = k + LenPos + 1
        /\ k + 1 + (LenPos + 2) - 1 = k + LenPos + 1 + 1
    BY <1>1, <1>2, <1>6
  <2> HIDE DEF s
  <2>5. s[LenPos + 1] = c[k + LenPos + 1] /\ s[LenPos + 2] = c[k + LenPos + 1 + 1]
    BY <2>3, <2>4
  <2> QED BY <2>2, <2>5 DEF LenAt, HeadLen, s
<1> QED BY <1>5, <1>6

(* What is left of a buffer after a drop. *)
LEMMA DropLeaves ==
  ASSUME NEW b, Valid(b), NEW k \in 0 .. Count(b)
  PROVE  /\ Valid(Drop(b, k))
         /\ Contents(Drop(b, k)) = SubSeq(Contents(b), k + 1, Count(b))
         /\ Count(Drop(b, k)) = Count(b) - k
<1>1. Count(b) \in Nat /\ k \in Nat
  BY CountIsLen
<1>2. Least(Count(b), k) = k
  BY <1>1 DEF Least
<1> QED BY <1>1, <1>2, DropTakes

(* resync drops what is before the first byte that stops it, and counts    *)
(* what the packet that may begin there lacks.                             *)
LEMMA ResyncFacts ==
  ASSUME NEW p, Sound(p), NEW r, r = Resync(p)
  PROVE  /\ Sound(r.pak) /\ r.ret \in {SPIN, MOREDATA, READY}
         /\ \E k \in 0 .. Count(p.mo) :
              /\ Contents(r.pak.mo) = SubSeq(Contents(p.mo), k + 1, Count(p.mo))
              /\ r.ret # SPIN => StopsAt(p.mo, k) /\ \A j \in 0 .. k - 1 : ~StopsAt(p.mo, j)
              /\ r.ret = SPIN => \A j \in 0 .. Count(p.mo) : ~StopsAt(p.mo, j)
              /\ LET n == Count(p.mo) - k
                     len == HeadLen(Contents(r.pak.mo))
                 IN  /\ r.ret = MOREDATA =>
                          \A m : Part(r.pak.stat, r.pak.left, n, len, m)
                     /\ r.ret = READY => FrameSize(len) <= n
<1> DEFINE stops == {k \in 0 .. Count(p.mo) : StopsAt(p.mo, k)}
           least == CHOOSE i \in stops : \A j \in stops : i <= j
           k == IF stops = {} THEN Count(p.mo) ELSE least
           mo == Drop(p.mo, k)
           n == Count(mo)
           len == LenAt(mo, 0)
<1>1. r = CASE stops = {} -> Returned(Pak(mo, p.left, SYNC), SPIN)
            [] stops # {} /\ n < HeaderSize ->
                 Returned(Pak(mo, HeaderSize - n, HEAD), MOREDATA)
            [] stops # {} /\ n \in HeaderSize .. HeaderSize + len - 1 ->
                 Returned(Pak(mo, HeaderSize + len - n, DATA), MOREDATA)
            [] stops # {} /\ n \in HeaderSize + len .. FrameSize(len) - 1 ->
                 Returned(Pak(mo, FrameSize(len) - n, CRC), MOREDATA)
            [] OTHER -> Returned(Pak(mo, p.left, PARSE), READY)
  BY DEF Resync, Missing, Pak
<1>2. /\ Valid(p.mo) /\ p.left \in 0 .. Top - 1 /\ Count(p.mo) \in 0 .. Size /\ Count(p.mo) \in Nat
      /\ Size \in Nat
  BY SoundFacts, PacketConstants
<1>3. stops # {} => least \in stops /\ \A j \in stops : least <= j
  <2>1. stops \subseteq Nat
    OBVIOUS
  <2> HIDE DEF stops
  <2> QED BY <2>1, ChosenMinimum
<1>4. k \in 0 .. Count(p.mo) /\ (stops # {} => k = least)
  <2> HIDE DEF least
  <2> QED BY <1>2, <1>3
<1>5. /\ stops # {} => StopsAt(p.mo, k) /\ \A j \in 0 .. k - 1 : ~StopsAt(p.mo, j)
      /\ stops = {} => \A j \in 0 .. Count(p.mo) : ~StopsAt(p.mo, j)
  <2> HIDE DEF least
  <2>1. ASSUME stops # {}, NEW j \in 0 .. k - 1 PROVE ~StopsAt(p.mo, j)
    <3>1. j \in 0 .. Count(p.mo) /\ ~(least <= j)
      BY <1>2, <1>3, <1>4, <2>1
    <3> QED BY <1>3, <2>1, <3>1
  <2> QED BY <1>3, <1>4, <2>1
<1> HIDE DEF stops, least, k
<1>6. /\ Valid(mo) /\ n = Count(p.mo) - k
      /\ Contents(mo) = SubSeq(Contents(p.mo), k + 1, Count(p.mo))
  BY <1>2, <1>4, DropLeaves
<1>7. n \in Nat /\ k \in Nat
  BY <1>2, <1>4, <1>6
<1>8. len \in 0 .. Top - 1 /\ (HeaderSize <= n => len = HeadLen(Contents(mo)))
  <2> HIDE DEF mo
  <2>1. SubSeq(Contents(mo), 0 + 1, Count(mo)) = Contents(mo)
    <3>1. Contents(mo) \in Seq(Byte) /\ Len(Contents(mo)) = Count(mo)
      BY <1>6, CountIsLen
    <3>2. SubSeq(Contents(mo), 1, Len(Contents(mo))) = Contents(mo)
      BY <3>1, SubSeqFull
    <3> QED BY <3>1, <3>2
  <2>2. 0 \in Nat /\ (HeaderSize <= n => 0 + HeaderSize <= Count(mo))
    BY PacketConstants
  <2> QED BY <1>6, <2>1, <2>2, LenAtFacts
<1>9. stops # {} /\ HeaderSize <= n => FrameSize(len) <= Size
  <2>1. ASSUME stops # {}, HeaderSize <= n PROVE FrameSize(len) <= Size
    <3>1. HeaderSize \in Nat /\ ~(Count(p.mo) - k < HeaderSize) /\ k + HeaderSize <= Count(p.mo)
      BY <1>2, <1>6, <1>7, <2>1, PacketConstants
    <3>2. FrameSize(LenAt(p.mo, k)) <= Size
      BY <1>5, <2>1, <3>1 DEF StopsAt
    <3>3. LenAt(p.mo, k) = len
      BY <1>2, <1>6, <1>7, <1>8, <2>1, <3>1, LenAtFacts
    <3> QED BY <3>2, <3>3
  <2> QED BY <2>1
<1>10. SPIN # MOREDATA /\ SPIN # READY /\ MOREDATA # READY
  BY DEF SPIN, MOREDATA, READY
<1>11. /\ HeaderSize \in Nat /\ 1 <= HeaderSize /\ CrcSize \in Nat /\ Top \in Nat /\ HeaderSize + CrcSize < Top
       /\ FrameSize(len) = HeaderSize + len + CrcSize
  <2>1. len \in Int
    BY <1>8, PacketConstants
  <2> QED BY <2>1, PacketConstants, FrameFacts
<1> DEFINE Goal(x, s, y) ==
             /\ x \in 0 .. Top - 1 /\ s \in {SYNC, HEAD, DATA, CRC, PARSE}
             /\ s = HEAD => x \in 1 .. HeaderSize
             /\ y \in {SPIN, MOREDATA, READY}
             /\ y = SPIN <=> stops = {}
             /\ y = MOREDATA => \A m : Part(s, x, n, HeadLen(Contents(mo)), m)
             /\ y = READY => FrameSize(HeadLen(Contents(mo))) <= n
<1>12. ASSUME NEW x, NEW s, NEW y, r = Returned(Pak(mo, x, s), y), Goal(x, s, y)
       PROVE  /\ Sound(r.pak) /\ r.ret \in {SPIN, MOREDATA, READY}
              /\ \E i \in 0 .. Count(p.mo) :
                   /\ Contents(r.pak.mo) = SubSeq(Contents(p.mo), i + 1, Count(p.mo))
                   /\ r.ret # SPIN => StopsAt(p.mo, i) /\ \A j \in 0 .. i - 1 : ~StopsAt(p.mo, j)
                   /\ r.ret = SPIN => \A j \in 0 .. Count(p.mo) : ~StopsAt(p.mo, j)
                   /\ r.ret = MOREDATA =>
                        \A m : Part(r.pak.stat, r.pak.left, Count(p.mo) - i,
                                    HeadLen(Contents(r.pak.mo)), m)
                   /\ r.ret = READY => FrameSize(HeadLen(Contents(r.pak.mo))) <= Count(p.mo) - i
  <2>1. r.pak = Pak(mo, x, s) /\ r.ret = y
    BY <1>12, ReturnedFacts
  <2>2. r.pak.mo = mo /\ r.pak.left = x /\ r.pak.stat = s
    BY <2>1, PakFacts
  <2>3. Sound(r.pak)
    BY <1>6, <1>12, <2>1, MakeSound DEF Pak
  <2> HIDE DEF mo
  <2> QED BY <1>4, <1>5, <1>6, <1>12, <2>1, <2>2, <2>3
<1> SUFFICES \E x, s, y : r = Returned(Pak(mo, x, s), y) /\ Goal(x, s, y)
  <2> HIDE DEF Goal, mo, n
  <2> QED BY <1>12
<1> HIDE DEF mo, n, len
<1>13. CASE stops = {}
  <2>1. r = Returned(Pak(mo, p.left, SYNC), SPIN)
    BY <1>1, <1>13
  <2>2. Goal(p.left, SYNC, SPIN)
    BY <1>2, <1>10, <1>13, StatsDiffer
  <2> HIDE DEF Goal
  <2> QED BY <2>1, <2>2
<1>14. CASE stops # {} /\ n < HeaderSize
  <2>1. r = Returned(Pak(mo, HeaderSize - n, HEAD), MOREDATA)
    <3>1. ~(n \in HeaderSize .. HeaderSize + len - 1) /\ ~(n \in HeaderSize + len .. FrameSize(len) - 1)
      BY <1>7, <1>8, <1>11, <1>14
    <3> QED BY <1>1, <1>14, <3>1
  <2>2. HeaderSize - n \in 1 .. HeaderSize /\ HeaderSize - n \in 0 .. Top - 1
        /\ n + (HeaderSize - n) = HeaderSize
    BY <1>7, <1>11, <1>14
  <2>3. \A m : Part(HEAD, HeaderSize - n, n, HeadLen(Contents(mo)), m)
    BY <2>2, StatsDiffer DEF Part
  <2>4. Goal(HeaderSize - n, HEAD, MOREDATA)
    BY <1>10, <1>14, <2>2, <2>3
  <2> HIDE DEF Goal
  <2> QED BY <2>1, <2>4
<1>15. CASE stops # {} /\ n \in HeaderSize .. HeaderSize + len - 1
  <2>1. r = Returned(Pak(mo, HeaderSize + len - n, DATA), MOREDATA)
    <3>1. ~(n < HeaderSize) /\ ~(n \in HeaderSize + len .. FrameSize(len) - 1)
      BY <1>7, <1>8, <1>11, <1>15
    <3> QED BY <1>1, <1>15, <3>1
  <2>2. /\ HeaderSize + len - n \in 1 .. Top - 1 /\ HeaderSize + len - n \in 0 .. Top - 1
        /\ n + (HeaderSize + len - n) = HeaderSize + len /\ HeaderSize <= n
    BY <1>7, <1>8, <1>11, <1>15
  <2>3. \A m : Part(DATA, HeaderSize + len - n, n, len, m)
    BY <1>9, <1>15, <2>2, StatsDiffer DEF Part
  <2>4. Goal(HeaderSize + len - n, DATA, MOREDATA)
    BY <1>8, <1>10, <1>15, <2>2, <2>3, StatsDiffer
  <2> HIDE DEF Goal
  <2> QED BY <2>1, <2>4
<1>16. CASE stops # {} /\ n \in HeaderSize + len .. FrameSize(len) - 1
  <2>1. r = Returned(Pak(mo, FrameSize(len) - n, CRC), MOREDATA)
    <3>1. ~(n < HeaderSize) /\ ~(n \in HeaderSize .. HeaderSize + len - 1)
      BY <1>7, <1>8, <1>11, <1>16
    <3> QED BY <1>1, <1>16, <3>1
  <2>2. /\ FrameSize(len) - n \in 1 .. Top - 1 /\ FrameSize(len) - n \in 0 .. Top - 1
        /\ n + (FrameSize(len) - n) = FrameSize(len) /\ HeaderSize <= n /\ HeaderSize + len <= n
    BY <1>7, <1>8, <1>11, <1>16
  <2>3. \A m : Part(CRC, FrameSize(len) - n, n, len, m)
    BY <1>9, <1>16, <2>2, StatsDiffer DEF Part
  <2>4. Goal(FrameSize(len) - n, CRC, MOREDATA)
    BY <1>8, <1>10, <1>16, <2>2, <2>3, StatsDiffer
  <2> HIDE DEF Goal
  <2> QED BY <2>1, <2>4
<1>17. CASE stops # {} /\ FrameSize(len) <= n
  <2>1. /\ ~(n < HeaderSize) /\ ~(n \in HeaderSize .. HeaderSize + len - 1)
        /\ ~(n \in HeaderSize + len .. FrameSize(len) - 1)
    BY <1>7, <1>8, <1>11, <1>17
  <2>2. r = Returned(Pak(mo, p.left, PARSE), READY)
    BY <1>1, <1>17, <2>1
  <2>3. Goal(p.left, PARSE, READY)
    BY <1>2, <1>7, <1>8, <1>10, <1>17, <2>1, <1>11, StatsDiffer
  <2> HIDE DEF Goal
  <2> QED BY <2>2, <2>3
<1>18. \/ n < HeaderSize \/ n \in HeaderSize .. HeaderSize + len - 1
       \/ n \in HeaderSize + len .. FrameSize(len) - 1 \/ FrameSize(len) <= n
  BY <1>7, <1>8, <1>11
<1> HIDE DEF Goal
<1> QED BY <1>13, <1>14, <1>15, <1>16, <1>17, <1>18


-----------------------------------------------------------------------------
(* bscl_packet_parse.  The checksum of what is in the buffer is the one of *)
(* the same bytes in one piece, wherever the ring wraps in a chunk.        *)
LEMMA ChunkRange ==
  ASSUME NEW n \in Nat, NEW k \in Chunked(n)
  PROVE  /\ (k - 1) * CrcChunk \in 0 .. n - 1
         /\ k * CrcChunk = (k - 1) * CrcChunk + CrcChunk
<1>1. CrcChunk \in Nat \ {0} /\ n + CrcChunk - 1 \in Int
  BY PacketConstants
<1> DEFINE q == (n + CrcChunk - 1) \div CrcChunk
           m == (n + CrcChunk - 1) % CrcChunk
<1>2. q \in Int /\ m \in 0 .. CrcChunk - 1 /\ n + CrcChunk - 1 = CrcChunk * q + m
  <2> DEFINE x == n + CrcChunk - 1
  <2>1. x \in Int
    BY <1>1
  <2> HIDE DEF x
  <2>2. x \div CrcChunk \in Int /\ x = CrcChunk * (x \div CrcChunk) + (x % CrcChunk)
    BY <1>1, <2>1, DivMod
  <2>3. x % CrcChunk \in 0 .. CrcChunk - 1
    BY <1>1, <2>1, ModRange
  <2> QED BY <2>2, <2>3 DEF x
<1>3. k \in 1 .. q
  BY DEF Chunked
<1> HIDE DEF q, m
<1>4. k \in Int /\ 1 <= k /\ k <= q
  BY <1>2, <1>3
<1>5. k * CrcChunk <= q * CrcChunk /\ k * CrcChunk \in Int /\ q * CrcChunk \in Int
  BY <1>1, <1>2, <1>4
<1>6. (k - 1) * CrcChunk = k * CrcChunk - CrcChunk /\ 0 <= (k - 1) * CrcChunk
  BY <1>1, <1>4
<1>7. q * CrcChunk = CrcChunk * q
  BY <1>1, <1>2
<1>0. m \in Nat /\ n \in Nat
  BY <1>1, <1>2
<1> DEFINE u == k * CrcChunk
           v == q * CrcChunk
           t == (k - 1) * CrcChunk
<1>8. u \in Int /\ v \in Int /\ u <= v /\ t = u - CrcChunk /\ 0 <= t /\ n + CrcChunk - 1 = v + m
  BY <1>2, <1>5, <1>6, <1>7
<1> HIDE DEF u, v, t
<1>9. t \in 0 .. n - 1 /\ u = t + CrcChunk
  BY <1>0, <1>1, <1>8
<1> QED BY <1>9 DEF t, u

LEMMA CrcInPieces ==
  ASSUME NEW b, Valid(b), NEW len \in Nat, HeaderSize + len <= Count(b)
  PROVE  CrcBuffer(b, len) = CrcBody(SubSeq(Contents(b), 1, HeaderSize + len))
<1> DEFINE c == Contents(b)
           n == HeaderSize + len
           w == SubSeq(c, 1, n)
           x == [k \in Chunked(n) |->
                   Copy(b, (k - 1) * CrcChunk, Least(n - (k - 1) * CrcChunk, CrcChunk))]
           y == [k \in Chunked(n) |->
                   SubSeq(w, (k - 1) * CrcChunk + 1, Least(k * CrcChunk, n))]
<1>1. n \in Nat /\ CrcChunk \in Nat /\ c \in Seq(Byte) /\ Len(c) = Count(b) /\ n <= Len(c)
  BY PacketConstants, CountIsLen
<1>2. Len(w) = n
  <2> HIDE DEF c, n
  <2>1. n \in 0 .. Len(c)
    BY <1>1
  <2> QED BY <1>1, <2>1, PrefixFacts
<1>3. CrcBuffer(b, len) = CrcOf(x)
  BY DEF CrcBuffer
<1>4. CrcBody(w) = CrcOf(y)
  BY <1>2 DEF CrcBody
<1>5. ASSUME NEW k \in Chunked(n) PROVE x[k] = y[k]
  <2> DEFINE off == (k - 1) * CrcChunk
             m == Least(n - off, CrcChunk)
             j == Least(k * CrcChunk, n)
  <2> HIDE DEF n, c
  <2>1. off \in 0 .. n - 1 /\ k * CrcChunk = off + CrcChunk
    BY <1>1, <1>5, ChunkRange
  <2>2. x[k] = Copy(b, off, m) /\ y[k] = SubSeq(w, off + 1, j)
    BY <1>5
  <2> HIDE DEF off, w
  <2>3. /\ m \in Nat /\ off \in Nat /\ off + m <= n /\ j = off + m
    BY <1>1, <2>1 DEF Least
  <2> HIDE DEF m, j, x, y
  <2>4. Copy(b, off, m) = SubSeq(c, off + 1, off + m)
    <3>1. off + m <= Count(b)
      BY <1>1, <2>3
    <3> QED BY <2>3, <3>1, CopyWhole DEF c
  <2>5. SubSeq(w, off + 1, j) = SubSeq(c, off + 1, off + m)
    <3>1. j \in Nat /\ off <= j /\ j <= n - 0 /\ 0 \in Nat /\ 0 <= n
      BY <1>1, <2>3
    <3>2. SubSeq(SubSeq(c, 0 + 1, n), off + 1, j) = SubSeq(c, 0 + off + 1, 0 + j)
      BY <1>1, <2>3, <3>1, WindowOfWindow
    <3>3. 0 + off + 1 = off + 1 /\ 0 + j = off + m /\ 0 + 1 = 1
      BY <2>3
    <3> QED BY <3>2, <3>3 DEF w
  <2> QED BY <2>2, <2>4, <2>5
<1>6. x = y
  <2> HIDE DEF n, c, w
  <2> QED BY <1>5
<1> QED BY <1>3, <1>4, <1>6

(* The message and the checksum in contents that begin with a header. *)
MsgIn(c) == [id |-> [i \in IdPos |-> c[i]], len |-> HeadLen(c),
             data |-> SubSeq(c, HeaderSize + 1, HeaderSize + Least(Room, HeadLen(c)))]

IntactIn(c) ==
  CrcBytes(CrcBody(SubSeq(c, 1, HeaderSize + HeadLen(c))))
    = SubSeq(c, HeaderSize + HeadLen(c) + 1, FrameSize(HeadLen(c)))

(* A copy is as long as what it asks for just if that much is there. *)
LEMMA CopyLen ==
  ASSUME NEW b, Valid(b), NEW begin \in Nat, NEW len \in Nat \ {0}, begin + len < Modulus
  PROVE  Len(Copy(b, begin, len)) = len <=> begin + len <= Count(b)
<1> DEFINE c == Contents(b)
<1>1. c \in Seq(Byte) /\ Len(c) = Count(b) /\ Count(b) \in Nat
  BY CountIsLen
<1>2. CASE begin + len <= Count(b)
  <2>1. Copy(b, begin, len) = SubSeq(c, begin + 1, begin + len)
    BY <1>2, CopyWhole
  <2> HIDE DEF c
  <2> DEFINE e == begin + len
  <2>2. e \in Nat /\ begin <= e /\ e <= Len(c) /\ e - begin = len
    BY <1>1, <1>2
  <2> HIDE DEF e
  <2>3. Len(SubSeq(c, begin + 1, e)) = e - begin
    BY <1>1, <2>2, Window
  <2> QED BY <1>2, <2>1, <2>2, <2>3 DEF e
<1>3. CASE ~(begin + len <= Count(b))
  <2> DEFINE e == Least(begin + len, Len(c))
  <2>1. Copy(b, begin, len) = SubSeq(c, begin + 1, e)
    BY CopyIsWindow
  <2> HIDE DEF c
  <2>2. e = Count(b)
    BY <1>1, <1>3 DEF Least
  <2>3. \A i \in begin + 1 .. e : c[i] \in Byte
    BY <1>1, <2>2, ElementOfSeq
  <2> HIDE DEF e
  <2>4. Len(SubSeq(c, begin + 1, e)) = IF begin + 1 <= e THEN e - (begin + 1) + 1 ELSE 0
    BY <1>1, <2>2, <2>3, SubSeqProperties
  <2>5. Len(SubSeq(c, begin + 1, e)) # len
    BY <1>1, <1>3, <2>2, <2>4
  <2> QED BY <1>3, <2>1, <2>5
<1> QED BY <1>2, <1>3

LEMMA MessageFacts ==
  ASSUME NEW b, Valid(b), NEW c, c = Contents(b), NEW len \in Nat,
         FrameSize(len) <= Count(b), len = HeadLen(c)
  PROVE  /\ Message(b, Room, len) = MsgIn(c)
         /\ Intact(b, len) <=> IntactIn(c)
<1>1. /\ c \in Seq(Byte) /\ Len(c) = Count(b) /\ Count(b) \in Nat
      /\ HeaderSize \in Nat /\ CrcSize \in Nat /\ FrameSize(len) = HeaderSize + len + CrcSize
      /\ Room \in Nat /\ HeaderSize + len <= Count(b) /\ HeaderSize <= Count(b)
  <2>1. c \in Seq(Byte) /\ Len(c) = Count(b) /\ Count(b) \in Nat
    BY CountIsLen
  <2>2. /\ HeaderSize \in Nat /\ CrcSize \in Nat /\ FrameSize(len) = HeaderSize + len + CrcSize
        /\ Room \in Nat
    BY PacketConstants, FrameFacts, ReceiverAssumption
  <2> QED BY <2>1, <2>2
<1>2. IdOf(b) = [i \in IdPos |-> c[i]]
  <2> DEFINE head == Copy(b, 0, HeaderSize)
  <2>1. head = SubSeq(c, 0 + 1, 0 + HeaderSize)
    BY <1>1, CopyWhole
  <2>2. IdOf(b) = [i \in IdPos |-> head[i]]
    BY DEF IdOf
  <2> HIDE DEF head
  <2>3. head = SubSeq(c, 0 + 1, HeaderSize) /\ HeaderSize - 0 = HeaderSize
    BY <1>1, <2>1
  <2>4. \A i \in 1 .. HeaderSize : head[i] = c[0 + i]
    BY <1>1, <2>3, Window
  <2>5. \A i \in IdPos : i \in 1 .. HeaderSize /\ 0 + i = i
    BY <1>1 DEF IdPos
  <2>6. \A i \in IdPos : head[i] = c[i]
    BY <2>4, <2>5
  <2> QED BY <2>2, <2>6
<1>3. Copy(Drop(b, HeaderSize), 0, Least(Room, len))
        = SubSeq(c, HeaderSize + 1, HeaderSize + Least(Room, len))
  <2> DEFINE e == Drop(b, HeaderSize)
             m == Least(Room, len)
  <2>1. m \in Nat /\ m <= len
    BY <1>1 DEF Least
  <2>2. /\ Valid(e) /\ Contents(e) = SubSeq(c, HeaderSize + 1, Count(b))
        /\ Count(e) = Count(b) - HeaderSize
    BY <1>1, DropLeaves
  <2> HIDE DEF e, m
  <2>3. Copy(e, 0, m) = SubSeq(Contents(e), 0 + 1, 0 + m)
    <3>1. 0 + m <= Count(e) /\ 0 \in Nat
      BY <1>1, <2>1, <2>2
    <3> QED BY <2>1, <2>2, <3>1, CopyWhole, Zenon
  <2> DEFINE n == Count(b)
  <2>4. n \in Nat /\ HeaderSize <= n /\ n <= Len(c) /\ m <= n - HeaderSize /\ 0 <= m
    BY <1>1, <2>1
  <2> HIDE DEF n
  <2>5. SubSeq(SubSeq(c, HeaderSize + 1, n), 0 + 1, m)
          = SubSeq(c, HeaderSize + 0 + 1, HeaderSize + m)
    BY <1>1, <2>1, <2>4, WindowOfWindow
  <2>6. HeaderSize + 0 + 1 = HeaderSize + 1 /\ 0 + m = m
    BY <1>1, <2>1
  <2> QED BY <2>2, <2>3, <2>5, <2>6 DEF e, m, n
<1>4. Message(b, Room, len) = MsgIn(c)
  BY <1>2, <1>3 DEF Message, MsgIn
<1>5. CrcBuffer(b, len) = CrcBody(SubSeq(c, 1, HeaderSize + len))
  BY <1>1, CrcInPieces
<1>6. StoredCrc(b, len) = SubSeq(c, HeaderSize + len + 1, FrameSize(len))
  <2>1. HeaderSize + len \in Nat /\ (HeaderSize + len) + CrcSize <= Count(b)
        /\ (HeaderSize + len) + CrcSize = FrameSize(len)
    BY <1>1
  <2> DEFINE m == HeaderSize + len
  <2> HIDE DEF m
  <2>2. Copy(b, m, CrcSize) = SubSeq(c, m + 1, m + CrcSize)
    <3>1. Valid(b) /\ m \in Nat /\ CrcSize \in Nat /\ m + CrcSize <= Count(b)
      BY <1>1, <2>1 DEF m
    <3> QED BY <3>1, CopyWhole, Zenon
  <2>3. m + CrcSize = FrameSize(len)
    BY <2>1 DEF m
  <2> QED BY <2>2, <2>3 DEF StoredCrc, m
<1> QED BY <1>4, <1>5, <1>6 DEF Intact, IntactIn

LEMMA RestFacts ==
  ASSUME NEW b, Valid(b), NEW len \in Nat, FrameSize(len) <= Count(b),
         NEW e, e = Drop(Drop(Drop(b, HeaderSize), len), CrcSize)
  PROVE  /\ Valid(e) /\ Count(e) = Count(b) - FrameSize(len)
         /\ Contents(e) = SubSeq(Contents(b), FrameSize(len) + 1, Count(b))
<1> DEFINE b1 == Drop(b, HeaderSize)
           b2 == Drop(b1, len)
           n == Count(b)
           c == Contents(b)
           h == HeaderSize
<1>1. /\ c \in Seq(Byte) /\ Len(c) = n /\ n \in Nat /\ h \in Nat /\ CrcSize \in Nat
      /\ h + len + CrcSize <= n /\ FrameSize(len) = h + len + CrcSize
  <2>1. h \in Nat /\ CrcSize \in Nat /\ FrameSize(len) = h + len + CrcSize
    BY PacketConstants, FrameFacts
  <2> QED BY <2>1, CountIsLen
<1>2. Valid(b1) /\ Contents(b1) = SubSeq(c, h + 1, n) /\ Count(b1) = n - h
  <2>1. h \in 0 .. n
    BY <1>1
  <2> QED BY <2>1, DropLeaves
<1>3. Valid(b2) /\ Contents(b2) = SubSeq(Contents(b1), len + 1, n - h) /\ Count(b2) = (n - h) - len
  <2> HIDE DEF b1
  <2>1. len \in 0 .. Count(b1)
    BY <1>1, <1>2
  <2> QED BY <1>2, <2>1, DropLeaves
<1>4. Contents(b2) = SubSeq(c, h + len + 1, n) /\ Count(b2) = n - (h + len)
  <2> HIDE DEF b1, b2, n, c, h
  <2>1. n - h \in Nat /\ h <= n /\ len <= n - h /\ n <= Len(c) /\ h + (n - h) = n
    BY <1>1
  <2> DEFINE x == n - h
  <2>2. x \in Nat /\ len <= x /\ x <= n - h
    BY <2>1
  <2> HIDE DEF x
  <2>3. SubSeq(SubSeq(c, h + 1, n), len + 1, x) = SubSeq(c, h + len + 1, h + x)
    BY <1>1, <2>1, <2>2, WindowOfWindow
  <2>4. (n - h) - len = n - (h + len)
    BY <1>1
  <2> QED BY <1>2, <1>3, <2>1, <2>3, <2>4 DEF x
<1>5. /\ Valid(e) /\ Contents(e) = SubSeq(Contents(b2), CrcSize + 1, Count(b2))
      /\ Count(e) = Count(b2) - CrcSize
  <2>0. e = Drop(b2, CrcSize)
    OBVIOUS
  <2> HIDE DEF b2
  <2>1. CrcSize \in 0 .. Count(b2)
    BY <1>1, <1>4
  <2> QED BY <1>3, <2>0, <2>1, DropLeaves
<1> HIDE DEF b1, b2, n, c, h
<1> DEFINE g == h + len
           x == n - g
<1>6. /\ g \in Nat /\ x \in Nat /\ g <= n /\ CrcSize <= x /\ x <= n - g /\ g + x = n
      /\ n <= Len(c) /\ g + CrcSize = FrameSize(len) /\ x - CrcSize = n - FrameSize(len)
  BY <1>1
<1>7. Count(b2) = x /\ Contents(b2) = SubSeq(c, g + 1, n)
  BY <1>4
<1> HIDE DEF g, x
<1>8. SubSeq(SubSeq(c, g + 1, n), CrcSize + 1, x) = SubSeq(c, g + CrcSize + 1, g + x)
  BY <1>1, <1>6, WindowOfWindow
<1> QED BY <1>5, <1>6, <1>7, <1>8 DEF n, c

(* bscl_packet_parse, case for case. *)
LEMMA ParseFacts ==
  ASSUME NEW p, Sound(p), NEW r, r = Parse(p, Room),
         NEW c, c = Contents(p.mo), NEW n, n = Count(p.mo), NEW len, len = HeadLen(c),
         NEW rest, rest = Drop(Drop(Drop(p.mo, HeaderSize), len), CrcSize),
         NEW cut, cut = Pak(DropChar(p.mo), p.left, p.stat)
  PROVE  /\ n < HeaderSize => r = Parsed(p, ERROR_NOHEAD, << >>)
         /\ HeaderSize <= n => len \in 0 .. Top - 1
         /\ HeaderSize <= n /\ Size < len => r = Parsed(cut, ERROR, << >>)
         /\ HeaderSize <= n /\ len <= Size /\ n < FrameSize(len) =>
              r = Parsed(p, ERROR_NOCRC, << >>)
         /\ HeaderSize <= n /\ FrameSize(len) <= n /\ ~IntactIn(c) => r = Parsed(cut, BADCRC, << >>)
         /\ HeaderSize <= n /\ FrameSize(len) < n /\ IntactIn(c) =>
              r = Parsed(Pak(rest, p.left, p.stat), RESYNC, << MsgIn(c) >>)
         /\ HeaderSize <= n /\ FrameSize(len) = n /\ IntactIn(c) =>
              r = Parsed(Pak(rest, p.left, SYNC), MOREDATA, << MsgIn(c) >>)
<1> DEFINE mo == p.mo
           l == LenAt(mo, 0)
           whole == Len(Copy(mo, 0, HeaderSize)) = HeaderSize
           rest2 == Drop(Drop(Drop(mo, HeaderSize), l), CrcSize)
           msg == << Message(mo, Room, l) >>
           more == [p EXCEPT !.mo = rest2]
           last == [p EXCEPT !.mo = rest2, !.stat = SYNC]
<1>1. r = CASE ~whole -> Parsed(p, ERROR_NOHEAD, << >>)
            [] whole /\ l > Size -> Parsed(Reject(p), ERROR, << >>)
            [] whole /\ l <= Size /\ Len(StoredCrc(mo, l)) # CrcSize ->
                 Parsed(p, ERROR_NOCRC, << >>)
            [] OTHER ->
                 IF ~Intact(mo, l) THEN Parsed(Reject(p), BADCRC, << >>)
                 ELSE IF Count(rest2) > 0
                 THEN Parsed(more, RESYNC, msg) ELSE Parsed(last, MOREDATA, msg)
  BY Zenon DEF Parse
<1>2. p = Pak(mo, p.left, p.stat)
  BY PacketRecord DEF Pak
<1>3. Reject(p) = cut
  <2>1. Reject(p) = [p EXCEPT !.mo = DropChar(@)]
    BY DEF Reject
  <2>2. [p EXCEPT !.mo = DropChar(@)] = Pak(DropChar(mo), p.left, p.stat)
    BY <1>2 DEF Pak
  <2> QED BY <2>1, <2>2
<1>4. more = Pak(rest2, p.left, p.stat)
  <2> HIDE DEF rest2
  <2> QED BY <1>2 DEF Pak
<1>5. last = Pak(rest2, p.left, SYNC)
  <2> HIDE DEF rest2
  <2>1. last = [[p EXCEPT !.mo = rest2] EXCEPT !.stat = SYNC]
    OBVIOUS
  <2>2. [Pak(rest2, p.left, p.stat) EXCEPT !.stat = SYNC] = Pak(rest2, p.left, SYNC)
    BY DEF Pak
  <2> QED BY <1>4, <2>1, <2>2
<1> HIDE DEF more, last, rest2, msg, whole, l
<1>6. /\ Valid(mo) /\ c \in Seq(Byte) /\ Len(c) = n /\ n \in 0 .. Size /\ n \in Nat
      /\ Size \in Nat /\ Modulus \in Nat /\ HeaderSize \in Nat /\ CrcSize \in Nat /\ 1 <= CrcSize
      /\ 1 <= HeaderSize /\ Size + HeaderSize + CrcSize < Modulus /\ Top \in Nat
  BY SoundFacts, PacketConstants
<1>7. whole <=> HeaderSize <= n
  <2>1. 0 \in Nat /\ HeaderSize \in Nat \ {0} /\ 0 + HeaderSize < Modulus
    BY <1>6
  <2>2. Len(Copy(mo, 0, HeaderSize)) = HeaderSize <=> 0 + HeaderSize <= Count(mo)
    BY <1>6, <2>1, CopyLen
  <2> QED BY <1>6, <2>2 DEF whole
<1>8. l \in 0 .. Top - 1 /\ (HeaderSize <= n => l = len)
  <2>1. SubSeq(c, 0 + 1, n) = c
    <3>1. SubSeq(c, 1, Len(c)) = c
      BY <1>6, SubSeqFull
    <3> QED BY <1>6, <3>1
  <2>2. 0 \in Nat /\ (HeaderSize <= n => 0 + HeaderSize <= Count(mo))
    BY <1>6
  <2> QED BY <1>6, <2>1, <2>2, LenAtFacts DEF l
<1>9. CASE n < HeaderSize
  <2>1. ~whole /\ ~(HeaderSize <= n)
    BY <1>6, <1>7, <1>9
  <2> QED BY <1>1, <2>1
<1>10. CASE HeaderSize <= n
  <2>1. whole /\ l = len /\ len \in 0 .. Top - 1 /\ len \in Nat /\ ~(n < HeaderSize)
    BY <1>6, <1>7, <1>8, <1>10
  <2>2. FrameSize(len) = HeaderSize + len + CrcSize
    BY <2>1, FrameFacts
  <2>3. rest2 = rest
    BY <2>1 DEF rest2
  <2>4. ASSUME len <= Size
        PROVE  Len(StoredCrc(mo, l)) = CrcSize <=> FrameSize(len) <= n
    <3> DEFINE b == HeaderSize + len
    <3>1. b \in Nat /\ CrcSize \in Nat \ {0} /\ b + CrcSize < Modulus /\ b + CrcSize = FrameSize(len)
      BY <1>6, <2>1, <2>2, <2>4
    <3> HIDE DEF b
    <3>2. Len(Copy(mo, b, CrcSize)) = CrcSize <=> b + CrcSize <= Count(mo)
      BY <1>6, <3>1, CopyLen
    <3> QED BY <2>1, <3>1, <3>2 DEF StoredCrc, b
  <2>5. CASE Size < len
    <3>1. l > Size /\ ~(len <= Size) /\ ~(FrameSize(len) <= n)
          /\ ~(FrameSize(len) = n) /\ ~(FrameSize(len) < n)
      BY <1>6, <2>1, <2>2, <2>5
    <3>2. r = Parsed(Reject(p), ERROR, << >>)
      BY <1>1, <2>1, <3>1
    <3> QED BY <1>3, <2>1, <3>1, <3>2
  <2>6. CASE len <= Size /\ n < FrameSize(len)
    <3>1. /\ ~(l > Size) /\ ~(Size < len) /\ ~(FrameSize(len) <= n)
          /\ ~(FrameSize(len) = n) /\ ~(FrameSize(len) < n)
      BY <1>6, <2>1, <2>2, <2>6
    <3>2. Len(StoredCrc(mo, l)) # CrcSize
      BY <2>4, <2>6, <3>1
    <3>3. r = Parsed(p, ERROR_NOCRC, << >>)
      BY <1>1, <2>1, <2>6, <3>1, <3>2
    <3> QED BY <2>1, <3>1, <3>3
  <2>7. CASE FrameSize(len) <= n
    <3>1. ~(l > Size) /\ len <= Size /\ ~(Size < len) /\ ~(n < FrameSize(len))
      BY <1>6, <2>1, <2>2, <2>7
    <3>2. ~(Len(StoredCrc(mo, l)) # CrcSize)
      BY <2>4, <2>7, <3>1
    <3>3. /\ Message(mo, Room, l) = MsgIn(c)
          /\ Intact(mo, l) <=> IntactIn(c)
      BY <1>6, <2>1, <2>7, MessageFacts
    <3>4. r = IF ~IntactIn(c) THEN Parsed(cut, BADCRC, << >>)
              ELSE IF Count(rest2) > 0 THEN Parsed(more, RESYNC, msg) ELSE Parsed(last, MOREDATA, msg)
      BY <1>1, <1>3, <2>1, <3>1, <3>2, <3>3
    <3>5. Count(rest2) = n - FrameSize(len)
      BY <1>6, <2>1, <2>3, <2>7, RestFacts
    <3>6. msg = << MsgIn(c) >>
      BY <3>3 DEF msg
    <3>7. Count(rest2) > 0 <=> FrameSize(len) < n
      BY <1>6, <2>1, <2>2, <2>7, <3>5, SMTT(30)
    <3>8. FrameSize(len) < n => FrameSize(len) # n
      BY <1>6, <2>1, <2>2
    <3> QED BY <1>4, <1>5, <2>1, <2>3, <2>7, <3>1, <3>4, <3>6, <3>7, <3>8
  <2>8. len <= Size \/ Size < len
    BY <1>6, <2>1
  <2>9. n < FrameSize(len) \/ FrameSize(len) <= n
    BY <1>6, <2>1, <2>2
  <2> QED BY <2>5, <2>6, <2>7, <2>8, <2>9
<1>11. n < HeaderSize \/ HeaderSize <= n
  BY <1>6
<1> QED BY <1>9, <1>10, <1>11

LEMMA ParsedFacts ==
  ASSUME NEW a, NEW b, NEW m, NEW r, r = Parsed(a, b, m)
  PROVE  r.pak = a /\ r.ret = b /\ r.msg = m
BY DEF Parsed

(* parse drops from the front only: the packet that it hands out, a byte   *)
(* of one that it rejects, or nothing.                                     *)
ParseEffect(p, r) ==
  LET c   == Contents(p.mo)
      n   == Count(p.mo)
      len == HeadLen(c)
  IN  /\ Sound(r.pak)
      /\ r.ret \in {MOREDATA, RESYNC, ERROR, BADCRC, ERROR_NOHEAD, ERROR_NOCRC}
      /\ \E k \in 0 .. n :
           /\ Contents(r.pak.mo) = SubSeq(c, k + 1, n) /\ Count(r.pak.mo) = n - k
           /\ \/ r.msg = << >> /\ r.ret \notin {MOREDATA, RESYNC}
              \/ /\ r.msg = << MsgIn(c) >> /\ IntactIn(c)
                 /\ HeaderSize <= n /\ FrameSize(len) <= n /\ k = FrameSize(len)
                 /\ r.ret = MOREDATA => k = n /\ r.pak.stat = SYNC
      /\ HeaderSize <= n /\ len <= Size /\ n < FrameSize(len) =>
           r.pak = p /\ r.ret = ERROR_NOCRC /\ r.msg = << >>
      /\ HeaderSize <= n /\ n = FrameSize(len) /\ IntactIn(c) =>
           r.ret = MOREDATA /\ r.msg = << MsgIn(c) >>

LEMMA ParseStep ==
  ASSUME NEW p, Sound(p), NEW r, r = Parse(p, Room)
  PROVE  ParseEffect(p, r)
<1> SUFFICES ASSUME NEW c, c = Contents(p.mo), NEW n, n = Count(p.mo), NEW len, len = HeadLen(c)
             PROVE  ParseEffect(p, r)
  OBVIOUS
<1> DEFINE rest == Drop(Drop(Drop(p.mo, HeaderSize), len), CrcSize)
           cut == Pak(DropChar(p.mo), p.left, p.stat)
           Good == /\ r.msg = << MsgIn(c) >> /\ IntactIn(c)
                   /\ HeaderSize <= n /\ FrameSize(len) <= n
<1>1. /\ n < HeaderSize => r = Parsed(p, ERROR_NOHEAD, << >>)
      /\ HeaderSize <= n => len \in 0 .. Top - 1
      /\ HeaderSize <= n /\ Size < len => r = Parsed(cut, ERROR, << >>)
      /\ HeaderSize <= n /\ len <= Size /\ n < FrameSize(len) =>
           r = Parsed(p, ERROR_NOCRC, << >>)
      /\ HeaderSize <= n /\ FrameSize(len) <= n /\ ~IntactIn(c) => r = Parsed(cut, BADCRC, << >>)
      /\ HeaderSize <= n /\ FrameSize(len) < n /\ IntactIn(c) =>
           r = Parsed(Pak(rest, p.left, p.stat), RESYNC, << MsgIn(c) >>)
      /\ HeaderSize <= n /\ FrameSize(len) = n /\ IntactIn(c) =>
           r = Parsed(Pak(rest, p.left, SYNC), MOREDATA, << MsgIn(c) >>)
  BY ParseFacts
<1>2. /\ Valid(p.mo) /\ c \in Seq(Byte) /\ Len(c) = n /\ n \in 0 .. Size /\ n \in Nat /\ Size \in Nat
      /\ p.left \in 0 .. Top - 1 /\ p.stat \in {SYNC, HEAD, DATA, CRC, PARSE}
      /\ p.stat = HEAD => p.left \in 1 .. HeaderSize
      /\ HeaderSize \in Nat /\ CrcSize \in Nat /\ Top \in Nat
  BY SoundFacts, PacketConstants DEF Sound
<1>3. ASSUME HeaderSize <= n
      PROVE  /\ len \in Nat /\ FrameSize(len) \in Nat
             /\ Size < len => n < FrameSize(len)
             /\ len <= Size \/ Size < len
             /\ n < FrameSize(len) \/ FrameSize(len) < n \/ FrameSize(len) = n
  <2>1. len \in Nat
    BY <1>1, <1>2, <1>3
  <2>2. FrameSize(len) = HeaderSize + len + CrcSize
    BY <2>1, FrameFacts
  <2> QED BY <1>2, <2>1, <2>2
<1>4. /\ SYNC \in {SYNC, HEAD, DATA, CRC, PARSE} /\ SYNC # HEAD
      /\ MOREDATA # RESYNC /\ MOREDATA # ERROR /\ MOREDATA # BADCRC
      /\ MOREDATA # ERROR_NOHEAD /\ MOREDATA # ERROR_NOCRC
      /\ RESYNC # ERROR /\ RESYNC # BADCRC /\ RESYNC # ERROR_NOHEAD /\ RESYNC # ERROR_NOCRC
      /\ << >> # << MsgIn(c) >>
  BY DEF SYNC, HEAD, MOREDATA, RESYNC, ERROR, BADCRC, ERROR_NOHEAD, ERROR_NOCRC
<1> DEFINE Goal == /\ Sound(r.pak)
                   /\ r.ret \in {MOREDATA, RESYNC, ERROR, BADCRC, ERROR_NOHEAD, ERROR_NOCRC}
                   /\ \E k \in 0 .. n :
                        /\ Contents(r.pak.mo) = SubSeq(c, k + 1, n) /\ Count(r.pak.mo) = n - k
                        /\ \/ r.msg = << >> /\ r.ret \notin {MOREDATA, RESYNC}
                           \/ /\ Good /\ k = FrameSize(len)
                              /\ r.ret = MOREDATA => k = n /\ r.pak.stat = SYNC
(* Nothing is dropped. *)
<1>5. ASSUME NEW y \in {ERROR_NOHEAD, ERROR_NOCRC}, r = Parsed(p, y, << >>)
      PROVE  Goal
  <2>1. r.pak = p /\ r.ret = y /\ r.msg = << >>
    BY <1>5, ParsedFacts
  <2>2. SubSeq(c, 0 + 1, n) = c /\ 0 \in 0 .. n /\ n - 0 = n
    <3>1. SubSeq(c, 1, Len(c)) = c
      BY <1>2, SubSeqFull
    <3> QED BY <1>2, <3>1
  <2>3. y \notin {MOREDATA, RESYNC}
    BY <1>4, <1>5
  <2> HIDE DEF Good
  <2> QED BY <2>1, <2>2, <2>3
(* One byte is. *)
<1>6. ASSUME NEW y \in {ERROR, BADCRC}, r = Parsed(cut, y, << >>)
      PROVE  Goal
  <2>1. r.pak = cut /\ r.ret = y /\ r.msg = << >> /\ cut.mo = DropChar(p.mo)
    BY <1>6, ParsedFacts, PakFacts
  <2> DEFINE k == Least(Count(p.mo), 1)
  <2>2. /\ Valid(DropChar(p.mo)) /\ k \in 0 .. n
        /\ Contents(DropChar(p.mo)) = SubSeq(c, k + 1, n)
        /\ Count(DropChar(p.mo)) = n - k
    <3>1. 1 \in Nat /\ k = Least(Count(p.mo), 1)
      OBVIOUS
    <3> HIDE DEF k
    <3>2. /\ Valid(Drop(p.mo, 1)) /\ k \in 0 .. Count(p.mo)
          /\ Contents(Drop(p.mo, 1)) = SubSeq(Contents(p.mo), k + 1, Count(p.mo))
          /\ Count(Drop(p.mo, 1)) = Count(p.mo) - k
      BY <1>2, <3>1, DropTakes, Zenon
    <3> QED BY <3>2 DEF DropChar
  <2> HIDE DEF k
  <2>3. Sound(cut)
    BY <1>2, <2>2, MakeSound DEF Pak
  <2>4. y \notin {MOREDATA, RESYNC}
    BY <1>4, <1>6
  <2> HIDE DEF Good, cut
  <2> QED BY <2>1, <2>2, <2>3, <2>4
(* A packet is. *)
<1>7. ASSUME HeaderSize <= n, FrameSize(len) <= n, IntactIn(c)
      PROVE  Goal
  <2>1. Valid(rest) /\ Count(rest) = n - FrameSize(len) /\ Contents(rest) = SubSeq(c, FrameSize(len) + 1, n)
    BY <1>2, <1>3, <1>7, RestFacts, SMTT(30)
  <2>2. FrameSize(len) \in 0 .. n
    BY <1>2, <1>3, <1>7
  <2> HIDE DEF rest
  <2>3. CASE FrameSize(len) < n
    <3>1. r = Parsed(Pak(rest, p.left, p.stat), RESYNC, << MsgIn(c) >>)
      BY <1>1, <1>7, <2>3
    <3>2. r.pak = Pak(rest, p.left, p.stat) /\ r.ret = RESYNC /\ r.msg = << MsgIn(c) >>
      BY <3>1, ParsedFacts
    <3>3. r.pak.mo = rest /\ Sound(r.pak)
      BY <1>2, <2>1, <3>2, MakeSound DEF Pak
    <3> QED BY <1>4, <1>7, <2>1, <2>2, <3>2, <3>3
  <2>4. CASE FrameSize(len) = n
    <3>1. r = Parsed(Pak(rest, p.left, SYNC), MOREDATA, << MsgIn(c) >>)
      BY <1>1, <1>7, <2>4
    <3>2. r.pak = Pak(rest, p.left, SYNC) /\ r.ret = MOREDATA /\ r.msg = << MsgIn(c) >>
      BY <3>1, ParsedFacts
    <3>3. r.pak.mo = rest /\ r.pak.stat = SYNC /\ Sound(r.pak)
      BY <1>2, <1>4, <2>1, <3>2, MakeSound DEF Pak
    <3> QED BY <1>7, <2>1, <2>2, <2>4, <3>2, <3>3
  <2> HIDE DEF Goal
  <2> QED BY <1>2, <1>3, <1>7, <2>3, <2>4
<1>8. Goal
  <2> HIDE DEF Goal, cut, rest
  <2>1. CASE n < HeaderSize
    BY <1>1, <1>5, <2>1
  <2>2. CASE HeaderSize <= n /\ Size < len
    BY <1>1, <1>6, <2>2
  <2>3. CASE HeaderSize <= n /\ len <= Size /\ n < FrameSize(len)
    BY <1>1, <1>5, <2>3
  <2>4. CASE HeaderSize <= n /\ FrameSize(len) <= n /\ ~IntactIn(c)
    BY <1>1, <1>6, <2>4
  <2>5. CASE HeaderSize <= n /\ FrameSize(len) <= n /\ IntactIn(c)
    BY <1>7, <2>5
  <2>6. n < HeaderSize \/ HeaderSize <= n
    BY <1>2
  <2>7. HeaderSize <= n => n < FrameSize(len) \/ FrameSize(len) <= n
    BY <1>2, <1>3
  <2> QED BY <1>3, <2>1, <2>2, <2>3, <2>4, <2>5, <2>6, <2>7
<1>9. HeaderSize <= n /\ len <= Size /\ n < FrameSize(len) =>
        r.pak = p /\ r.ret = ERROR_NOCRC /\ r.msg = << >>
  BY <1>1, ParsedFacts
<1>10. HeaderSize <= n /\ n = FrameSize(len) /\ IntactIn(c) =>
         r.ret = MOREDATA /\ r.msg = << MsgIn(c) >>
  <2> HIDE DEF rest
  <2> QED BY <1>1, ParsedFacts
<1> HIDE DEF rest, cut
<1> QED BY <1>8, <1>9, <1>10 DEF ParseEffect

-----------------------------------------------------------------------------
(* The types of all states. *)
Messages == {m \in [id : [IdPos -> Byte], len : 0 .. Top - 1, data : Seq(Byte)] :
               Len(m.data) = Least(Room, m.len)}

Results == {MOREDATA, READY, RESYNC, ERROR, BADCRC, ERROR_NOHEAD, ERROR_NOCRC, SPIN}

StateOK == /\ Sound(pak)
           /\ session \in Sessions /\ mode \in Modes
           /\ pos \in 0 .. Len(session.bytes)
           /\ phase \in {"receive", "parse", "resync", "spin"}
           /\ ret \in Results
           /\ got \in Seq(Messages)

LEMMA NewSound ==
  ASSUME NEW mem \in [0 .. Size - 1 -> Byte], NEW p, p = NewPacket(mem)
  PROVE  /\ Sound(p) /\ p.stat = SYNC /\ Count(p.mo) = 0 /\ Contents(p.mo) = << >>
<1> DEFINE b == [buf |-> mem, wrp |-> 0, rdp |-> 0]
<1>1. p.mo = b /\ p.left = 0 /\ p.stat = SYNC /\ p = [mo |-> b, left |-> 0, stat |-> SYNC]
  BY DEF NewPacket
<1>2. /\ 0 \in 0 .. Modulus - 1 /\ 0 \in 0 .. Top - 1 /\ Modulus \in Nat \ {0} /\ Size \in Nat
  BY PacketConstants, SizeFacts
<1>3. Count(b) = 0
  <2>1. Count(b) = Wrap(0 - 0) /\ 0 - 0 = 0
    BY DEF Count
  <2>2. 0 % Modulus = 0
    BY <1>2, ModSmall
  <2> QED BY <2>1, <2>2 DEF Wrap
<1>4. b \in BufferType
  BY <1>2 DEF BufferType
<1>5. Valid(b)
  BY <1>2, <1>3, <1>4 DEF Valid
<1>6. Contents(b) = << >>
  <2>1. Contents(b) \in Seq(Byte) /\ Len(Contents(b)) = 0
    BY <1>3, <1>5, CountIsLen
  <2> QED BY <2>1, EmptySeq
<1>7. SYNC \in {SYNC, HEAD, DATA, CRC, PARSE} /\ SYNC # HEAD
  BY StatsDiffer
<1> HIDE DEF b
<1>8. Sound(p)
  BY <1>1, <1>2, <1>5, <1>7, MakeSound
<1> QED BY <1>1, <1>3, <1>6, <1>8

LEMMA MessageOK ==
  ASSUME NEW c \in Seq(Byte), HeaderSize <= Len(c), FrameSize(HeadLen(c)) <= Len(c)
  PROVE  MsgIn(c) \in Messages
<1> DEFINE len == HeadLen(c)
           e == HeaderSize + Least(Room, len)
           m == MsgIn(c)
<1>1. len \in 0 .. Top - 1 /\ Top \in Nat
  BY HeadLenRange, PacketConstants
<1>2. /\ len \in Nat /\ Room \in Nat /\ HeaderSize \in Nat /\ CrcSize \in Nat
      /\ FrameSize(len) = HeaderSize + len + CrcSize
  BY <1>1, PacketConstants, FrameFacts, ReceiverAssumption
<1>3. e \in Nat /\ HeaderSize <= e /\ e <= Len(c) /\ e - HeaderSize = Least(Room, len)
  BY <1>2 DEF Least
<1>4. m = [id |-> [i \in IdPos |-> c[i]], len |-> len, data |-> SubSeq(c, HeaderSize + 1, e)]
  BY DEF MsgIn
<1> HIDE DEF len, e, m
<1>5. SubSeq(c, HeaderSize + 1, e) \in Seq(Byte) /\ Len(SubSeq(c, HeaderSize + 1, e)) = e - HeaderSize
  BY <1>2, <1>3, Window
<1>6. [i \in IdPos |-> c[i]] \in [IdPos -> Byte]
  <2>1. \A i \in IdPos : i \in 1 .. Len(c)
    BY <1>2 DEF IdPos
  <2> QED BY <2>1, ElementOfSeq
<1>7. m \in Messages
  BY <1>1, <1>3, <1>4, <1>5, <1>6 DEF Messages
<1> QED BY <1>7 DEF m

(* The next n bytes of the stream. *)
LEMMA NextBytes ==
  ASSUME StateOK, NEW n \in Nat, pos + n <= Len(session.bytes),
         NEW d, d = SubSeq(session.bytes, pos + 1, pos + n)
  PROVE  /\ d \in Seq(Byte) /\ Len(d) = n
         /\ session.bytes \in Seq(Byte) /\ Len(session.bytes) \in Nat /\ pos \in Nat
<1>1. session.bytes \in Seq(Byte)
  BY ReceiverAssumption DEF StateOK
<1>2. pos \in Nat /\ Len(session.bytes) \in Nat
  BY <1>1 DEF StateOK
<1> DEFINE e == pos + n
           s == session.bytes
<1>3. e \in Nat /\ pos <= e /\ e <= Len(s) /\ e - pos = n
  BY <1>2
<1> HIDE DEF e, s
<1>4. SubSeq(s, pos + 1, e) \in Seq(Byte) /\ Len(SubSeq(s, pos + 1, e)) = e - pos
  <2>1. s \in Seq(Byte)
    BY <1>1 DEF s
  <2> QED BY <1>2, <1>3, <2>1, Window
<1> QED BY <1>1, <1>2, <1>3, <1>4 DEF e, s

LEMMA NextByte ==
  ASSUME StateOK, pos < Len(session.bytes)
  PROVE  session.bytes[pos + 1] \in Byte /\ pos + 1 \in 0 .. Len(session.bytes)
<1>1. session.bytes \in Seq(Byte)
  BY ReceiverAssumption DEF StateOK
<1>2. pos + 1 \in 1 .. Len(session.bytes) /\ pos + 1 \in 0 .. Len(session.bytes)
  BY <1>1 DEF StateOK
<1> QED BY <1>1, <1>2, ElementOfSeq

LEMMA StateOKInit == Init => StateOK
<1> SUFFICES ASSUME Init PROVE StateOK
  OBVIOUS
<1>1. PICK mem \in Memories : pak = NewPacket(mem)
  BY DEF Init, Start
<1>2. Sound(pak)
  BY <1>1, NewSound, ReceiverAssumption
<1>3. session.bytes \in Seq(Byte)
  BY ReceiverAssumption DEF Init
<1>4. pos \in 0 .. Len(session.bytes)
  BY <1>3 DEF Init, Start
<1>5. got \in Seq(Messages) /\ ret \in Results
  BY DEF Init, Start, Results
<1> QED BY <1>2, <1>4, <1>5 DEF StateOK, Init, Start

LEMMA StateOKNext == StateOK /\ [Next]_vars => StateOK'
<1> SUFFICES ASSUME StateOK, [Next]_vars PROVE StateOK'
  OBVIOUS
<1>1. CASE UNCHANGED vars
  BY <1>1 DEF StateOK, vars
<1>2. ASSUME NEW n \in Chunks, CallReceive(n) PROVE StateOK'
  <2> DEFINE d == SubSeq(session.bytes, pos + 1, pos + n)
             r == Receive(pak, d)
  <2>1. n \in Nat /\ pos + n <= Len(session.bytes)
    BY <1>2, ReceiverAssumption DEF CallReceive
  <2>2. d \in Seq(Byte) /\ Len(d) = n /\ pos \in Nat /\ Len(session.bytes) \in Nat
    BY <2>1, NextBytes
  <2>3. /\ pak' = r.pak /\ ret' = r.ret /\ pos' = pos + r.used
        /\ phase' \in {"receive", "parse"}
        /\ session' = session /\ mode' = mode /\ got' = got
    BY <1>2 DEF CallReceive
  <2>4. Typed(r, d)
    <3> HIDE DEF d
    <3> QED BY <2>2, ReceiveSound DEF StateOK
  <2> HIDE DEF d, r
  <2>5. pos' \in 0 .. Len(session.bytes)
    BY <2>1, <2>2, <2>3, <2>4 DEF Typed
  <2> QED BY <2>3, <2>4, <2>5 DEF StateOK, Typed, Results
<1>3. CASE CallReceiveByte
  <2> DEFINE x == session.bytes[pos + 1]
             r == ReceiveByte(pak, x)
  <2>1. x \in Byte /\ pos + 1 \in 0 .. Len(session.bytes)
    BY <1>3, NextByte DEF CallReceiveByte
  <2>2. /\ pak' = r.pak /\ ret' = r.ret /\ pos' = pos + 1
        /\ phase' \in {"receive", "parse"}
        /\ session' = session /\ mode' = mode /\ got' = got
    BY <1>3 DEF CallReceiveByte
  <2>3. Sound(r.pak) /\ r.ret \in {0, 1}
    <3> HIDE DEF x
    <3> QED BY <2>1, ByteSound DEF StateOK
  <2> HIDE DEF x, r
  <2> QED BY <2>1, <2>2, <2>3 DEF StateOK, Results, MOREDATA, READY
<1>4. CASE CallParse
  <2> DEFINE r == Parse(pak, Room)
             c == Contents(pak.mo)
  <2>1. /\ pak' = r.pak /\ ret' = r.ret /\ got' = got \o r.msg
        /\ phase' \in {"receive", "resync"}
        /\ session' = session /\ mode' = mode /\ pos' = pos
    BY <1>4 DEF CallParse
  <2>2. /\ Sound(r.pak)
        /\ r.ret \in {MOREDATA, RESYNC, ERROR, BADCRC, ERROR_NOHEAD, ERROR_NOCRC}
        /\ \/ r.msg = << >>
           \/ /\ r.msg = << MsgIn(c) >>
              /\ HeaderSize <= Count(pak.mo) /\ FrameSize(HeadLen(c)) <= Count(pak.mo)
    <3>1. Sound(pak)
      BY DEF StateOK
    <3>2. ParseEffect(pak, r)
      BY <3>1, ParseStep
    <3> HIDE DEF r
    <3> QED BY <3>2 DEF ParseEffect
  <2>3. c \in Seq(Byte) /\ Len(c) = Count(pak.mo)
    BY SoundFacts DEF StateOK
  <2> HIDE DEF r, c
  <2>4. r.msg \in Seq(Messages)
    <3>1. CASE r.msg = << >>
      BY <3>1
    <3>2. CASE r.msg = << MsgIn(c) >> /\ HeaderSize <= Len(c) /\ FrameSize(HeadLen(c)) <= Len(c)
      <4>1. MsgIn(c) \in Messages
        BY <2>3, <3>2, MessageOK
      <4> QED BY <3>2, <4>1
    <3> QED BY <2>2, <2>3, <3>1, <3>2
  <2>5. got' \in Seq(Messages)
    BY <2>1, <2>4, ConcatProperties DEF StateOK
  <2> QED BY <2>1, <2>2, <2>5 DEF StateOK, Results
<1>5. CASE CallResync
  <2> DEFINE r == Resync(pak)
  <2>1. /\ pak' = r.pak /\ ret' = r.ret
        /\ session' = session /\ mode' = mode /\ pos' = pos /\ got' = got
    BY <1>5 DEF CallResync
  <2>2. phase' \in {"receive", "parse", "spin"}
    BY <1>5, Zenon DEF CallResync
  <2>3. Sound(r.pak) /\ r.ret \in {SPIN, MOREDATA, READY}
    BY ResyncFacts DEF StateOK
  <2> HIDE DEF r
  <2> QED BY <2>1, <2>2, <2>3 DEF StateOK, Results
<1>6. CASE Spinning
  BY <1>6 DEF Spinning, StateOK, vars
<1> QED BY <1>1, <1>2, <1>3, <1>4, <1>5, <1>6 DEF Next

(* Every state of a receiver and its caller is well-formed: the counters   *)
(* stay apart by no more than the buffer's size, `left' stays a uint16_t,  *)
(* and the caller is given as much data as it has room for.                *)
THEOREM PacketTypeOK == Spec => []TypeOK
<1>1. StateOK => TypeOK
  <2> SUFFICES ASSUME StateOK PROVE TypeOK
    OBVIOUS
  <2>1. \A i \in DOMAIN got : Len(got[i].data) = Least(Room, got[i].len)
    <3>1. \A i \in DOMAIN got : got[i] \in Messages
      BY DEF StateOK
    <3> QED BY <3>1 DEF Messages
  <2> QED BY <2>1 DEF StateOK, TypeOK, Sound, Results
<1> QED BY <1>1, StateOKInit, StateOKNext, PTL DEF Spec

-----------------------------------------------------------------------------
(* bscl_packet_receive, when the buffer has room for the packet: what it   *)
(* takes of d follows what is there, all of it while the packet lacks      *)
(* some; READY comes with the packet's last byte, unless `left' overflows. *)
Stored(r, mo, d, len) ==
  /\ r.used \in 0 .. Len(d) /\ r.ret \in {MOREDATA, READY}
  /\ Contents(r.pak.mo) = Contents(mo) \o SubSeq(d, 1, r.used)
  /\ Count(r.pak.mo) = Count(mo) + r.used
  /\ r.ret = MOREDATA =>
       /\ r.used = Len(d)
       /\ Part(r.pak.stat, r.pak.left, Count(mo) + Len(d), len, "chunk")
  /\ r.ret = READY =>
       /\ HeaderSize <= Count(mo) + Len(d)
       /\ FrameSize(len) < Top => Count(mo) + r.used = FrameSize(len)

LEMMA AwaitStored ==
  ASSUME NEW p, Sound(p), NEW d \in Seq(Byte), Len(d) < p.left, NEW len,
         Count(p.mo) + Len(d) <= Size,
         Part(p.stat, p.left - Len(d), Count(p.mo) + Len(d), len, "chunk"),
         NEW r, r = Await(p, d)
  PROVE  Stored(r, p.mo, d, len)
<1>1. /\ r.used = Len(d) /\ r.ret = MOREDATA
      /\ r.pak = [mo |-> Write(p.mo, d), left |-> p.left - Len(d), stat |-> p.stat]
  BY AwaitSound
<1>2. /\ Valid(p.mo) /\ Len(d) \in Nat /\ Len(d) <= Size - Count(p.mo)
  BY SoundFacts, PacketConstants
<1>3. Contents(Write(p.mo, d)) = Contents(p.mo) \o d /\ Count(Write(p.mo, d)) = Count(p.mo) + Len(d)
  BY <1>2, WriteAppends
<1>4. SubSeq(d, 1, Len(d)) = d
  BY SubSeqFull
<1>5. r.pak.mo = Write(p.mo, d) /\ r.pak.left = p.left - Len(d) /\ r.pak.stat = p.stat
  BY <1>1
<1>6. MOREDATA # READY
  BY DEF MOREDATA, READY
<1>7. /\ r.used \in 0 .. Len(d) /\ r.ret # READY
      /\ Contents(r.pak.mo) = Contents(p.mo) \o SubSeq(d, 1, r.used)
      /\ Count(r.pak.mo) = Count(p.mo) + r.used
  <2>1. Len(d) \in 0 .. Len(d)
    BY <1>2
  <2> QED BY <1>1, <1>3, <1>4, <1>5, <1>6, <2>1
<1>8. Part(r.pak.stat, r.pak.left, Count(p.mo) + Len(d), len, "chunk")
  BY <1>5
<1> QED BY <1>1, <1>7, <1>8, Zenon DEF Stored

LEMMA CrcStored ==
  ASSUME NEW p, Sound(p), p.stat = CRC, NEW d \in Seq(Byte), NEW len \in 0 .. Top - 1,
         HeaderSize <= Count(p.mo) + Len(d), FrameSize(len) <= Size,
         Count(p.mo) + p.left <= FrameSize(len),
         FrameSize(len) < Top => /\ Count(p.mo) + p.left = FrameSize(len)
                                 /\ HeaderSize + len <= Count(p.mo) + Len(d),
         NEW r, r = ReceiveCrc(p, d)
  PROVE  Stored(r, p.mo, d, len)
<1> DEFINE n == Count(p.mo)
           k == Len(d)
           f == FrameSize(len)
<1>1. /\ Valid(p.mo) /\ p.left \in Nat /\ n \in Nat /\ k \in Nat /\ Size \in Nat /\ Top \in Nat
      /\ len \in Nat /\ HeaderSize \in Nat /\ f \in Nat
  <2>1. Top \in Nat /\ HeaderSize \in Nat /\ CrcSize \in Nat /\ Size \in Nat
    BY PacketConstants
  <2>2. len \in Nat
    BY <2>1
  <2>3. f = HeaderSize + len + CrcSize
    BY <2>2, FrameFacts
  <2> QED BY <2>1, <2>2, <2>3, SoundFacts
<1> HIDE DEF n, k, f
<1>2. CASE k < p.left
  <2>1. r = Await(p, d)
    BY <1>2 DEF ReceiveCrc, k
  <2>2. n + k <= Size
    BY <1>1, <1>2 DEF n, k, f
  <2>3. /\ n + k + (p.left - k) = n + p.left /\ 1 <= p.left - k
        /\ HeaderSize <= n + k /\ f <= Size /\ n + p.left <= f
        /\ f < Top => n + p.left = f /\ HeaderSize + len <= n + k
    BY <1>1, <1>2 DEF n, k, f
  <2>4. Part(CRC, p.left - k, n + k, len, "chunk")
    BY <1>1, <2>3, StatsDiffer DEF Part, f
  <2> QED BY <1>2, <2>1, <2>2, <2>4, AwaitStored DEF n, k
<1>3. CASE ~(k < p.left)
  <2> DEFINE s == SubSeq(d, 1, p.left)
  <2>1. p.left \in 0 .. k /\ n + p.left <= Size
    BY <1>1, <1>3 DEF n, f
  <2>2. s \in Seq(Byte) /\ Len(s) = p.left
    BY <2>1, PrefixFacts DEF k
  <2>3. r = Received([mo |-> Write(p.mo, s), left |-> p.left, stat |-> p.stat], p.left, READY)
    BY <1>3 DEF ReceiveCrc, Sound, PacketType, k
  <2> HIDE DEF s
  <2>4. r.pak.mo = Write(p.mo, s) /\ r.used = p.left /\ r.ret = READY
    BY <2>3 DEF Received
  <2>5. Contents(Write(p.mo, s)) = Contents(p.mo) \o s /\ Count(Write(p.mo, s)) = n + p.left
    <3>1. Len(s) <= Size - Count(p.mo)
      BY <1>1, <2>1, <2>2 DEF n
    <3> QED BY <1>1, <2>2, <3>1, WriteAppends DEF n
  <2>6. MOREDATA # READY
    BY DEF MOREDATA, READY
  <2>7. f < Top => n + p.left = f
    BY DEF n, f
  <2> QED BY <2>1, <2>4, <2>5, <2>6, <2>7 DEF Stored, n, k, f, s
<1> QED BY <1>2, <1>3

LEMMA DataStored ==
  ASSUME NEW p, Sound(p), p.stat = DATA, NEW d \in Seq(Byte), NEW len \in 0 .. Top - 1,
         HeaderSize <= Count(p.mo) + Len(d), FrameSize(len) <= Size,
         Count(p.mo) + p.left <= HeaderSize + len,
         \/ Count(p.mo) + p.left = HeaderSize + len
         \/ p.left <= Len(d) /\ Top <= FrameSize(len),
         NEW r, r = ReceiveData(p, d)
  PROVE  Stored(r, p.mo, d, len)
<1> DEFINE n == Count(p.mo)
           k == Len(d)
           f == FrameSize(len)
<1>1. /\ Valid(p.mo) /\ p.left \in 0 .. Top - 1 /\ p.left \in Nat /\ n \in Nat /\ k \in Nat
      /\ Size \in Nat /\ Top \in Nat /\ len \in Nat /\ HeaderSize \in Nat /\ CrcSize \in Nat
      /\ f = HeaderSize + len + CrcSize /\ CrcSize < Top /\ 1 <= CrcSize
  <2>1. Top \in Nat /\ HeaderSize \in Nat /\ CrcSize \in Nat /\ Size \in Nat /\ CrcSize < Top /\ 1 <= CrcSize
    BY PacketConstants
  <2>2. len \in Nat
    BY <2>1
  <2>3. f = HeaderSize + len + CrcSize
    BY <2>2, FrameFacts
  <2> QED BY <2>1, <2>2, <2>3, SoundFacts
<1> HIDE DEF n, k, f
<1>2. CASE k < p.left
  <2>1. r = Await(p, d)
    BY <1>2 DEF ReceiveData, k
  <2>2. n + p.left = HeaderSize + len
    BY <1>1, <1>2 DEF n, k, f
  <2>3. /\ n + k + (p.left - k) = n + p.left /\ 1 <= p.left - k /\ n + k <= Size
        /\ HeaderSize <= n + k /\ f <= Size
    BY <1>1, <1>2, <2>2 DEF n, k, f
  <2>4. Part(DATA, p.left - k, n + k, len, "chunk")
    BY <1>1, <2>2, <2>3, StatsDiffer DEF Part, f
  <2> QED BY <1>2, <2>1, <2>3, <2>4, AwaitStored DEF n, k
<1>3. CASE ~(k < p.left)
  <2> DEFINE q == EnteredCrc(p)
  <2>1. r = ReceiveCrc(q, d)
    BY <1>3, Entered DEF ReceiveData, k
  <2>2. Sound(q) /\ q.stat = CRC /\ q.mo = p.mo /\ q.left = U16(p.left + CrcSize)
    BY Entered DEF EnteredCrc
  <2> HIDE DEF q
  <2>3. /\ q.left \in Nat /\ q.left <= p.left + CrcSize
        /\ p.left + CrcSize < Top => q.left = p.left + CrcSize
    <3>1. p.left + CrcSize \in Int /\ p.left + CrcSize \in 0 .. Top + Top - 1
      BY <1>1
    <3> DEFINE x == p.left + CrcSize
    <3> HIDE DEF x
    <3>2. /\ U16(x) \in 0 .. Top - 1
          /\ x \in 0 .. Top - 1 => U16(x) = x
          /\ x \in Top .. Top + Top - 1 => U16(x) = x - Top
      BY <3>1, U16Facts DEF x
    <3>3. q.left \in Nat /\ q.left <= x /\ (x < Top => q.left = x)
      BY <1>1, <2>2, <3>1, <3>2, SMTT(30) DEF x
    <3> QED BY <3>3 DEF x
  <2>4. n + q.left <= f /\ (f < Top => n + q.left = f /\ HeaderSize + len <= n + k)
    <3>1. n + p.left <= HeaderSize + len /\ (n + p.left = HeaderSize + len \/ Top <= f)
      BY DEF n, f
    <3>2. p.left <= k
      BY <1>1, <1>3
    <3> DEFINE x == p.left
               y == q.left
    <3>3. /\ n \in Nat /\ k \in Nat /\ x \in Nat /\ y \in Nat /\ len \in Nat
          /\ HeaderSize \in Nat /\ CrcSize \in Nat /\ Top \in Nat
          /\ f = HeaderSize + len + CrcSize
      BY <1>1, <2>3
    <3>4. /\ n + x <= HeaderSize + len /\ (n + x = HeaderSize + len \/ Top <= f)
          /\ x <= k /\ y <= x + CrcSize /\ (x + CrcSize < Top => y = x + CrcSize)
      BY <2>3, <3>1, <3>2
    <3>5. n + y <= f /\ (f < Top => n + y = f /\ HeaderSize + len <= n + k)
      <4> HIDE DEF x, y
      <4> HIDE DEF n, k, f
      <4> QED BY <3>3, <3>4
    <3> QED BY <3>5
  <2> QED BY <2>1, <2>2, <2>4, CrcStored DEF n, k, f
<1> QED BY <1>2, <1>3

LEMMA HeadStored ==
  ASSUME NEW p, Sound(p), p.stat = HEAD, NEW d \in Seq(Byte),
         Count(p.mo) + p.left = HeaderSize, HeaderSize <= Size,
         NEW len, len = HeadLen(Contents(p.mo) \o d),
         p.left <= Len(d) => FrameSize(len) <= Size,
         NEW r, r = ReceiveHead(p, d)
  PROVE  Stored(r, p.mo, d, len)
<1> DEFINE n == Count(p.mo)
           k == Len(d)
           f == FrameSize(len)
<1>1. /\ Valid(p.mo) /\ p.left \in 0 .. Top - 1 /\ p.left \in Nat /\ n \in Nat /\ k \in Nat
      /\ Size \in Nat /\ Top \in Nat /\ HeaderSize \in Nat /\ CrcSize \in Nat
  BY SoundFacts, PacketConstants
<1> HIDE DEF n, k, f
<1>2. CASE k < p.left
  <2>1. r = Await(p, d)
    BY <1>2 DEF ReceiveHead, k
  <2>3. /\ n + k + (p.left - k) = HeaderSize /\ 1 <= p.left - k /\ n + k <= Size
    BY <1>1, <1>2 DEF n, k, f
  <2>4. Part(HEAD, p.left - k, n + k, len, "chunk")
    BY <1>1, <2>3, StatsDiffer DEF Part, f
  <2> QED BY <1>2, <2>1, <2>3, <2>4, AwaitStored DEF n, k
<1>3. CASE ~(k < p.left)
  <2> DEFINE q == EnteredData(p, len)
  <2>1. p.left <= Len(d)
    BY <1>1, <1>3 DEF k
  <2>2. len \in 0 .. Top - 1 /\ LenField(p, d) = len
    BY <2>1, LenFieldFacts
  <2>3. len \in Nat /\ len \in Int /\ f = HeaderSize + len + CrcSize
    <3>1. len \in Nat
      BY <1>1, <2>2
    <3> QED BY <3>1, FrameFacts DEF f
  <2>4. r = ReceiveData(q, d)
    BY <1>3, <2>2, Entered DEF ReceiveHead, k
  <2>5. Sound(q) /\ q.stat = DATA /\ q.mo = p.mo /\ q.left = U16(p.left + len)
    BY <2>3, Entered DEF EnteredData
  <2> HIDE DEF q
  <2>6. \/ q.left = p.left + len
        \/ q.left = (p.left + len) - Top /\ Top <= p.left + len
    <3>1. p.left + len \in Int /\ p.left + len \in 0 .. Top + Top - 1
      BY <1>1, <2>2
    <3> DEFINE x == p.left + len
    <3> HIDE DEF x
    <3>2. /\ U16(x) \in 0 .. Top - 1
          /\ x \in 0 .. Top - 1 => U16(x) = x
          /\ x \in Top .. Top + Top - 1 => U16(x) = x - Top
      BY <3>1, U16Facts DEF x
    <3>3. q.left = x \/ (q.left = x - Top /\ Top <= x)
      BY <1>1, <2>5, <3>1, <3>2 DEF x
    <3> QED BY <3>3 DEF x
  <2>7. /\ n + q.left <= HeaderSize + len /\ HeaderSize <= n + k /\ f <= Size
        /\ n + q.left = HeaderSize + len \/ (q.left <= k /\ Top <= f)
    <3>1. n + p.left = HeaderSize /\ p.left <= k /\ f <= Size
      BY <2>1 DEF n, k, f
    <3>2. len \in Nat /\ len < Top
      BY <1>1, <2>2
    <3> DEFINE x == p.left
               y == q.left
    <3>3. /\ n \in Nat /\ k \in Nat /\ x \in Nat /\ HeaderSize \in Nat /\ CrcSize \in Nat
          /\ Top \in Nat /\ f = HeaderSize + len + CrcSize
      BY <1>1, <2>3
    <3>4. /\ n + x = HeaderSize /\ x <= k
          /\ y = x + len \/ (y = (x + len) - Top /\ Top <= x + len)
      BY <2>6, <3>1
    <3>5. /\ n + y <= HeaderSize + len /\ HeaderSize <= n + k
          /\ n + y = HeaderSize + len \/ (y <= k /\ Top <= f)
      <4> HIDE DEF x, y, n, k, f
      <4> QED BY <3>2, <3>3, <3>4, SMTT(30)
    <3> QED BY <3>1, <3>5
  <2> QED BY <2>2, <2>4, <2>5, <2>7, DataStored DEF n, k, f
<1> QED BY <1>2, <1>3

(* More bytes do not change the length that a whole header announces. *)
LEMMA HeadLenPrefix ==
  ASSUME NEW c \in Seq(Byte), NEW d \in Seq(Byte), HeaderSize <= Len(c)
  PROVE  HeadLen(c \o d) = HeadLen(c)
<1> DEFINE e == c \o d
<1>1. \A i \in 1 .. Len(c) + Len(d) : e[i] = IF i <= Len(c) THEN c[i] ELSE d[i - Len(c)]
  BY ConcatProperties
<1> HIDE DEF e
<1>2. /\ LenPos + 1 \in 1 .. Len(c) + Len(d) /\ LenPos + 1 <= Len(c)
      /\ LenPos + 2 \in 1 .. Len(c) + Len(d) /\ LenPos + 2 <= Len(c)
  <2>1. Len(c) \in Nat /\ Len(d) \in Nat
    OBVIOUS
  <2> QED BY <2>1, PacketConstants
<1>3. e[LenPos + 1] = c[LenPos + 1] /\ e[LenPos + 2] = c[LenPos + 2]
  BY <1>1, <1>2
<1> QED BY <1>3 DEF HeadLen, e

(* What a call of receive does with d in any state, s the bytes it skips   *)
(* before a packet and e the end of those that it looks at.                *)
Skipped(p, d) == IF p.stat # SYNC THEN 0
                 ELSE IF Magics(d) = {} THEN Len(d) ELSE Skip(d)

Fits(mo, d, s, e) ==
  HeaderSize <= Count(mo) + (e - s) =>
    FrameSize(HeadLen(Contents(mo) \o SubSeq(d, s + 1, e))) <= Size

Taken(r, mo, d, s, e) ==
  LET len == HeadLen(Contents(mo) \o SubSeq(d, s + 1, e))
      n   == Count(r.pak.mo)
  IN  /\ r.used \in s .. e /\ r.ret \in {MOREDATA, READY}
      /\ Contents(r.pak.mo) = Contents(mo) \o SubSeq(d, s + 1, r.used)
      /\ n = Count(mo) + (r.used - s)
      /\ r.ret = MOREDATA =>
           Part(r.pak.stat, r.pak.left, n, HeadLen(Contents(r.pak.mo)), "chunk")
      /\ r.ret = READY =>
           HeaderSize <= Count(mo) + (e - s) /\ (FrameSize(len) < Top => n = FrameSize(len))

LEMMA StoredIsTaken ==
  ASSUME NEW mo, Valid(mo), NEW d \in Seq(Byte), NEW s \in Nat, NEW e \in Nat,
         s <= e, e <= Len(d), NEW w, w = SubSeq(d, s + 1, e),
         NEW h, Stored(h, mo, w, HeadLen(Contents(mo) \o w)),
         NEW r, r.pak = h.pak, r.ret = h.ret, r.used = h.used + s
  PROVE  Taken(r, mo, d, s, e)
<1> DEFINE c == Contents(mo)
           n == Count(mo)
<1>1. /\ w \in Seq(Byte) /\ Len(w) = e - s /\ n \in Nat
  BY Window, CountIsLen
<1>2. /\ h.used \in 0 .. e - s /\ h.ret \in {MOREDATA, READY}
      /\ Contents(h.pak.mo) = c \o SubSeq(w, 1, h.used)
      /\ Count(h.pak.mo) = n + h.used
      /\ h.ret = MOREDATA =>
           h.used = e - s /\ Part(h.pak.stat, h.pak.left, n + (e - s), HeadLen(c \o w), "chunk")
      /\ h.ret = READY =>
           /\ HeaderSize <= n + (e - s)
           /\ FrameSize(HeadLen(c \o w)) < Top => n + h.used = FrameSize(HeadLen(c \o w))
  BY <1>1 DEF Stored
<1> HIDE DEF c, n
<1> DEFINE u == h.used
<1>3. u \in Nat /\ u <= e - s /\ s + u = u + s /\ (u + s) - s = u /\ u + s \in s .. e
  <2>1. u \in 0 .. e - s
    BY <1>2
  <2> HIDE DEF u
  <2> QED BY <2>1
<1> HIDE DEF u
<1>4. SubSeq(w, 1, u) = SubSeq(d, s + 1, u + s)
  <2>1. SubSeq(SubSeq(d, s + 1, e), 0 + 1, u) = SubSeq(d, s + 0 + 1, s + u)
    <3>1. 0 \in Nat /\ 0 <= u
      BY <1>3
    <3> QED BY <1>3, <3>1, WindowOfWindow
  <2>2. 0 + 1 = 1 /\ s + 0 + 1 = s + 1
    OBVIOUS
  <2> QED BY <1>3, <2>1, <2>2
<1>5. r.used = u + s /\ Contents(r.pak.mo) = c \o SubSeq(d, s + 1, r.used)
      /\ Count(r.pak.mo) = n + u
  BY <1>2, <1>4 DEF u
<1>6. h.ret = MOREDATA =>
        /\ SubSeq(w, 1, u) = w /\ n + u = n + (e - s)
  <2>1. SubSeq(w, 1, Len(w)) = w
    BY <1>1, SubSeqFull
  <2> QED BY <1>1, <1>2, <2>1 DEF u
<1>7. r.ret = MOREDATA =>
        Part(r.pak.stat, r.pak.left, n + u, HeadLen(Contents(r.pak.mo)), "chunk")
  <2> SUFFICES ASSUME h.ret = MOREDATA
               PROVE  Part(h.pak.stat, h.pak.left, n + u, HeadLen(Contents(h.pak.mo)), "chunk")
    OBVIOUS
  <2>1. Contents(h.pak.mo) = c \o w /\ n + u = n + (e - s)
    BY <1>2, <1>6 DEF u
  <2> QED BY <1>2, <2>1
<1>8. r.ret = READY =>
           /\ HeaderSize <= n + (e - s)
           /\ FrameSize(HeadLen(c \o w)) < Top => n + u = FrameSize(HeadLen(c \o w))
  BY <1>2 DEF u
<1>9. r.used - s = u /\ r.used \in s .. e
  BY <1>3, <1>5
<1> QED BY <1>2, <1>5, <1>7, <1>8, <1>9 DEF Taken, c, n

LEMMA ReceiveStep ==
  ASSUME NEW p, Sound(p), NEW d \in Seq(Byte), HeaderSize <= Size,
         Part(p.stat, p.left, Count(p.mo), HeadLen(Contents(p.mo)), "chunk"),
         NEW s, s = Skipped(p, d),
         \A e \in s .. Len(d) : Fits(p.mo, d, s, e),
         NEW r, r = Receive(p, d)
  PROVE  s \in 0 .. Len(d) /\ \E e \in s .. Len(d) : Taken(r, p.mo, d, s, e)
<1> DEFINE c == Contents(p.mo)
           n == Count(p.mo)
           k == Len(d)
<1>1. /\ Valid(p.mo) /\ c \in Seq(Byte) /\ Len(c) = n /\ n \in Nat /\ k \in Nat
      /\ p.left \in 0 .. Top - 1 /\ p.left \in Nat
      /\ HeaderSize \in Nat /\ CrcSize \in Nat /\ Top \in Nat /\ Size \in Nat /\ 1 <= HeaderSize
  BY SoundFacts, PacketConstants
<1>2. ASSUME p.stat # SYNC, Stored(r, p.mo, d, HeadLen(c \o d))
      PROVE  s \in 0 .. k /\ \E e \in s .. k : Taken(r, p.mo, d, s, e)
  <2>1. s = 0
    BY <1>2 DEF Skipped
  <2>2. SubSeq(d, 0 + 1, k) = d
    BY SubSeqFull
  <2>3. r.used \in Nat /\ r.used = r.used + 0
    BY <1>1, <1>2 DEF Stored
  <2>4. 0 \in Nat /\ 0 <= k /\ k <= Len(d) /\ k \in 0 .. k /\ 0 \in 0 .. k
    BY <1>1
  <2> HIDE DEF k, c
  <2>5. Taken(r, p.mo, d, 0, k)
    <3>1. d = SubSeq(d, 0 + 1, k)
      BY <2>2
    <3>2. Stored(r, p.mo, d, HeadLen(Contents(p.mo) \o d))
      BY <1>2 DEF c
    <3> QED BY <1>1, <2>3, <2>4, <3>1, <3>2, StoredIsTaken
  <2> QED BY <2>1, <2>4, <2>5
<1>3. ASSUME p.stat # SYNC, HeaderSize <= n + k
      PROVE  FrameSize(HeadLen(c \o d)) <= Size
  <2>1. s = 0 /\ k \in s .. k /\ n + (k - 0) = n + k
    BY <1>1, <1>3 DEF Skipped
  <2>2. Fits(p.mo, d, 0, k)
    BY <2>1
  <2>3. SubSeq(d, 0 + 1, k) = d
    BY SubSeqFull
  <2> HIDE DEF k, n, c
  <2> QED BY <1>3, <2>1, <2>2, <2>3 DEF Fits, n, c
<1>4. ASSUME HeaderSize <= n
      PROVE  HeadLen(c \o d) = HeadLen(c) /\ HeadLen(c) \in 0 .. Top - 1 /\ HeaderSize <= n + k
  <2> HIDE DEF c, n
  <2>1. HeadLen(c \o d) = HeadLen(c) /\ HeadLen(c) \in 0 .. Top - 1
    BY <1>1, <1>4, HeadLenPrefix, HeadLenRange
  <2> QED BY <1>1, <1>4, <2>1
<1> HIDE DEF c, n, k
<1>5. CASE p.stat = CRC
  <2>1. HeaderSize <= n /\ FrameSize(HeadLen(c)) <= Size /\ n + p.left <= FrameSize(HeadLen(c))
        /\ (FrameSize(HeadLen(c)) < Top => n + p.left = FrameSize(HeadLen(c)) /\ HeaderSize + HeadLen(c) <= n)
    <3>1. HeaderSize <= n
      BY <1>5, StatsDiffer DEF Part, n
    <3>2. HeadLen(c) \in Nat
      BY <1>1, <1>4, <3>1
    <3>3. FrameSize(HeadLen(c)) \in Int
      BY <3>2, FrameFacts
    <3>4. FrameSize(HeadLen(c)) < Top => ~(FrameSize(HeadLen(c)) >= Top)
      BY <1>1, <3>3
    <3> QED BY <1>5, <3>1, <3>4, StatsDiffer DEF Part, n, c
  <2>2. r = ReceiveCrc(p, d)
    BY <1>5, ReceiveCases
  <2>3. Stored(r, p.mo, d, HeadLen(c))
    <3>1. HeadLen(c) \in 0 .. Top - 1 /\ HeaderSize <= n + k
      BY <1>4, <2>1
    <3>2. HeaderSize + HeadLen(c) <= n => HeaderSize + HeadLen(c) <= n + k
      BY <1>1, <3>1
    <3> QED BY <1>5, <2>1, <2>2, <3>1, <3>2, CrcStored DEF n, k
  <2> QED BY <1>2, <1>4, <1>5, <2>1, <2>3, StatsDiffer DEF k
<1>6. CASE p.stat = DATA
  <2>1. HeaderSize <= n /\ FrameSize(HeadLen(c)) <= Size /\ n + p.left = HeaderSize + HeadLen(c)
    BY <1>6, StatsDiffer DEF Part, n, c
  <2>2. r = ReceiveData(p, d)
    BY <1>6, ReceiveCases
  <2>3. Stored(r, p.mo, d, HeadLen(c))
    <3>1. HeadLen(c) \in 0 .. Top - 1 /\ HeaderSize <= n + k
      BY <1>4, <2>1
    <3>2. n + p.left <= HeaderSize + HeadLen(c)
      BY <1>1, <2>1
    <3> QED BY <1>6, <2>1, <2>2, <3>1, <3>2, DataStored DEF n, k
  <2> QED BY <1>2, <1>4, <1>6, <2>1, <2>3, StatsDiffer DEF k
<1>7. CASE p.stat = HEAD
  <2>1. n + p.left = HeaderSize
    BY <1>7, StatsDiffer DEF Part, n
  <2>2. r = ReceiveHead(p, d)
    BY <1>7, ReceiveCases
  <2>3. p.left <= k => FrameSize(HeadLen(c \o d)) <= Size
    BY <1>1, <1>3, <1>7, <2>1, StatsDiffer
  <2>4. Stored(r, p.mo, d, HeadLen(c \o d))
    BY <1>7, <2>1, <2>2, <2>3, HeadStored DEF n, c, k
  <2> QED BY <1>2, <1>7, <2>4, StatsDiffer DEF k
<1>8. CASE p.stat = SYNC
  <2>1. n = 0 /\ c = << >>
    <3>1. n = 0
      BY <1>8 DEF Part, n
    <3> QED BY <1>1, <3>1, EmptySeq
  <2>2. r = ReceiveSync(p, d)
    BY <1>8, ReceiveCases
  <2>3. CASE Magics(d) = {}
    <3>1. s = k /\ r = Received(p, k, MOREDATA)
      BY <1>8, <2>2, <2>3, SyncFacts DEF Skipped, k
    <3>2. r.pak = p /\ r.used = k /\ r.ret = MOREDATA
      BY <3>1 DEF Received
    <3>3. SubSeq(d, k + 1, k) = << >>
      <4>1. SubSeq(d, k + 1, k) \in Seq(Byte) /\ Len(SubSeq(d, k + 1, k)) = k - k
        BY <1>1, Window DEF k
      <4> DEFINE w == SubSeq(d, k + 1, k)
      <4> HIDE DEF w
      <4>2. w \in Seq(Byte) /\ Len(w) = 0
        BY <1>1, <4>1 DEF w
      <4>3. w = << >>
        BY <4>2, EmptySeq
      <4> QED BY <4>3 DEF w
    <3>4. c = c \o SubSeq(d, k + 1, k)
      <4> DEFINE w == SubSeq(d, k + 1, k)
      <4>1. w = << >>
        BY <3>3
      <4> HIDE DEF w
      <4>2. c = c \o w
        BY <2>1, <4>1
      <4> QED BY <4>2 DEF w
    <3>5. n = n + (k - k) /\ k \in k .. k
      BY <1>1
    <3>6. MOREDATA # READY
      BY DEF MOREDATA, READY
    <3>7. Taken(r, p.mo, d, k, k)
      BY <3>2, <3>4, <3>5, <3>6 DEF Taken, n, c
    <3>8. s \in 0 .. k /\ k \in s .. k
      BY <1>1, <3>1
    <3> QED BY <3>1, <3>7, <3>8 DEF k
  <2>4. CASE Magics(d) # {}
    <3> DEFINE e == Cut(p, d)
               q == Begun(p)
               w == SubSeq(d, s + 1, e)
               h == ReceiveHead(q, w)
    <3>1. /\ s = Skip(d) /\ s \in 0 .. k - 1 /\ e \in s .. k
          /\ IF s = e THEN r = Received(q, e, MOREDATA)
             ELSE r = [h EXCEPT !.used = @ + s]
      BY <1>8, <2>2, <2>4, SyncFacts DEF Skipped, k
    <3>2. Sound(q) /\ q.mo = p.mo /\ q.left = HeaderSize /\ q.stat = HEAD
      BY BegunSound DEF Begun
    <3>3. s \in Nat /\ e \in Nat /\ s <= e /\ e <= k /\ s \in 0 .. k
      <4> HIDE DEF e
      <4> QED BY <1>1, <3>1
    <3> HIDE DEF e, q
    <3>4. w \in Seq(Byte) /\ Len(w) = e - s
      BY <3>3, Window DEF k
    <3> HIDE DEF w, h
    <3>5. CASE s = e
      <4>1. r.pak = q /\ r.used = e /\ r.ret = MOREDATA
        BY <3>1, <3>5 DEF Received
      <4>2. SubSeq(d, s + 1, e) = << >>
        <5>1. w \in Seq(Byte) /\ Len(w) = 0
          BY <3>3, <3>4, <3>5
        <5> QED BY <5>1, EmptySeq DEF w
      <4>3. c = c \o SubSeq(d, s + 1, e) /\ n = n + (e - s) /\ e \in s .. e
        BY <2>1, <3>3, <3>5, <4>2
      <4>4. MOREDATA # READY
        BY DEF MOREDATA, READY
      <4>5. Part(HEAD, HeaderSize, n, HeadLen(c), "chunk")
        BY <1>1, <2>1, StatsDiffer DEF Part
      <4>6. Taken(r, p.mo, d, s, e)
        BY <3>2, <4>1, <4>3, <4>4, <4>5 DEF Taken, n, c
      <4> QED BY <3>1, <3>3, <4>6 DEF k
    <3>6. CASE s # e
      <4>1. HeaderSize <= Len(w) => FrameSize(HeadLen(c \o w)) <= Size
        <5>1. Fits(p.mo, d, s, e)
          BY <3>1 DEF k
        <5>2. n + (e - s) = Len(w)
          BY <2>1, <3>3, <3>4
        <5> QED BY <5>1, <5>2 DEF Fits, n, c, w
      <4>2. Stored(h, p.mo, w, HeadLen(c \o w))
        <5>1. n + q.left = HeaderSize
          BY <1>1, <2>1, <3>2
        <5> QED BY <3>2, <3>4, <4>1, <5>1, HeadStored DEF n, c, h
      <4>3. Typed(h, w)
        BY <3>2, <3>4, HeadSound DEF h
      <4>4. r.pak = h.pak /\ r.ret = h.ret /\ r.used = h.used + s
        <5>1. r = [h EXCEPT !.used = @ + s]
          BY <3>1, <3>6
        <5>2. h = [pak |-> h.pak, used |-> h.used, ret |-> h.ret]
          BY <4>3 DEF Typed, Received
        <5> QED BY <5>1, <5>2
      <4>5. Taken(r, p.mo, d, s, e)
        BY <1>1, <3>3, <4>2, <4>4, StoredIsTaken DEF c, k, w
      <4> QED BY <3>1, <3>3, <4>5 DEF k
    <3> QED BY <3>5, <3>6
  <2> QED BY <2>3, <2>4
<1>9. p.stat \in {SYNC, HEAD, DATA, CRC}
  BY DEF Part
<1> QED BY <1>5, <1>6, <1>7, <1>8, <1>9

-----------------------------------------------------------------------------
(* bscl_packet_receive_byte, when the buffer has room for the packet: the  *)
(* byte is stored unless it is skipped before a packet, and the packet is  *)
(* complete with its last byte, unless its length needs two bytes.         *)
ByteTaken(r, p, x) ==
  LET c    == Contents(p.mo) \o << x >>
      n    == Count(p.mo) + 1
      len  == HeadLen(c)
      long == FrameSize(len) >= Top \/ len >= Base
  IN  /\ r.ret \in {0, 1}
      /\ \/ /\ p.stat = SYNC /\ x # Magic /\ r.ret = 0
            /\ Contents(r.pak.mo) = << >> /\ Count(r.pak.mo) = 0 /\ r.pak.stat = SYNC
         \/ /\ Contents(r.pak.mo) = c /\ Count(r.pak.mo) = n
            /\ p.stat = SYNC => x = Magic /\ r.ret = 0
            /\ r.ret = 0 => Part(r.pak.stat, r.pak.left, n, len, "byte")
            /\ r.ret = 1 => /\ HeaderSize <= n /\ n <= FrameSize(len)
                            /\ ~long => n = FrameSize(len)

LEMMA ByteStep ==
  ASSUME NEW p, Sound(p), NEW x \in Byte, FrameSize(0) <= Size,
         Part(p.stat, p.left, Count(p.mo), HeadLen(Contents(p.mo)), "byte"),
         HeaderSize <= Count(p.mo) + 1 =>
           FrameSize(HeadLen(Contents(p.mo) \o << x >>)) <= Size,
         NEW r, r = ReceiveByte(p, x)
  PROVE  ByteTaken(r, p, x)
<1> DEFINE c == Contents(p.mo)
           n == Count(p.mo)
           e == c \o << x >>
           len == HeadLen(e)
           f == FrameSize(len)
           mo == Putc(p.mo, x)
           l == U16(p.left - 1)
           lo == CopyChar(mo, LenPos)
           long == f >= Top \/ len >= Base
           P(y, s) == Part(s, y, n + 1, len, "byte")
           Q == HeaderSize <= n + 1 /\ n + 1 <= f /\ (~long => n + 1 = f)
<1>1. /\ Valid(p.mo) /\ c \in Seq(Byte) /\ Len(c) = n /\ n \in Nat /\ << x >> \in Seq(Byte)
      /\ p.left \in 0 .. Top - 1 /\ p.left \in Nat
      /\ HeaderSize \in Nat /\ CrcSize \in Nat /\ Top \in Nat /\ Size \in Nat /\ 4 <= HeaderSize
      /\ HeaderSize + CrcSize <= Size /\ 1 <= CrcSize /\ Base \in Nat
  <2>1. FrameSize(0) = HeaderSize + 0 + CrcSize
    BY FrameFacts
  <2> QED BY <2>1, SoundFacts, PacketConstants
<1>2. ASSUME HeaderSize <= n + 1
      PROVE  len \in 0 .. Top - 1 /\ len \in Nat /\ f = HeaderSize + len + CrcSize /\ f <= Size
  <2>1. e \in Seq(Byte) /\ Len(e) = n + 1
    BY <1>1, ConcatProperties
  <2> HIDE DEF e
  <2>2. len \in 0 .. Top - 1
    BY <1>2, <2>1, HeadLenRange
  <2>3. len \in Nat
    BY <1>1, <2>2
  <2>4. f = HeaderSize + len + CrcSize
    BY <2>3, FrameFacts
  <2> QED BY <1>2, <2>2, <2>3, <2>4 DEF e
<1>3. ASSUME HeaderSize <= n
      PROVE  HeadLen(c) = len /\ HeaderSize <= n + 1
  <2> HIDE DEF c, n
  <2>1. HeadLen(c \o << x >>) = HeadLen(c)
    BY <1>1, <1>3, HeadLenPrefix
  <2> QED BY <1>1, <1>3, <2>1
<1>4. /\ p.stat \in {SYNC, HEAD, DATA, CRC}
      /\ p.stat = SYNC => n = 0
      /\ p.stat # SYNC => 1 <= p.left
      /\ p.stat = HEAD => n + p.left = HeaderSize
      /\ p.stat \in {DATA, CRC} => HeaderSize <= n
      /\ p.stat = DATA => n + p.left <= HeaderSize + len /\ (~long => n + p.left = HeaderSize + len)
      /\ p.stat = CRC => /\ n + p.left <= f
                         /\ ~long => n + p.left = f /\ HeaderSize + len <= n
  <2> HIDE DEF e
  <2>1. p.stat \in {DATA, CRC} => HeaderSize <= n
    BY DEF Part
  <2>2. p.stat \in {DATA, CRC} => HeadLen(c) = len
    BY <1>3, <2>1
  <2> QED BY <2>1, <2>2 DEF Part
<1>5. n + 1 <= Size /\ (p.stat \in {SYNC, HEAD, DATA} => n + 1 < Size)
      /\ (n + 1 = Size => p.stat = CRC /\ n + 1 = f)
  <2> DEFINE y == p.left
  <2> HIDE DEF c, n, e, f, mo, l, lo, len
  <2>1. CASE p.stat \in {SYNC, HEAD}
    <3>1. n = 0 \/ (n + y = HeaderSize /\ 1 <= y)
      BY <1>4, <2>1, StatsDiffer
    <3>2. n + 1 < Size
      <4> HIDE DEF y
      <4>1. y \in Nat
        BY <1>1 DEF y
      <4> QED BY <1>1, <3>1, <4>1
    <3> QED BY <1>1, <3>2
  <2>2. CASE p.stat = DATA
    <3>1. n + y <= HeaderSize + len /\ 1 <= y /\ f = HeaderSize + len + CrcSize /\ f <= Size /\ len \in Nat
      BY <1>2, <1>3, <1>4, <2>2, StatsDiffer
    <3>2. n + 1 < Size
      <4> HIDE DEF y
      <4>1. y \in Nat
        BY <1>1 DEF y
      <4> QED BY <1>1, <3>1, <4>1
    <3> QED BY <1>1, <3>2
  <2>3. CASE p.stat = CRC
    <3>1. n + y <= f /\ 1 <= y /\ f <= Size /\ f = HeaderSize + len + CrcSize /\ len \in Nat
      BY <1>2, <1>3, <1>4, <2>3, StatsDiffer
    <3>2. n + 1 <= Size /\ (n + 1 = Size => n + 1 = f)
      <4> HIDE DEF y
      <4>1. y \in Nat
        BY <1>1 DEF y
      <4> QED BY <1>1, <3>1, <4>1
    <3> QED BY <2>3, <3>2, StatsDiffer
  <2> QED BY <1>4, <2>1, <2>2, <2>3
<1>6. /\ Valid(mo) /\ Contents(mo) = e /\ Count(mo) = n + 1 /\ Space(mo) = Size - (n + 1)
  <2>1. Valid(mo) /\ Contents(mo) = e /\ Count(mo) = n + 1
    BY <1>1, <1>5, PutFacts
  <2> HIDE DEF mo
  <2> QED BY <2>1, ValidFacts
<1>7. p.stat # SYNC => l = p.left - 1 /\ l \in Nat
  <2>1. ASSUME p.stat # SYNC PROVE p.left - 1 \in Int /\ p.left - 1 \in 0 .. Top - 1
    BY <1>1, <1>4, <2>1
  <2> DEFINE y == p.left - 1
  <2> HIDE DEF y
  <2>2. y \in Int /\ y \in 0 .. Top - 1 => U16(y) = y
    BY U16Facts
  <2> QED BY <1>1, <2>1, <2>2 DEF y
<1>8. ASSUME HeaderSize <= n + 1
      PROVE  lo \in Nat /\ lo <= len /\ (len < Base => len = lo) /\ ~(lo < 0)
  <2>1. LenPos \in Nat /\ LenPos < n + 1 /\ LenPos + 1 < n + 1 /\ ~(n + 1 < LenPos)
        /\ LenPos + 1 \in Nat
    BY <1>1, <1>8, PacketConstants
  <2> HIDE DEF e, mo
  <2>2. CopyWord(mo, LenPos) = e[LenPos + 1] /\ e[LenPos + 1] \in Byte
    BY <1>6, <2>1, WordAt
  <2>3. lo = e[LenPos + 1]
    BY <1>6, <2>1, <2>2 DEF CopyChar, CopyWord
  <2>4. e[LenPos + 2] \in Byte
    <3>1. e[LenPos + 1 + 1] \in Byte
      BY <1>6, <2>1, WordAt
    <3>2. LenPos + 1 + 1 = LenPos + 2
      BY <2>1
    <3> QED BY <3>1, <3>2
  <2>5. lo <= len /\ (len < Base => len = lo)
    BY <2>2, <2>3, <2>4, LenRange DEF HeadLen
  <2>6. lo \in Nat
    BY <2>2, <2>3, PacketConstants
  <2> QED BY <2>5, <2>6
<1>9. /\ Space(mo) = 0 \/ p.stat = PARSE =>
           r = Returned(Pak(mo, p.left, PARSE), IF p.stat # PARSE THEN 1 ELSE 0)
      /\ Space(mo) # 0 /\ p.stat = SYNC =>
           r = Returned(IF x = Magic THEN Pak(mo, HeaderSize - 1, HEAD)
                        ELSE Pak(DropChar(mo), p.left, SYNC), 0)
      /\ Space(mo) # 0 /\ p.stat = HEAD =>
           r = IF l # 0 THEN Returned(Pak(mo, l, HEAD), 0)
               ELSE IF lo < 0 THEN Returned(Pak(mo, l, PARSE), 1)
               ELSE IF lo = 0 THEN Returned(Pak(mo, CrcSize, CRC), 0)
               ELSE Returned(Pak(mo, lo, DATA), 0)
      /\ Space(mo) # 0 /\ p.stat = DATA =>
           r = Returned(IF l = 0 THEN Pak(mo, CrcSize, CRC) ELSE Pak(mo, l, DATA), 0)
      /\ Space(mo) # 0 /\ p.stat = CRC =>
           r = IF l = 0 THEN Returned(Pak(mo, l, PARSE), 1) ELSE Returned(Pak(mo, l, CRC), 0)
  BY ByteFacts
<1> HIDE DEF c, n, e, len, f, mo, l, lo, long, P, Q
(* The byte is stored. *)
<1>10. ASSUME NEW y, NEW s, NEW z, r = Returned(Pak(mo, y, s), z),
              \/ z = 0 /\ P(y, s)
              \/ z = 1 /\ Q,
              p.stat = SYNC => x = Magic /\ z = 0
       PROVE  ByteTaken(r, p, x)
  <2>1. r.pak = Pak(mo, y, s) /\ r.ret = z
    BY <1>10, ReturnedFacts
  <2>2. r.pak.mo = mo /\ r.pak.left = y /\ r.pak.stat = s
    BY <2>1, PakFacts
  <2>3. Contents(r.pak.mo) = e /\ Count(r.pak.mo) = n + 1
    BY <1>6, <2>2
  <2>4. r.ret = 0 => Part(r.pak.stat, r.pak.left, n + 1, len, "byte")
    BY <1>10, <2>1, <2>2 DEF P
  <2>5. r.ret = 1 => HeaderSize <= n + 1 /\ n + 1 <= f /\ (~long => n + 1 = f)
    BY <1>10, <2>1 DEF Q
  <2> QED BY <1>10, <2>1, <2>3, <2>4, <2>5 DEF ByteTaken, c, n, e, len, f, long
<1>11. CASE p.stat = SYNC
  <2>1. Space(mo) # 0 /\ n = 0
    BY <1>1, <1>4, <1>5, <1>6, <1>11
  <2>2. CASE x = Magic
    <3>1. r = Returned(Pak(mo, HeaderSize - 1, HEAD), 0)
      BY <1>9, <1>11, <2>1, <2>2
    <3>2. P(HeaderSize - 1, HEAD)
      <4>1. 1 <= HeaderSize - 1 /\ n + 1 + (HeaderSize - 1) = HeaderSize
        BY <1>1, <2>1
      <4> QED BY <4>1, StatsDiffer DEF P, Part
    <3> QED BY <1>10, <2>2, <3>1, <3>2
  <2>3. CASE x # Magic
    <3>1. r = Returned(Pak(DropChar(mo), p.left, SYNC), 0)
      BY <1>9, <1>11, <2>1, <2>3
    <3>2. r.ret = 0 /\ r.pak.mo = DropChar(mo) /\ r.pak.stat = SYNC
      BY <3>1, ReturnedFacts, PakFacts
    <3>3. Count(DropChar(mo)) = 0 /\ Contents(DropChar(mo)) = << >>
      <4>1. 1 \in 0 .. Count(mo) /\ Count(mo) = 1
        BY <1>6, <2>1
      <4> DEFINE z == Drop(mo, 1)
      <4>2. Valid(z) /\ Count(z) = Count(mo) - 1
        BY <1>6, <4>1, DropLeaves
      <4> HIDE DEF z
      <4>3. Count(z) = 0
        BY <4>1, <4>2
      <4>4. Contents(z) \in Seq(Byte) /\ Len(Contents(z)) = 0
        BY <4>2, <4>3, CountIsLen
      <4>5. Contents(z) = << >>
        BY <4>4, EmptySeq
      <4> QED BY <4>3, <4>5 DEF DropChar, z
    <3> QED BY <1>11, <2>3, <3>2, <3>3 DEF ByteTaken
  <2> QED BY <2>2, <2>3
<1>12. CASE p.stat = HEAD
  <2>1. Space(mo) # 0
    BY <1>1, <1>5, <1>6, <1>12
  <2>2. CASE l # 0
    <3>1. r = Returned(Pak(mo, l, HEAD), 0)
      BY <1>9, <1>12, <2>1, <2>2
    <3>2. P(l, HEAD)
      <4>1. 1 <= l /\ n + 1 + l = HeaderSize
        BY <1>1, <1>4, <1>7, <1>12, <2>2, StatsDiffer
      <4> QED BY <4>1, StatsDiffer DEF P, Part
    <3> QED BY <1>10, <1>12, <3>1, <3>2, StatsDiffer
  <2>3. CASE l = 0
    <3>1. n + 1 = HeaderSize /\ HeaderSize <= n + 1
      BY <1>1, <1>4, <1>7, <1>12, <2>3, StatsDiffer
    <3>2. /\ lo \in Nat /\ lo <= len /\ (len < Base => len = lo) /\ ~(lo < 0)
          /\ len \in Nat /\ f = HeaderSize + len + CrcSize /\ f <= Size
      BY <1>2, <1>8, <3>1
    <3>3. ~long => len = lo
      BY <1>1, <3>2 DEF long
    <3>4. CASE lo = 0
      <4>1. r = Returned(Pak(mo, CrcSize, CRC), 0)
        BY <1>9, <1>12, <2>1, <2>3, <3>2, <3>4
      <4>2. P(CrcSize, CRC)
        <5>1. /\ n + 1 + CrcSize <= f /\ 1 <= CrcSize
              /\ ~long => n + 1 + CrcSize = f /\ HeaderSize + len <= n + 1
          BY <1>1, <3>1, <3>2, <3>3, <3>4
        <5> QED BY <3>1, <3>2, <5>1, StatsDiffer DEF P, Part, f, long
      <4> QED BY <1>10, <1>12, <4>1, <4>2, StatsDiffer
    <3>5. CASE lo # 0
      <4>1. r = Returned(Pak(mo, lo, DATA), 0)
        BY <1>9, <1>12, <2>1, <2>3, <3>2, <3>5
      <4>2. P(lo, DATA)
        <5>1. /\ n + 1 + lo <= HeaderSize + len /\ 1 <= lo
              /\ ~long => n + 1 + lo = HeaderSize + len
          BY <1>1, <3>1, <3>2, <3>3, <3>5
        <5> QED BY <3>1, <3>2, <5>1, StatsDiffer DEF P, Part, f, long
      <4> QED BY <1>10, <1>12, <4>1, <4>2, StatsDiffer
    <3> QED BY <3>4, <3>5
  <2> QED BY <2>2, <2>3
<1>13. CASE p.stat = DATA
  <2>1. Space(mo) # 0
    BY <1>1, <1>5, <1>6, <1>13
  <2>2. /\ HeaderSize <= n /\ HeaderSize <= n + 1
        /\ len \in Nat /\ f = HeaderSize + len + CrcSize /\ f <= Size
        /\ l + 1 = p.left /\ l \in Nat
        /\ n + p.left <= HeaderSize + len /\ (~long => n + p.left = HeaderSize + len)
    BY <1>1, <1>2, <1>3, <1>4, <1>7, <1>13, StatsDiffer
  <2>3. n + (l + 1) <= HeaderSize + len /\ (~long => n + (l + 1) = HeaderSize + len)
    BY <2>2
  <2>4. CASE l = 0
    <3>1. r = Returned(Pak(mo, CrcSize, CRC), 0)
      BY <1>9, <1>13, <2>1, <2>4
    <3>2. P(CrcSize, CRC)
      <4>1. /\ n + 1 + CrcSize <= f /\ 1 <= CrcSize
            /\ ~long => n + 1 + CrcSize = f /\ HeaderSize + len <= n + 1
        BY <1>1, <2>2, <2>3, <2>4
      <4> QED BY <2>2, <4>1, StatsDiffer DEF P, Part, f, long
    <3> QED BY <1>10, <1>13, <3>1, <3>2, StatsDiffer
  <2>5. CASE l # 0
    <3>1. r = Returned(Pak(mo, l, DATA), 0)
      BY <1>9, <1>13, <2>1, <2>5
    <3>2. P(l, DATA)
      <4>1. /\ n + 1 + l <= HeaderSize + len /\ 1 <= l
            /\ ~long => n + 1 + l = HeaderSize + len
        BY <1>1, <2>2, <2>3, <2>5
      <4> QED BY <2>2, <4>1, StatsDiffer DEF P, Part, f, long
    <3> QED BY <1>10, <1>13, <3>1, <3>2, StatsDiffer
  <2> QED BY <2>4, <2>5
<1>14. CASE p.stat = CRC
  <2>2. /\ HeaderSize <= n /\ HeaderSize <= n + 1
        /\ len \in Nat /\ f = HeaderSize + len + CrcSize /\ f <= Size
        /\ l + 1 = p.left /\ l \in Nat
        /\ n + p.left <= f /\ (~long => n + p.left = f /\ HeaderSize + len <= n)
    BY <1>1, <1>2, <1>3, <1>4, <1>7, <1>14, StatsDiffer, SMTT(30)
  <2>3. n + (l + 1) <= f /\ (~long => n + (l + 1) = f)
    BY <2>2
  <2>4. CASE Space(mo) = 0
    <3>1. r = Returned(Pak(mo, p.left, PARSE), 1)
      BY <1>9, <1>14, <2>4, StatsDiffer
    <3>2. n + 1 = f
      BY <1>1, <1>5, <1>6, <2>4
    <3>3. Q
      BY <1>1, <2>2, <3>2 DEF Q
    <3> QED BY <1>10, <1>14, <3>1, <3>3, StatsDiffer
  <2>5. CASE Space(mo) # 0 /\ l = 0
    <3>1. r = Returned(Pak(mo, l, PARSE), 1)
      BY <1>9, <1>14, <2>5
    <3>2. Q
      BY <1>1, <2>2, <2>3, <2>5 DEF Q
    <3> QED BY <1>10, <1>14, <3>1, <3>2, StatsDiffer
  <2>6. CASE Space(mo) # 0 /\ l # 0
    <3>1. r = Returned(Pak(mo, l, CRC), 0)
      BY <1>9, <1>14, <2>6
    <3>2. P(l, CRC)
      <4>1. /\ n + 1 + l <= f /\ 1 <= l
            /\ ~long => n + 1 + l = f /\ HeaderSize + len <= n + 1
        BY <1>1, <2>2, <2>3, <2>6
      <4> QED BY <2>2, <4>1, StatsDiffer DEF P, Part, f, long
    <3> QED BY <1>10, <1>14, <3>1, <3>2, StatsDiffer
  <2> QED BY <2>4, <2>5, <2>6
<1> QED BY <1>4, <1>11, <1>12, <1>13, <1>14

-----------------------------------------------------------------------------
(* What is stored are the n bytes of the stream before the q-th; so it is  *)
(* when some of the next k bytes follow it, s of them skipped before a     *)
(* packet, and when k bytes are dropped.                                   *)
LEMMA Followed ==
  ASSUME NEW b \in Seq(Byte), NEW q \in Nat, NEW k \in Nat, q + k <= Len(b),
         NEW n \in 0 .. q, NEW s \in 0 .. k, s = 0 \/ n = 0, NEW u \in s .. k
  PROVE  SubSeq(b, (q - n) + 1, q) \o SubSeq(SubSeq(b, q + 1, q + k), s + 1, u)
           = SubSeq(b, ((q + u) - (n + (u - s))) + 1, q + u)
<1> DEFINE e == q + k
           d == SubSeq(b, q + 1, e)
           x == q + s
           y == q + u
           c == SubSeq(b, (q - n) + 1, q)
<1>1. /\ e \in Nat /\ q <= e /\ e <= Len(b) /\ s \in Nat /\ u \in Nat /\ s <= u /\ u <= e - q
      /\ x \in Nat /\ y \in Nat /\ x <= y /\ y <= Len(b) /\ q <= y /\ n \in Nat /\ n <= q /\ q <= Len(b)
  OBVIOUS
<1> HIDE DEF e
<1>2. SubSeq(d, s + 1, u) = SubSeq(b, x + 1, y)
  BY <1>1, WindowOfWindow
<1>3. CASE n = 0
  <2>1. c = << >>
    <3>1. q - n = q
      BY <1>3
    <3>2. c \in Seq(Byte) /\ Len(c) = q - q
      BY <1>1, <3>1, Window
    <3> HIDE DEF c
    <3>3. Len(c) = 0
      BY <3>2
    <3> QED BY <3>2, <3>3, EmptySeq
  <2>2. (q + u) - (n + (u - s)) = x
    BY <1>1, <1>3
  <2> DEFINE w == SubSeq(b, x + 1, y)
  <2>3. w \in Seq(Byte)
    <3> HIDE DEF x, y
    <3> QED BY <1>1, Window
  <2> HIDE DEF w, c, d
  <2>4. << >> \o w = w
    BY <2>3
  <2> QED BY <1>2, <2>1, <2>2, <2>4 DEF w, c, d, e
<1>4. CASE s = 0
  <2> DEFINE a == q - n
  <2>1. a \in Nat /\ a <= q /\ x = q /\ (q + u) - (n + (u - s)) = a
    BY <1>1, <1>4
  <2> HIDE DEF a, y
  <2>2. SubSeq(b, a + 1, q) \o SubSeq(b, q + 1, y) = SubSeq(b, a + 1, y)
    BY <1>1, <2>1, WindowJoin
  <2> QED BY <1>2, <2>1, <2>2 DEF a, y, e
<1> QED BY <1>3, <1>4

LEMMA FollowedByOne ==
  ASSUME NEW b \in Seq(Byte), NEW q \in Nat, q < Len(b), NEW n \in 0 .. q
  PROVE  SubSeq(b, (q - n) + 1, q) \o << b[q + 1] >> = SubSeq(b, ((q + 1) - (n + 1)) + 1, q + 1)
<1> DEFINE z == q + 1
           d == SubSeq(b, q + 1, z)
<1>1. z \in Nat /\ q <= z /\ z <= Len(b) /\ z - q = 1 /\ 1 \in 1 .. z - q /\ b[q + 1] \in Byte
  <2>1. q + 1 \in 1 .. Len(b)
    OBVIOUS
  <2> QED BY <2>1, ElementOfSeq
<1>2. /\ 1 \in Nat /\ q + 1 <= Len(b) /\ 0 \in 0 .. 1 /\ 1 \in 0 .. 1 /\ n + (1 - 0) = n + 1
  OBVIOUS
<1>3. SubSeq(b, (q - n) + 1, q) \o SubSeq(SubSeq(b, q + 1, q + 1), 0 + 1, 1)
        = SubSeq(b, ((q + 1) - (n + (1 - 0))) + 1, q + 1)
  BY <1>2, Followed
<1> HIDE DEF z
<1>4. d \in Seq(Byte) /\ Len(d) = 1 /\ d[1] = b[q + 1]
  <2>1. d \in Seq(Byte) /\ Len(d) = z - q /\ \A i \in 1 .. z - q : d[i] = b[q + i]
    BY <1>1, Window
  <2> HIDE DEF d
  <2>2. d[1] = b[q + 1]
    BY <1>1, <2>1
  <2> QED BY <1>1, <2>1, <2>2
<1> HIDE DEF d
<1>5. d = << b[q + 1] >>
  BY <1>4
<1>6. SubSeq(d, 0 + 1, 1) = d
  <2>1. SubSeq(d, 1, Len(d)) = d /\ 0 + 1 = 1
    BY <1>4, SubSeqFull
  <2> QED BY <1>4, <2>1
<1> QED BY <1>2, <1>3, <1>5, <1>6 DEF d, z

LEMMA Shortened ==
  ASSUME NEW b \in Seq(Byte), NEW q \in Nat, q <= Len(b), NEW n \in 0 .. q, NEW k \in 0 .. n
  PROVE  SubSeq(SubSeq(b, (q - n) + 1, q), k + 1, n) = SubSeq(b, (q - (n - k)) + 1, q)
<1> DEFINE a == q - n
<1>1. a \in Nat /\ a <= q /\ n \in Nat /\ k \in Nat /\ k <= n /\ n <= q - a
      /\ a + k = q - (n - k) /\ a + n = q
  OBVIOUS
<1> HIDE DEF a
<1>2. SubSeq(SubSeq(b, a + 1, q), k + 1, n) = SubSeq(b, a + k + 1, a + n)
  BY <1>1, WindowOfWindow
<1> QED BY <1>1, <1>2 DEF a

(* The bytes in the buffer and what stat and left say of them.             *)
BaseInv ==
  LET n == Count(pak.mo) IN
  /\ n <= pos
  /\ Contents(pak.mo) = SubSeq(session.bytes, (pos - n) + 1, pos)
  /\ phase = "receive" => Part(pak.stat, pak.left, n, HeadLen(Contents(pak.mo)), mode)

(* No packet that the next call completes the header of is too large.      *)
ChunkFits ==
  phase = "receive" => \A n \in Nat : pos + n <= Len(session.bytes) =>
    LET d == SubSeq(session.bytes, pos + 1, pos + n)
        s == Skipped(pak, d)
    IN  \A e \in s .. n : Fits(pak.mo, d, s, e)

ByteFits ==
  phase = "receive" /\ pos < Len(session.bytes) /\ HeaderSize <= Count(pak.mo) + 1 =>
    FrameSize(HeadLen(Contents(pak.mo) \o << session.bytes[pos + 1] >>)) <= Size

LEMMA BaseInit == Init => BaseInv
<1> SUFFICES ASSUME Init PROVE BaseInv
  OBVIOUS
<1>1. PICK mem \in Memories : pak = NewPacket(mem)
  BY DEF Init, Start
<1>2. pak.stat = SYNC /\ Count(pak.mo) = 0 /\ Contents(pak.mo) = << >>
  BY <1>1, NewSound, ReceiverAssumption
<1>3. session.bytes \in Seq(Byte)
  BY ReceiverAssumption DEF Init
<1> DEFINE w == SubSeq(session.bytes, 0 + 1, 0)
<1>4. w = << >>
  <2>1. 0 \in Nat /\ 0 <= 0 /\ 0 <= Len(session.bytes)
    BY <1>3
  <2>2. w \in Seq(Byte) /\ Len(w) = 0 - 0
    BY <1>3, <2>1, Window
  <2> HIDE DEF w
  <2>3. Len(w) = 0
    BY <2>2
  <2> QED BY <2>2, <2>3, EmptySeq
<1>5. pos = 0 /\ pos - 0 = 0
  BY DEF Init, Start
<1>6. \A l, m : Part(SYNC, pak.left, 0, l, m)
  BY StatsDiffer DEF Part
<1> QED BY <1>2, <1>4, <1>5, <1>6 DEF BaseInv

LEMMA CallTakes ==
  ASSUME StateOK, BaseInv, FrameSize(0) <= Size, ChunkFits, NEW m \in Chunks, CallReceive(m)
  PROVE  LET d == SubSeq(session.bytes, pos + 1, pos + m)
             s == Skipped(pak, d)
         IN  s \in 0 .. m /\ \E e \in s .. m : Taken(Receive(pak, d), pak.mo, d, s, e)
<1> DEFINE d == SubSeq(session.bytes, pos + 1, pos + m)
           r == Receive(pak, d)
           s == Skipped(pak, d)
           n == Count(pak.mo)
           c == Contents(pak.mo)
<1>1. m \in Nat /\ pos + m <= Len(session.bytes) /\ phase = "receive" /\ mode = "chunk"
  BY ReceiverAssumption DEF CallReceive
<1>2. /\ d \in Seq(Byte) /\ Len(d) = m /\ session.bytes \in Seq(Byte) /\ pos \in Nat
  BY <1>1, NextBytes
<1>4. /\ n <= pos /\ c = SubSeq(session.bytes, (pos - n) + 1, pos)
      /\ Part(pak.stat, pak.left, n, HeadLen(c), "chunk")
      /\ Sound(pak) /\ n \in Nat /\ HeaderSize <= Size
  <2>1. FrameSize(0) = HeaderSize + 0 + CrcSize /\ HeaderSize \in Nat /\ CrcSize \in Nat /\ Size \in Nat
    BY FrameFacts, PacketConstants
  <2> QED BY <1>1, <2>1, SoundFacts DEF BaseInv, StateOK
<1>5. \A e \in s .. m : Fits(pak.mo, d, s, e)
  BY <1>1 DEF ChunkFits
<1> HIDE DEF d, r, s, n, c
<1>6. s \in 0 .. m /\ \E e \in s .. m : Taken(r, pak.mo, d, s, e)
  BY <1>2, <1>4, <1>5, ReceiveStep DEF r, s, n, c
<1> QED BY <1>6 DEF d, r, s

LEMMA BaseReceive ==
  ASSUME StateOK, BaseInv, FrameSize(0) <= Size, ChunkFits, NEW m \in Chunks, CallReceive(m)
  PROVE  BaseInv'
<1> DEFINE d == SubSeq(session.bytes, pos + 1, pos + m)
           r == Receive(pak, d)
           s == Skipped(pak, d)
           n == Count(pak.mo)
           c == Contents(pak.mo)
<1>1. m \in Nat /\ pos + m <= Len(session.bytes) /\ phase = "receive" /\ mode = "chunk"
  BY ReceiverAssumption DEF CallReceive
<1>2. /\ d \in Seq(Byte) /\ Len(d) = m /\ session.bytes \in Seq(Byte) /\ pos \in Nat
  BY <1>1, NextBytes
<1>3. /\ pak' = r.pak /\ ret' = r.ret /\ pos' = pos + r.used
      /\ phase' = IF r.ret = READY THEN "parse" ELSE "receive"
      /\ session' = session /\ mode' = mode
  BY DEF CallReceive
<1>4. /\ n <= pos /\ c = SubSeq(session.bytes, (pos - n) + 1, pos)
      /\ Part(pak.stat, pak.left, n, HeadLen(c), "chunk")
      /\ Sound(pak) /\ n \in Nat /\ HeaderSize <= Size
  <2>1. FrameSize(0) = HeaderSize + 0 + CrcSize /\ HeaderSize \in Nat /\ CrcSize \in Nat /\ Size \in Nat
    BY FrameFacts, PacketConstants
  <2> QED BY <1>1, <2>1, SoundFacts DEF BaseInv, StateOK
<1> HIDE DEF d, r, s, n, c
<1>6. s \in 0 .. m /\ \E e \in s .. m : Taken(r, pak.mo, d, s, e)
  BY CallTakes DEF d, r, s
<1>7. PICK e \in s .. m : Taken(r, pak.mo, d, s, e)
  BY <1>6
<1>8. /\ r.used \in s .. e /\ r.ret \in {MOREDATA, READY}
      /\ Contents(r.pak.mo) = c \o SubSeq(d, s + 1, r.used)
      /\ Count(r.pak.mo) = n + (r.used - s)
      /\ r.ret = MOREDATA =>
           Part(r.pak.stat, r.pak.left, Count(r.pak.mo), HeadLen(Contents(r.pak.mo)), "chunk")
  BY <1>7 DEF Taken, n, c
<1>9. s = 0 \/ n = 0
  BY <1>4 DEF s, Skipped, Part
<1> DEFINE u == r.used
<1>10. u \in s .. m /\ n \in 0 .. pos
  BY <1>2, <1>4, <1>6, <1>7, <1>8
<1> HIDE DEF u
<1>11. c \o SubSeq(d, s + 1, u)
         = SubSeq(session.bytes, ((pos + u) - (n + (u - s))) + 1, pos + u)
  BY <1>1, <1>2, <1>4, <1>6, <1>9, <1>10, Followed DEF d
<1>12. n + (u - s) <= pos + u
  BY <1>2, <1>4, <1>6, <1>10
<1>13. phase' = "receive" => r.ret = MOREDATA
  BY <1>3, <1>8
<1> QED BY <1>1, <1>3, <1>8, <1>11, <1>12, <1>13 DEF BaseInv, u

LEMMA CallTakesByte ==
  ASSUME StateOK, BaseInv, FrameSize(0) <= Size, ByteFits, CallReceiveByte
  PROVE  ByteTaken(ReceiveByte(pak, session.bytes[pos + 1]), pak, session.bytes[pos + 1])
<1> DEFINE b == session.bytes
           x == b[pos + 1]
           r == ReceiveByte(pak, x)
           n == Count(pak.mo)
           c == Contents(pak.mo)
<1>1. phase = "receive" /\ mode = "byte" /\ pos < Len(b)
  BY DEF CallReceiveByte
<1>2. x \in Byte /\ b \in Seq(Byte) /\ Len(b) \in Nat /\ pos \in Nat
  <2>1. x \in Byte
    BY <1>1, NextByte
  <2>2. 0 \in Nat /\ pos + 0 <= Len(b)
    <3>1. b \in Seq(Byte) /\ pos \in 0 .. Len(b)
      BY ReceiverAssumption DEF StateOK
    <3> QED BY <3>1
  <2>3. b \in Seq(Byte) /\ Len(b) \in Nat /\ pos \in Nat
    BY <2>2, NextBytes
  <2> QED BY <2>1, <2>3
<1>4. /\ n <= pos /\ c = SubSeq(b, (pos - n) + 1, pos)
      /\ Part(pak.stat, pak.left, n, HeadLen(c), "byte")
      /\ Sound(pak) /\ n \in Nat
  BY <1>1, SoundFacts DEF BaseInv, StateOK
<1>5. HeaderSize <= n + 1 => FrameSize(HeadLen(c \o << x >>)) <= Size
  BY <1>1 DEF ByteFits
<1> HIDE DEF r, n, c, x
<1>6. ByteTaken(r, pak, x)
  BY <1>2, <1>4, <1>5, ByteStep DEF r, n, c
<1> QED BY <1>6 DEF r, x

LEMMA BaseByte ==
  ASSUME StateOK, BaseInv, FrameSize(0) <= Size, ByteFits, CallReceiveByte
  PROVE  BaseInv'
<1> DEFINE b == session.bytes
           x == b[pos + 1]
           r == ReceiveByte(pak, x)
           n == Count(pak.mo)
           c == Contents(pak.mo)
<1>1. phase = "receive" /\ mode = "byte" /\ pos < Len(b)
  BY DEF CallReceiveByte
<1>2. x \in Byte /\ b \in Seq(Byte) /\ Len(b) \in Nat /\ pos \in Nat
  <2>1. x \in Byte
    BY <1>1, NextByte
  <2>2. 0 \in Nat /\ pos + 0 <= Len(b)
    <3>1. b \in Seq(Byte) /\ pos \in 0 .. Len(b)
      BY ReceiverAssumption DEF StateOK
    <3> QED BY <3>1
  <2>3. b \in Seq(Byte) /\ Len(b) \in Nat /\ pos \in Nat
    BY <2>2, NextBytes
  <2> QED BY <2>1, <2>3
<1>3. /\ pak' = r.pak /\ pos' = pos + 1
      /\ phase' = IF r.ret > 0 THEN "parse" ELSE "receive"
      /\ session' = session /\ mode' = mode
  BY DEF CallReceiveByte
<1>4. /\ n <= pos /\ c = SubSeq(b, (pos - n) + 1, pos)
      /\ Part(pak.stat, pak.left, n, HeadLen(c), "byte")
      /\ Sound(pak) /\ n \in Nat
  BY <1>1, SoundFacts DEF BaseInv, StateOK
<1> HIDE DEF r, n, c, x
<1>6. ByteTaken(r, pak, x)
  BY CallTakesByte DEF r, x
<1>7. CASE /\ r.ret = 0 /\ Contents(r.pak.mo) = << >> /\ Count(r.pak.mo) = 0 /\ r.pak.stat = SYNC
  <2> DEFINE z == pos + 1
             w == SubSeq(b, z + 1, z)
  <2>1. w = << >>
    <3>0. z \in Nat /\ z <= Len(b) /\ z <= z
      BY <1>1, <1>2
    <3> HIDE DEF z
    <3>1. w \in Seq(Byte) /\ Len(w) = z - z
      BY <1>2, <3>0, Window
    <3> HIDE DEF w
    <3>2. Len(w) = 0
      BY <3>0, <3>1
    <3> QED BY <3>1, <3>2, EmptySeq
  <2>2. pos' - 0 = z /\ 0 <= pos' /\ pos' = z
    BY <1>2, <1>3
  <2>3. \A l, y : Part(SYNC, r.pak.left, 0, l, y)
    BY StatsDiffer DEF Part
  <2> HIDE DEF z
  <2> QED BY <1>3, <1>7, <2>1, <2>2, <2>3 DEF BaseInv
<1>8. CASE /\ Contents(r.pak.mo) = c \o << x >> /\ Count(r.pak.mo) = n + 1
           /\ r.ret \in {0, 1}
           /\ r.ret = 0 => Part(r.pak.stat, r.pak.left, n + 1, HeadLen(c \o << x >>), "byte")
  <2>1. c \o << x >> = SubSeq(b, ((pos + 1) - (n + 1)) + 1, pos + 1)
    <3>1. n \in 0 .. pos
      BY <1>2, <1>4
    <3> HIDE DEF b
    <3> QED BY <1>1, <1>2, <1>4, <3>1, FollowedByOne DEF b, x
  <2>2. n + 1 <= pos + 1
    BY <1>2, <1>4
  <2>3. phase' = "receive" => r.ret = 0
    BY <1>3, <1>8
  <2> HIDE DEF b
  <2> QED BY <1>1, <1>3, <1>8, <2>1, <2>2, <2>3 DEF BaseInv, b
<1> QED BY <1>6, <1>7, <1>8 DEF ByteTaken, n, c

LEMMA BaseParse ==
  ASSUME StateOK, BaseInv, CallParse
  PROVE  BaseInv'
<1> DEFINE b == session.bytes
           r == Parse(pak, Room)
           n == Count(pak.mo)
           c == Contents(pak.mo)
<1>1. /\ pak' = r.pak /\ pos' = pos /\ session' = session /\ mode' = mode
      /\ phase' = IF r.ret = MOREDATA THEN "receive" ELSE "resync"
  BY DEF CallParse
<1>2. n <= pos /\ c = SubSeq(b, (pos - n) + 1, pos) /\ n \in Nat /\ Sound(pak)
  BY SoundFacts DEF BaseInv, StateOK
<1>3. b \in Seq(Byte) /\ Len(b) \in Nat /\ pos \in Nat /\ pos <= Len(b)
  <2>1. b \in Seq(Byte) /\ pos \in 0 .. Len(b)
    BY ReceiverAssumption DEF StateOK
  <2> QED BY <2>1
<1>4. ParseEffect(pak, r)
  BY <1>2, ParseStep
<1> HIDE DEF b, r, n, c
<1>5. PICK k \in 0 .. n :
        /\ Contents(r.pak.mo) = SubSeq(c, k + 1, n) /\ Count(r.pak.mo) = n - k
        /\ r.ret = MOREDATA => k = n /\ r.pak.stat = SYNC
  BY <1>4 DEF ParseEffect, n, c
<1>6. n - k <= pos /\ n \in 0 .. pos /\ n - k \in Nat
  BY <1>2, <1>3
<1>7. Contents(r.pak.mo) = SubSeq(b, (pos - (n - k)) + 1, pos)
  BY <1>2, <1>3, <1>5, <1>6, Shortened
<1>8. r.ret = MOREDATA =>
        \A l, y : Part(r.pak.stat, r.pak.left, n - k, l, y)
  <2> SUFFICES ASSUME r.ret = MOREDATA, NEW l, NEW y PROVE Part(r.pak.stat, r.pak.left, n - k, l, y)
    OBVIOUS
  <2>1. n - k = 0 /\ r.pak.stat = SYNC
    BY <1>2, <1>5
  <2> QED BY <2>1, StatsDiffer DEF Part
<1>9. phase' = "receive" => r.ret = MOREDATA
  BY <1>1
<1> QED BY <1>1, <1>5, <1>6, <1>7, <1>8, <1>9 DEF BaseInv, b

LEMMA BaseResync ==
  ASSUME StateOK, BaseInv, CallResync
  PROVE  BaseInv'
<1> DEFINE b == session.bytes
           r == Resync(pak)
           n == Count(pak.mo)
           c == Contents(pak.mo)
<1>1. /\ pak' = r.pak /\ pos' = pos /\ session' = session /\ mode' = mode
      /\ phase' = CASE r.ret = READY -> "parse" [] r.ret = SPIN -> "spin" [] OTHER -> "receive"
  BY DEF CallResync
<1>2. n <= pos /\ c = SubSeq(b, (pos - n) + 1, pos) /\ n \in Nat /\ Sound(pak)
  BY SoundFacts DEF BaseInv, StateOK
<1>3. b \in Seq(Byte) /\ Len(b) \in Nat /\ pos \in Nat /\ pos <= Len(b)
  <2>1. b \in Seq(Byte) /\ pos \in 0 .. Len(b)
    BY ReceiverAssumption DEF StateOK
  <2> QED BY <2>1
<1>4. /\ Sound(r.pak) /\ r.ret \in {SPIN, MOREDATA, READY}
      /\ \E k \in 0 .. n :
           /\ Contents(r.pak.mo) = SubSeq(c, k + 1, n)
           /\ r.ret = MOREDATA =>
                \A m : Part(r.pak.stat, r.pak.left, n - k, HeadLen(Contents(r.pak.mo)), m)
  BY <1>2, ResyncFacts
<1> HIDE DEF b, r, n, c
<1>5. PICK k \in 0 .. n :
        /\ Contents(r.pak.mo) = SubSeq(c, k + 1, n)
        /\ r.ret = MOREDATA =>
             \A m : Part(r.pak.stat, r.pak.left, n - k, HeadLen(Contents(r.pak.mo)), m)
  BY <1>4
<1>6. n - k <= pos /\ n \in 0 .. pos /\ n - k \in Nat /\ k <= n
  BY <1>2, <1>3
<1>7. Contents(r.pak.mo) = SubSeq(b, (pos - (n - k)) + 1, pos)
  BY <1>2, <1>3, <1>5, <1>6, Shortened
<1>8. Count(r.pak.mo) = n - k
  <2>1. c \in Seq(Byte) /\ Len(c) = n
    BY <1>2, SoundFacts, CountIsLen DEF c, n
  <2>2. Len(Contents(r.pak.mo)) = n - k
    BY <1>2, <1>5, <1>6, <2>1, Window
  <2> QED BY <1>4, <2>2, SoundFacts, CountIsLen
<1>9. phase' = "receive" => r.ret = MOREDATA
  BY <1>1, <1>4
<1> QED BY <1>1, <1>5, <1>6, <1>7, <1>8, <1>9 DEF BaseInv, b

LEMMA BaseNext ==
  ASSUME StateOK, BaseInv, FrameSize(0) <= Size, ChunkFits, ByteFits, [Next]_vars
  PROVE  BaseInv'
<1>1. CASE UNCHANGED vars
  BY <1>1 DEF vars, BaseInv
<1>2. ASSUME NEW n \in Chunks, CallReceive(n) PROVE BaseInv'
  BY <1>2, BaseReceive
<1>3. CASE CallReceiveByte
  BY <1>3, BaseByte
<1>4. CASE CallParse
  BY <1>4, BaseParse
<1>5. CASE CallResync
  BY <1>5, BaseResync
<1>6. CASE Spinning
  BY <1>1, <1>6 DEF Spinning
<1> QED BY <1>1, <1>2, <1>3, <1>4, <1>5, <1>6 DEF Next

-----------------------------------------------------------------------------
(* What is stored and the bytes that come next are a piece of the stream,  *)
(* and its length field is the stream's.                                   *)
Announced(b, at) == LenOf(b[at + LenPos + 1], b[at + LenPos + 2])

LEMMA WindowHead ==
  ASSUME NEW b \in Seq(Byte), NEW a \in Nat, NEW e \in Nat, a + HeaderSize <= e, e <= Len(b)
  PROVE  HeadLen(SubSeq(b, a + 1, e)) = Announced(b, a)
<1> DEFINE w == SubSeq(b, a + 1, e)
<1>1. a <= e /\ LenPos + 1 \in 1 .. e - a /\ LenPos + 2 \in 1 .. e - a
  BY PacketConstants
<1>2. \A i \in 1 .. e - a : w[i] = b[a + i]
  BY <1>1, Window
<1> HIDE DEF w
<1>3. w[LenPos + 1] = b[a + LenPos + 1] /\ w[LenPos + 2] = b[a + LenPos + 2]
  <2>1. a + (LenPos + 1) = a + LenPos + 1 /\ a + (LenPos + 2) = a + LenPos + 2
    BY PacketConstants
  <2> QED BY <1>1, <1>2, <2>1
<1> QED BY <1>3 DEF w, HeadLen, Announced

PieceWith(d, s, e) ==
  LET k == Count(pak.mo) + (e - s) IN
  /\ k \in 0 .. pos + e
  /\ Contents(pak.mo) \o SubSeq(d, s + 1, e)
       = SubSeq(session.bytes, ((pos + e) - k) + 1, pos + e)

LEMMA Ahead ==
  ASSUME StateOK, BaseInv, phase = "receive", NEW m \in Nat, pos + m <= Len(session.bytes),
         NEW d, d = SubSeq(session.bytes, pos + 1, pos + m),
         NEW s, s = Skipped(pak, d), NEW e \in s .. m
  PROVE  s \in 0 .. m /\ PieceWith(d, s, e)
<1> DEFINE n == Count(pak.mo)
           c == Contents(pak.mo)
           b == session.bytes
<1>1. d \in Seq(Byte) /\ Len(d) = m /\ b \in Seq(Byte) /\ Len(b) \in Nat /\ pos \in Nat
  BY NextBytes
<1>2. /\ n <= pos /\ c = SubSeq(b, (pos - n) + 1, pos) /\ n \in Nat
      /\ pak.stat = SYNC => n = 0
  BY SoundFacts DEF BaseInv, StateOK, Part
<1>3. s \in 0 .. m
  <2>1. CASE pak.stat # SYNC
    BY <2>1 DEF Skipped
  <2>2. CASE pak.stat = SYNC /\ Magics(d) = {}
    BY <1>1, <2>2 DEF Skipped
  <2>3. CASE pak.stat = SYNC /\ Magics(d) # {}
    <3>1. Magics(d) \subseteq Nat /\ Magics(d) \subseteq 1 .. m
      BY <1>1 DEF Magics
    <3>2. Skip(d) + 1 \in Magics(d)
      <4> DEFINE x == CHOOSE i \in Magics(d) : \A j \in Magics(d) : i <= j
      <4>1. x \in Magics(d)
        BY <2>3, <3>1, ChosenMinimum
      <4>2. x \in Nat
        BY <3>1, <4>1
      <4> HIDE DEF x
      <4>3. (x - 1) + 1 = x
        BY <4>2
      <4> QED BY <4>1, <4>3 DEF Skip, x
    <3>3. Skip(d) \in Int
      <4> DEFINE x == CHOOSE i \in Magics(d) : \A j \in Magics(d) : i <= j
      <4>1. x \in Magics(d)
        BY <2>3, <3>1, ChosenMinimum
      <4> HIDE DEF x
      <4>2. x - 1 \in Int
        BY <3>1, <4>1
      <4> QED BY <4>2 DEF Skip, x
    <3>4. Skip(d) \in 0 .. m
      BY <3>1, <3>2, <3>3
    <3> QED BY <2>3, <3>4 DEF Skipped
  <2> QED BY <2>1, <2>2, <2>3
<1>4. s = 0 \/ n = 0
  BY <1>2 DEF Skipped
<1>5. e \in s .. m /\ n \in 0 .. pos
  BY <1>2
<1>6. c \o SubSeq(d, s + 1, e) = SubSeq(b, ((pos + e) - (n + (e - s))) + 1, pos + e)
  <2>1. d = SubSeq(b, pos + 1, pos + m) /\ pos + m <= Len(b)
    OBVIOUS
  <2>2. c = SubSeq(b, (pos - n) + 1, pos)
    BY <1>2
  <2> HIDE DEF n, c, b
  <2>3. SubSeq(b, (pos - n) + 1, pos) \o SubSeq(SubSeq(b, pos + 1, pos + m), s + 1, e)
          = SubSeq(b, ((pos + e) - (n + (e - s))) + 1, pos + e)
    <3>1. /\ b \in Seq(Byte) /\ pos \in Nat /\ m \in Nat /\ pos + m <= Len(b)
          /\ n \in 0 .. pos /\ s \in 0 .. m /\ (s = 0 \/ n = 0) /\ e \in s .. m
      BY <1>1, <1>3, <1>4, <1>5, <2>1
    <3> QED BY <3>1, Followed, ZenonT(40)
  <2> QED BY <2>1, <2>2, <2>3
<1> HIDE DEF n, c, b
<1>7. n + (e - s) \in 0 .. pos + e
  BY <1>1, <1>3, <1>5
<1> QED BY <1>3, <1>6, <1>7 DEF n, c, b, PieceWith

(* No two bytes of a stream, in the place of a length, say more than the   *)
(* buffer holds; so it is when the buffer holds the longest packet that a  *)
(* header can announce.                                                    *)
NoneTooLarge ==
  /\ FrameSize(0) <= Size
  /\ \A s \in Sessions : \A at \in Nat :
       at + HeaderSize <= Len(s.bytes) => FrameSize(Announced(s.bytes, at)) <= Size

RoomForAll == FrameSize(Top - 1) <= Size

LEMMA RoomSuffices == RoomForAll => NoneTooLarge
<1> SUFFICES ASSUME RoomForAll PROVE NoneTooLarge
  OBVIOUS
<1>1. ASSUME NEW len \in 0 .. Top - 1 PROVE FrameSize(len) <= Size
  <2>1. /\ HeaderSize \in Nat /\ CrcSize \in Nat /\ Top \in Nat /\ Size \in Nat
    BY PacketConstants
  <2>2. FrameSize(len) = HeaderSize + len + CrcSize /\ FrameSize(Top - 1) = HeaderSize + (Top - 1) + CrcSize
    BY <2>1, FrameFacts
  <2> QED BY <2>1, <2>2 DEF RoomForAll
<1>2. 0 \in 0 .. Top - 1
  BY PacketConstants
<1>3. ASSUME NEW s \in Sessions, NEW at \in Nat, at + HeaderSize <= Len(s.bytes)
      PROVE  Announced(s.bytes, at) \in 0 .. Top - 1
  <2>1. s.bytes \in Seq(Byte)
    BY ReceiverAssumption
  <2>2. at + LenPos + 1 \in 1 .. Len(s.bytes) /\ at + LenPos + 2 \in 1 .. Len(s.bytes)
    BY <1>3, <2>1, PacketConstants
  <2>3. s.bytes[at + LenPos + 1] \in Byte /\ s.bytes[at + LenPos + 2] \in Byte
    BY <2>1, <2>2, ElementOfSeq
  <2> QED BY <2>3, LenRange DEF Announced
<1> QED BY <1>1, <1>2, <1>3 DEF NoneTooLarge

LEMMA NoneFits ==
  ASSUME StateOK, BaseInv, NoneTooLarge
  PROVE  FrameSize(0) <= Size /\ ChunkFits /\ ByteFits
<1> DEFINE b == session.bytes
           n == Count(pak.mo)
           c == Contents(pak.mo)
<1>1. b \in Seq(Byte) /\ Len(b) \in Nat /\ pos \in Nat /\ pos <= Len(b) /\ n \in Nat
  <2>1. b \in Seq(Byte) /\ pos \in 0 .. Len(b)
    BY ReceiverAssumption DEF StateOK
  <2> QED BY <2>1, SoundFacts DEF StateOK
<1>2. ASSUME NEW a \in Nat, NEW e \in Nat, a + HeaderSize <= e, e <= Len(b)
      PROVE  FrameSize(HeadLen(SubSeq(b, a + 1, e))) <= Size
  <2>1. HeadLen(SubSeq(b, a + 1, e)) = Announced(b, a)
    BY <1>1, <1>2, WindowHead
  <2>2. a + HeaderSize <= Len(b)
    BY <1>1, <1>2, PacketConstants
  <2> QED BY <2>1, <2>2 DEF NoneTooLarge, StateOK
<1> HIDE DEF n, c, b
<1>3. ChunkFits
  <2> SUFFICES ASSUME phase = "receive", NEW m \in Nat, pos + m <= Len(b),
                      NEW d, d = SubSeq(b, pos + 1, pos + m), NEW s, s = Skipped(pak, d),
                      NEW e \in s .. m, HeaderSize <= n + (e - s)
               PROVE  FrameSize(HeadLen(c \o SubSeq(d, s + 1, e))) <= Size
    BY DEF ChunkFits, Fits, n, c, b
  <2> DEFINE k == n + (e - s)
             a == (pos + e) - k
             z == pos + e
  <2>1. /\ s \in 0 .. m /\ k \in 0 .. pos + e
        /\ c \o SubSeq(d, s + 1, e) = SubSeq(b, ((pos + e) - k) + 1, pos + e)
    <3>1. pos + m <= Len(session.bytes) /\ d = SubSeq(session.bytes, pos + 1, pos + m)
      BY DEF b
    <3>2. s \in 0 .. m /\ PieceWith(d, s, e)
      BY <3>1, Ahead
    <3> QED BY <3>2 DEF PieceWith, n, c, b
  <2>2. s \in 0 .. m /\ k \in 0 .. pos + e /\ HeaderSize <= k /\ e <= m /\ e \in Nat
    BY <2>1
  <2>3. a \in Nat /\ z \in Nat /\ a + HeaderSize <= z /\ z <= Len(b)
    <3> HIDE DEF k
    <3> QED BY <1>1, <2>2, PacketConstants
  <2>4. c \o SubSeq(d, s + 1, e) = SubSeq(b, a + 1, z)
    BY <2>1
  <2> HIDE DEF a, k, z
  <2> QED BY <1>2, <2>3, <2>4
<1>4. ByteFits
  <2> SUFFICES ASSUME phase = "receive", pos < Len(b), HeaderSize <= n + 1
               PROVE  FrameSize(HeadLen(c \o << b[pos + 1] >>)) <= Size
    BY DEF ByteFits, n, c, b
  <2> DEFINE a == (pos + 1) - (n + 1)
             z == pos + 1
  <2>1. n \in 0 .. pos /\ c = SubSeq(b, (pos - n) + 1, pos)
    BY <1>1 DEF BaseInv, n, c, b
  <2>2. a \in Nat /\ z \in Nat /\ a + HeaderSize <= z /\ z <= Len(b)
    BY <1>1, <2>1, PacketConstants
  <2>3. c \o << b[pos + 1] >> = SubSeq(b, a + 1, z)
    BY <1>1, <2>1, FollowedByOne
  <2> HIDE DEF a, z
  <2> QED BY <1>2, <2>2, <2>3
<1> QED BY <1>3, <1>4 DEF NoneTooLarge

-----------------------------------------------------------------------------
(* A message that stands in the stream is the one that parse finds there.  *)
SamePiece(c, body, b, end, len) ==
  /\ HeadLen(c) = LenOf(body[LenPos + 1], body[LenPos + 2])
  /\ [i \in IdPos |-> body[i]] = [i \in IdPos |-> c[i]]
  /\ SubSeq(body, HeaderSize + 1, HeaderSize + Least(Room, len))
       = SubSeq(c, HeaderSize + 1, HeaderSize + Least(Room, len))
  /\ SubSeq(c, 1, HeaderSize + len) = body
  /\ SubSeq(c, HeaderSize + len + 1, FrameSize(len)) = SubSeq(b, end + 1, end + CrcSize)

LEMMA PieceFacts ==
  ASSUME NEW b \in Seq(Byte), NEW a \in Nat, NEW e \in Nat, e <= Len(b),
         NEW len \in Nat, a + FrameSize(len) <= e,
         NEW c, c = SubSeq(b, a + 1, e),
         NEW end, end = a + HeaderSize + len,
         NEW body, body = SubSeq(b, a + 1, end)
  PROVE  SamePiece(c, body, b, end, len)
<1> DEFINE h == HeaderSize
           x == h + len
           f == FrameSize(len)
           y == h + Least(Room, len)
<1>1. /\ h \in Nat /\ x \in Nat /\ f \in Nat /\ f = x + CrcSize /\ CrcSize \in Nat
      /\ h <= x /\ x <= f /\ Len(b) \in Nat
  <2>1. h \in Nat /\ CrcSize \in Nat /\ f = h + len + CrcSize
    BY PacketConstants, FrameFacts
  <2> QED BY <2>1
<1>2. end = a + x /\ end \in Nat /\ a <= end /\ end - a = x /\ end <= Len(b) /\ a <= e
      /\ e - a \in Nat /\ f <= e - a /\ x <= e - a /\ end + CrcSize = a + f
  BY <1>1
<1>3. y \in Nat /\ h <= y /\ y <= x
  <2>1. Room \in Nat
    BY ReceiverAssumption
  <2> QED BY <1>1, <2>1 DEF Least
<1>4. \A i \in 1 .. x : body[i] = c[i]
  <2>1. \A i \in 1 .. end - a : body[i] = b[a + i]
    BY <1>2, Window
  <2>2. \A i \in 1 .. e - a : c[i] = b[a + i]
    BY <1>2, Window
  <2>3. \A i \in 1 .. x : i \in 1 .. e - a /\ i \in 1 .. end - a
    BY <1>1, <1>2
  <2> QED BY <2>1, <2>2, <2>3
<1>5. LenPos + 1 \in 1 .. x /\ LenPos + 2 \in 1 .. x /\ \A i \in IdPos : i \in 1 .. x
  BY <1>1, PacketConstants DEF IdPos
<1> HIDE DEF h, x, f, y
<1>6. SubSeq(body, h + 1, y) = SubSeq(b, a + h + 1, a + y)
  BY <1>1, <1>2, <1>3, WindowOfWindow
<1>7. SubSeq(c, h + 1, y) = SubSeq(b, a + h + 1, a + y)
  <2>1. y <= e - a
    BY <1>1, <1>2, <1>3
  <2> QED BY <1>1, <1>2, <1>3, <2>1, WindowOfWindow
<1>8. SubSeq(c, 1, x) = body
  <2>1. SubSeq(c, 0 + 1, x) = SubSeq(b, a + 0 + 1, a + x)
    BY <1>1, <1>2, WindowOfWindow
  <2>2. 0 + 1 = 1 /\ a + 0 + 1 = a + 1
    OBVIOUS
  <2> QED BY <1>2, <2>1, <2>2
<1>9. SubSeq(c, x + 1, f) = SubSeq(b, end + 1, end + CrcSize)
  <2>1. SubSeq(c, x + 1, f) = SubSeq(b, a + x + 1, a + f)
    BY <1>1, <1>2, WindowOfWindow
  <2> QED BY <1>2, <2>1
<1>10. HeadLen(c) = LenOf(body[LenPos + 1], body[LenPos + 2])
  BY <1>4, <1>5 DEF HeadLen
<1>11. [i \in IdPos |-> body[i]] = [i \in IdPos |-> c[i]]
  BY <1>4, <1>5
<1> QED BY <1>6, <1>7, <1>8, <1>9, <1>10, <1>11 DEF SamePiece, h, x, f, y

LEMMA StandsIsIntact ==
  ASSUME NEW b \in Seq(Byte), NEW a \in Nat, NEW e \in Nat, e <= Len(b),
         NEW c, c = SubSeq(b, a + 1, e),
         HeadLen(c) \in Nat, a + FrameSize(HeadLen(c)) <= e, IntactIn(c)
  PROVE  StandsIn(b, MsgIn(c), a)
<1> DEFINE len == HeadLen(c)
           m == MsgIn(c)
           end == a + HeaderSize + len
           body == SubSeq(b, a + 1, end)
<1>1. /\ len = LenOf(body[LenPos + 1], body[LenPos + 2])
      /\ [i \in IdPos |-> body[i]] = [i \in IdPos |-> c[i]]
      /\ SubSeq(body, HeaderSize + 1, HeaderSize + Least(Room, len))
           = SubSeq(c, HeaderSize + 1, HeaderSize + Least(Room, len))
      /\ SubSeq(c, 1, HeaderSize + len) = body
      /\ SubSeq(c, HeaderSize + len + 1, FrameSize(len)) = SubSeq(b, end + 1, end + CrcSize)
  <2> HIDE DEF body, end
  <2>1. end = a + HeaderSize + HeadLen(c) /\ body = SubSeq(b, a + 1, end)
    BY DEF end, body
  <2>2. SamePiece(c, body, b, end, len)
    BY <2>1, PieceFacts
  <2> QED BY <2>2 DEF SamePiece
<1>2. /\ m.len = len /\ m.id = [i \in IdPos |-> c[i]]
      /\ m.data = SubSeq(c, HeaderSize + 1, HeaderSize + Least(Room, len))
  BY DEF MsgIn
<1>3. CrcBytes(CrcBody(SubSeq(c, 1, HeaderSize + len))) = SubSeq(c, HeaderSize + len + 1, FrameSize(len))
  BY DEF IntactIn
<1> HIDE DEF m, body
<1>4. CrcBytes(CrcBody(body)) = SubSeq(b, end + 1, end + CrcSize)
  BY <1>1, <1>3
<1> QED BY <1>1, <1>2, <1>4 DEF StandsIn, m, body

LEMMA StandsIsFound ==
  ASSUME NEW b \in Seq(Byte), NEW a \in Nat, NEW e \in Nat, e <= Len(b),
         NEW c, c = SubSeq(b, a + 1, e),
         NEW m \in Messages, a + FrameSize(m.len) <= e, StandsIn(b, m, a)
  PROVE  HeadLen(c) = m.len /\ IntactIn(c) /\ MsgIn(c) = m
<1> DEFINE len == m.len
           end == a + HeaderSize + len
           body == SubSeq(b, a + 1, end)
<1>0. len \in Nat /\ m = [id |-> m.id, len |-> m.len, data |-> m.data]
  BY PacketConstants DEF Messages
<1>1. /\ HeadLen(c) = LenOf(body[LenPos + 1], body[LenPos + 2])
      /\ [i \in IdPos |-> body[i]] = [i \in IdPos |-> c[i]]
      /\ SubSeq(body, HeaderSize + 1, HeaderSize + Least(Room, len))
           = SubSeq(c, HeaderSize + 1, HeaderSize + Least(Room, len))
      /\ SubSeq(c, 1, HeaderSize + len) = body
      /\ SubSeq(c, HeaderSize + len + 1, FrameSize(len)) = SubSeq(b, end + 1, end + CrcSize)
  <2> HIDE DEF body, end, len
  <2>1. end = a + HeaderSize + len /\ body = SubSeq(b, a + 1, end) /\ a + FrameSize(len) <= e
    BY DEF end, body, len
  <2>2. SamePiece(c, body, b, end, len)
    BY <1>0, <2>1, PieceFacts
  <2> QED BY <2>2 DEF SamePiece
<1>2. /\ LenOf(body[LenPos + 1], body[LenPos + 2]) = len
      /\ m.id = [i \in IdPos |-> body[i]]
      /\ m.data = SubSeq(body, HeaderSize + 1, HeaderSize + Least(Room, len))
      /\ SubSeq(b, end + 1, end + CrcSize) = CrcBytes(CrcBody(body))
  BY DEF StandsIn
<1> HIDE DEF body, end, len
<1>3. HeadLen(c) = len
  BY <1>1, <1>2
<1>4. IntactIn(c)
  BY <1>1, <1>2, <1>3 DEF IntactIn
<1>5. MsgIn(c) = m
  <2>1. MsgIn(c) = [id |-> m.id, len |-> m.len, data |-> m.data]
    BY <1>1, <1>2, <1>3 DEF MsgIn, len
  <2> QED BY <1>0, <2>1
<1> QED BY <1>3, <1>4, <1>5 DEF len

-----------------------------------------------------------------------------
(* Streams of packets and nothing else, none larger than the buffer nor so *)
(* long that `left' overflows; the i-th begins behind start[i] bytes.      *)
Whole(s, start) ==
  /\ start \in [1 .. Len(s.sent) + 1 -> 0 .. Len(s.bytes)]
  /\ start[1] = 0 /\ start[Len(s.sent) + 1] = Len(s.bytes)
  /\ \A i \in 1 .. Len(s.sent) :
       LET m == s.sent[i] IN
       /\ FrameSize(m.len) <= Size /\ FrameSize(m.len) < Top
       /\ start[i + 1] = start[i] + FrameSize(m.len)
       /\ s.bytes[start[i] + 1] = Magic
       /\ StandsIn(s.bytes, m, start[i])

CleanLine ==
  /\ FrameSize(0) <= Size
  /\ \A s \in Sessions : s.sent \in Seq(Messages) /\ \E start : Whole(s, start)

(* The receiver is in step with such a stream: what it has handed out are  *)
(* the first g packets, and what it has stored begins the next.  The parse *)
(* that follows finds that packet complete, or cut short by receive_byte,  *)
(* which reads one byte of the length only.                                *)
Aligned(start) ==
  LET g    == Len(got)
      n    == Count(pak.mo)
      len  == session.sent[g + 1].len
      cut  == mode = "byte" /\ HeaderSize <= n /\ n < FrameSize(len)
  IN  /\ Whole(session, start)
      /\ g <= Len(session.sent) /\ got = SubSeq(session.sent, 1, g)
      /\ start[g + 1] + n = pos
      /\ phase = "parse" => g < Len(session.sent) /\ (n = FrameSize(len) \/ cut)
      /\ phase = "resync" => g < Len(session.sent) /\ cut
      /\ phase # "spin"

CleanInv == CleanLine /\ \E start : Aligned(start)

(* The packet m that is next, behind a bytes of the stream. *)
NextIs(m, a, z) ==
  /\ a \in Nat /\ m \in Messages /\ m.len \in Nat
  /\ FrameSize(m.len) \in Nat /\ HeaderSize <= FrameSize(m.len)
  /\ FrameSize(m.len) <= Size /\ FrameSize(m.len) < Top
  /\ z = a + FrameSize(m.len) /\ z <= Len(session.bytes)
  /\ session.bytes[a + 1] = Magic /\ StandsIn(session.bytes, m, a)
  /\ Announced(session.bytes, a) = m.len
  /\ a + Count(pak.mo) = pos

LEMMA NextFacts ==
  ASSUME StateOK, CleanLine, NEW start, Aligned(start), NEW g, g = Len(got),
         g < Len(session.sent)
  PROVE  /\ g \in Nat /\ session.sent \in Seq(Messages)
         /\ NextIs(session.sent[g + 1], start[g + 1], start[g + 2])
<1> DEFINE b == session.bytes
           m == session.sent[g + 1]
           a == start[g + 1]
           size == FrameSize(m.len)
<1>1. b \in Seq(Byte) /\ Len(b) \in Nat /\ session \in Sessions
  BY ReceiverAssumption DEF StateOK
<1>2. session.sent \in Seq(Messages) /\ g \in Nat /\ Len(session.sent) \in Nat
  BY <1>1 DEF CleanLine, StateOK
<1>3. g + 1 \in 1 .. Len(session.sent) /\ (g + 1) + 1 = g + 2
  BY <1>2
<1>4. m \in Messages /\ m.len \in 0 .. Top - 1 /\ m.len \in Nat
  <2>1. m \in Messages
    BY <1>2, <1>3, ElementOfSeq
  <2> HIDE DEF m
  <2>2. m.len \in 0 .. Top - 1
    BY <2>1 DEF Messages
  <2> QED BY <2>1, <2>2, PacketConstants
<1>5. /\ start \in [1 .. Len(session.sent) + 1 -> 0 .. Len(b)]
      /\ size <= Size /\ size < Top /\ start[(g + 1) + 1] = a + size
      /\ b[a + 1] = Magic /\ StandsIn(b, m, a) /\ a + Count(pak.mo) = pos
  BY <1>3 DEF Aligned, Whole
<1>6. a \in 0 .. Len(b) /\ start[g + 2] \in 0 .. Len(b)
  <2>1. g + 1 \in 1 .. Len(session.sent) + 1 /\ g + 2 \in 1 .. Len(session.sent) + 1
    BY <1>2
  <2> QED BY <1>5, <2>1
<1> HIDE DEF m, a, b
<1>7. size \in Nat /\ HeaderSize <= size /\ HeaderSize \in Nat
  <2>1. m.len \in Int /\ HeaderSize \in Nat /\ CrcSize \in Nat
    BY <1>4, PacketConstants
  <2>2. size = HeaderSize + m.len + CrcSize
    BY <2>1, FrameFacts
  <2> QED BY <1>4, <2>1, <2>2
<1> HIDE DEF size
<1>8. start[g + 2] = a + size /\ a \in Nat /\ a + size <= Len(b)
  BY <1>3, <1>5, <1>6
<1>9. Announced(b, a) = m.len
  <2> DEFINE e == a + size
             c == SubSeq(b, a + 1, e)
  <2>1. e \in Nat /\ e <= Len(b) /\ a + FrameSize(m.len) <= e /\ a + HeaderSize <= e
    BY <1>1, <1>7, <1>8 DEF size
  <2> HIDE DEF e
  <2>2. HeadLen(c) = Announced(b, a)
    BY <1>1, <1>8, <2>1, WindowHead
  <2> HIDE DEF c
  <2>3. c = SubSeq(b, a + 1, e)
    BY DEF c
  <2>4. HeadLen(c) = m.len
    <3>1. /\ b \in Seq(Byte) /\ a \in Nat /\ e \in Nat /\ e <= Len(b) /\ m \in Messages
          /\ a + FrameSize(m.len) <= e /\ StandsIn(b, m, a)
      BY <1>1, <1>4, <1>5, <1>8, <2>1
    <3> QED BY <2>3, <3>1, StandsIsFound, ZenonT(40)
  <2> QED BY <2>2, <2>4
<1>10. NextIs(m, a, start[g + 2])
  BY <1>4, <1>5, <1>7, <1>8, <1>9 DEF NextIs, b, size
<1> QED BY <1>2, <1>10 DEF m, a

(* While there are bytes left, there is a next packet. *)
LEMMA MoreIsNext ==
  ASSUME StateOK, CleanLine, NEW start, Aligned(start),
         pos < Len(session.bytes) \/ Count(pak.mo) # 0
  PROVE  Len(got) < Len(session.sent)
<1> SUFFICES ASSUME ~(Len(got) < Len(session.sent)) PROVE FALSE
  OBVIOUS
<1>1. /\ session.bytes \in Seq(Byte) /\ session.sent \in Seq(Messages)
      /\ pos \in 0 .. Len(session.bytes)
  BY ReceiverAssumption DEF StateOK, CleanLine
<1>2. Len(got) = Len(session.sent)
  <2>1. Len(got) <= Len(session.sent) /\ Len(got) \in Nat /\ Len(session.sent) \in Nat
    BY <1>1 DEF Aligned, StateOK
  <2> QED BY <2>1
<1>3. start[Len(got) + 1] = Len(session.bytes) /\ start[Len(got) + 1] + Count(pak.mo) = pos
  BY <1>2 DEF Aligned, Whole
<1>4. Count(pak.mo) \in Nat /\ Len(session.bytes) \in Nat
  BY <1>1, SoundFacts DEF StateOK
<1> QED BY <1>1, <1>3, <1>4

LEMMA NoSkip ==
  ASSUME StateOK, BaseInv, CleanLine, NEW start, Aligned(start), phase = "receive",
         Len(got) < Len(session.sent), NEW m \in Nat, pos + m <= Len(session.bytes),
         NEW d, d = SubSeq(session.bytes, pos + 1, pos + m)
  PROVE  Skipped(pak, d) = 0
<1>1. d \in Seq(Byte) /\ Len(d) = m /\ session.bytes \in Seq(Byte) /\ pos \in Nat
  BY NextBytes
<1>2. CASE pak.stat # SYNC
  BY <1>2 DEF Skipped
<1>3. CASE pak.stat = SYNC /\ m = 0
  <2>1. Magics(d) = {}
    BY <1>1, <1>3 DEF Magics
  <2> QED BY <1>1, <1>3, <2>1 DEF Skipped
<1>4. CASE pak.stat = SYNC /\ 1 <= m
  <2>1. Count(pak.mo) = 0
    BY <1>4 DEF BaseInv, Part
  <2>2. session.bytes[start[Len(got) + 1] + 1] = Magic /\ start[Len(got) + 1] + 0 = pos
        /\ start[Len(got) + 1] \in Nat
    BY <2>1, NextFacts DEF NextIs
  <2>3. session.bytes[pos + 1] = Magic
    BY <2>2
  <2>4. d[1] = session.bytes[pos + 1]
    <3> DEFINE e == pos + m
    <3>1. e \in Nat /\ pos <= e /\ e - pos = m /\ e <= Len(session.bytes) /\ 1 \in 1 .. e - pos
      BY <1>1, <1>4
    <3> HIDE DEF e
    <3>2. \A i \in 1 .. e - pos : d[i] = session.bytes[pos + i]
      BY <1>1, <3>1, Window DEF e
    <3> QED BY <3>1, <3>2
  <2>5. 1 \in Magics(d) /\ Magics(d) \subseteq Nat /\ \A i \in Magics(d) : 1 <= i
    BY <1>1, <1>4, <2>3, <2>4 DEF Magics
  <2> DEFINE x == CHOOSE i \in Magics(d) : \A j \in Magics(d) : i <= j
  <2>6. x \in Magics(d) /\ \A j \in Magics(d) : x <= j
    <3>1. Magics(d) # {}
      BY <2>5
    <3> QED BY <2>5, <3>1, ChosenMinimum
  <2> HIDE DEF x
  <2>7. x = 1
    BY <2>5, <2>6
  <2>8. Skip(d) = x - 1 /\ x - 1 = 0
    BY <2>7 DEF Skip, x
  <2> QED BY <1>4, <2>5, <2>8 DEF Skipped
<1> QED BY <1>2, <1>3, <1>4

LEMMA CleanInit == CleanLine /\ Init => CleanInv
<1> SUFFICES ASSUME CleanLine, Init PROVE CleanInv
  OBVIOUS
<1>1. session \in Sessions /\ got = << >> /\ pos = 0 /\ phase = "receive"
  BY DEF Init, Start
<1>2. PICK start : Whole(session, start)
  BY <1>1 DEF CleanLine
<1>3. session.sent \in Seq(Messages)
  BY <1>1 DEF CleanLine
<1>4. PICK mem \in Memories : pak = NewPacket(mem)
  BY DEF Init, Start
<1>5. Count(pak.mo) = 0
  BY <1>4, NewSound, ReceiverAssumption
<1> DEFINE w == SubSeq(session.sent, 1, 0)
<1>6. w = << >>
  <2>1. 0 + 1 = 1 /\ 0 \in Nat /\ 0 <= 0 /\ 0 <= Len(session.sent) /\ 0 - 0 = 0
    BY <1>3
  <2>2. w \in Seq(Messages) /\ Len(w) = 0
    BY <1>3, <2>1, Window
  <2> HIDE DEF w
  <2> QED BY <2>2, EmptySeq
<1>7. start[0 + 1] + 0 = 0
  <2>1. start[1] = 0 /\ 0 + 1 = 1
    BY <1>2 DEF Whole
  <2> QED BY <2>1
<1>8. Len(got) = 0 /\ 0 <= Len(session.sent)
  BY <1>1, <1>3
<1> HIDE DEF w
<1>9. Aligned(start)
  BY <1>1, <1>2, <1>5, <1>6, <1>7, <1>8 DEF Aligned, w
<1> QED BY <1>9 DEF CleanInv

LEMMA CleanFits ==
  ASSUME StateOK, BaseInv, CleanLine, NEW start, Aligned(start)
  PROVE  FrameSize(0) <= Size /\ ChunkFits /\ ByteFits
<1> DEFINE b == session.bytes
           n == Count(pak.mo)
           c == Contents(pak.mo)
           L == session.sent[Len(got) + 1].len
           at == start[Len(got) + 1]
<1>1. b \in Seq(Byte) /\ Len(b) \in Nat /\ pos \in Nat /\ pos <= Len(b) /\ n \in Nat
  <2>1. b \in Seq(Byte) /\ pos \in 0 .. Len(b)
    BY ReceiverAssumption DEF StateOK
  <2> QED BY <2>1, SoundFacts DEF StateOK
<1>2. ASSUME Len(got) < Len(session.sent)
      PROVE  /\ at \in Nat /\ at + n = pos /\ FrameSize(L) <= Size
             /\ Announced(b, at) = L
  BY <1>2, NextFacts DEF NextIs
<1>3. pos < Len(b) \/ n # 0 => Len(got) < Len(session.sent)
  BY MoreIsNext
<1> HIDE DEF n, c, b, L, at
<1>4. ASSUME Len(got) < Len(session.sent), NEW e \in Nat, at + HeaderSize <= e, e <= Len(b)
      PROVE  FrameSize(HeadLen(SubSeq(b, at + 1, e))) <= Size
  <2>1. HeadLen(SubSeq(b, at + 1, e)) = Announced(b, at)
    BY <1>1, <1>2, <1>4, WindowHead
  <2> QED BY <1>2, <1>4, <2>1
<1>5. ChunkFits
  <2> SUFFICES ASSUME phase = "receive", NEW m \in Nat, pos + m <= Len(b),
                      NEW d, d = SubSeq(b, pos + 1, pos + m), NEW s, s = Skipped(pak, d),
                      NEW e \in s .. m, HeaderSize <= n + (e - s)
               PROVE  FrameSize(HeadLen(c \o SubSeq(d, s + 1, e))) <= Size
    BY DEF ChunkFits, Fits, n, c, b
  <2>1. pos + m <= Len(session.bytes) /\ d = SubSeq(session.bytes, pos + 1, pos + m)
    BY DEF b
  <2>2. s \in 0 .. m /\ PieceWith(d, s, e)
    BY <2>1, Ahead
  <2>3. Len(got) < Len(session.sent)
    <3>1. CASE m = 0
      <4>1. e - s = 0
        BY <2>2, <3>1
      <4> QED BY <1>1, <1>3, <4>1, PacketConstants
    <3>2. CASE 1 <= m
      BY <1>1, <1>3, <3>2
    <3> QED BY <3>1, <3>2
  <2>4. s = 0
    BY <2>1, <2>3, NoSkip
  <2> DEFINE z == pos + e
  <2>5. z \in Nat /\ z <= Len(b) /\ at + HeaderSize <= z /\ z - (n + (e - s)) = at
    <3>1. e \in 0 .. m
      BY <2>4
    <3>2. at \in Nat /\ at + n = pos /\ HeaderSize \in Nat
      BY <1>2, <2>3, PacketConstants
    <3> QED BY <1>1, <2>4, <3>1, <3>2
  <2>6. c \o SubSeq(d, s + 1, e) = SubSeq(b, at + 1, z)
    <3>1. c \o SubSeq(d, s + 1, e) = SubSeq(b, (z - (n + (e - s))) + 1, z)
      BY <2>2 DEF PieceWith, n, c, b
    <3> QED BY <2>5, <3>1
  <2> HIDE DEF z
  <2> QED BY <1>4, <2>3, <2>5, <2>6
<1>6. ByteFits
  <2> SUFFICES ASSUME phase = "receive", pos < Len(b), HeaderSize <= n + 1
               PROVE  FrameSize(HeadLen(c \o << b[pos + 1] >>)) <= Size
    BY DEF ByteFits, n, c, b
  <2> DEFINE z == pos + 1
  <2>1. n \in 0 .. pos /\ c = SubSeq(b, (pos - n) + 1, pos)
    BY <1>1 DEF BaseInv, n, c, b
  <2>2. Len(got) < Len(session.sent)
    BY <1>3
  <2>3. z \in Nat /\ z <= Len(b) /\ at + HeaderSize <= z /\ z - (n + 1) = at
    <3>1. at \in Nat /\ at + n = pos /\ HeaderSize \in Nat
      BY <1>2, <2>2, PacketConstants
    <3> QED BY <1>1, <3>1
  <2>4. c \o << b[pos + 1] >> = SubSeq(b, (z - (n + 1)) + 1, z)
    BY <1>1, <2>1, FollowedByOne
  <2>5. c \o << b[pos + 1] >> = SubSeq(b, at + 1, z)
    BY <2>3, <2>4
  <2> HIDE DEF z
  <2> QED BY <1>4, <2>2, <2>3, <2>5
<1> QED BY <1>5, <1>6 DEF CleanLine

LEMMA CleanReceive ==
  ASSUME StateOK, BaseInv, CleanLine, NEW start, Aligned(start), NEW m \in Chunks, CallReceive(m)
  PROVE  Aligned(start)'
<1> DEFINE d == SubSeq(session.bytes, pos + 1, pos + m)
           r == Receive(pak, d)
           n == Count(pak.mo)
           c == Contents(pak.mo)
           g == Len(got)
           at == start[g + 1]
           L == session.sent[g + 1].len
<1>1. m \in Nat /\ 1 <= m /\ pos + m <= Len(session.bytes) /\ phase = "receive"
  BY ReceiverAssumption DEF CallReceive
<1>2. /\ pak' = r.pak /\ pos' = pos + r.used
      /\ phase' = IF r.ret = READY THEN "parse" ELSE "receive"
      /\ session' = session /\ mode' = mode /\ got' = got
  BY DEF CallReceive
<1>3. /\ pos \in Nat /\ Len(session.bytes) \in Nat /\ n \in Nat /\ n <= pos
  BY <1>1, NextBytes, SoundFacts DEF StateOK, BaseInv
<1>4. g < Len(session.sent)
  <2>1. pos < Len(session.bytes)
    BY <1>1, <1>3
  <2> QED BY <2>1, MoreIsNext
<1>5. /\ at \in Nat /\ at + n = pos /\ Announced(session.bytes, at) = L
      /\ FrameSize(L) < Top /\ FrameSize(L) \in Nat
  BY <1>4, NextFacts DEF NextIs
<1>6. Skipped(pak, d) = 0
  <2> HIDE DEF d
  <2>1. d = SubSeq(session.bytes, pos + 1, pos + m)
    BY DEF d
  <2> QED BY <1>1, <1>4, <2>1, NoSkip
<1>7. FrameSize(0) <= Size /\ ChunkFits
  BY CleanFits
<1>8. PICK e \in 0 .. m : Taken(r, pak.mo, d, 0, e)
  BY <1>6, <1>7, CallTakes
<1>9. PieceWith(d, 0, e)
  <2> HIDE DEF d
  <2>1. d = SubSeq(session.bytes, pos + 1, pos + m) /\ 0 = Skipped(pak, d)
    BY <1>6 DEF d
  <2> QED BY <1>1, <1>8, <2>1, Ahead
<1> DEFINE u == r.used
           w == c \o SubSeq(d, 0 + 1, e)
<1>10. /\ u \in 0 .. e /\ Count(r.pak.mo) = n + (u - 0)
       /\ r.ret = READY => HeaderSize <= n + (e - 0)
                           /\ (FrameSize(HeadLen(w)) < Top => Count(r.pak.mo) = FrameSize(HeadLen(w)))
  BY <1>8 DEF Taken
<1>11. ASSUME r.ret = READY PROVE HeadLen(w) = L
  <2> DEFINE z == pos + e
  <2>1. z \in Nat /\ z <= Len(session.bytes) /\ at + HeaderSize <= z /\ z - (n + (e - 0)) = at
    <3>1. e \in Nat /\ e <= m /\ HeaderSize \in Nat /\ HeaderSize <= n + e
      BY <1>1, <1>8, <1>10, <1>11, PacketConstants
    <3> HIDE DEF n, at
    <3> QED BY <1>1, <1>3, <1>5, <3>1
  <2>2. w = SubSeq(session.bytes, (z - (n + (e - 0))) + 1, z)
    BY <1>9 DEF PieceWith
  <2>3. w = SubSeq(session.bytes, at + 1, z)
    BY <2>1, <2>2
  <2>4. session.bytes \in Seq(Byte)
    BY ReceiverAssumption DEF StateOK
  <2> HIDE DEF z, w, at
  <2>5. HeadLen(SubSeq(session.bytes, at + 1, z)) = Announced(session.bytes, at)
    BY <1>5, <2>1, <2>4, WindowHead
  <2> QED BY <1>5, <2>3, <2>5
<1> HIDE DEF w, d, r, u
<1>12. at + Count(r.pak.mo) = pos + r.used
  <2>1. u \in Nat /\ Count(r.pak.mo) = n + u
    BY <1>8, <1>10
  <2> HIDE DEF n, at
  <2> QED BY <1>3, <1>5, <2>1, SMTT(30) DEF u
<1>13. r.ret = READY => Count(r.pak.mo) = FrameSize(L)
  BY <1>5, <1>10, <1>11
<1> QED BY <1>1, <1>2, <1>4, <1>12, <1>13 DEF Aligned

LEMMA CleanByte ==
  ASSUME StateOK, BaseInv, CleanLine, NEW start, Aligned(start), CallReceiveByte
  PROVE  Aligned(start)'
<1> DEFINE b == session.bytes
           x == b[pos + 1]
           r == ReceiveByte(pak, x)
           n == Count(pak.mo)
           c == Contents(pak.mo)
           g == Len(got)
           at == start[g + 1]
           L == session.sent[g + 1].len
<1>1. phase = "receive" /\ mode = "byte" /\ pos < Len(b)
  BY DEF CallReceiveByte
<1>2. /\ pak' = r.pak /\ pos' = pos + 1
      /\ phase' = IF r.ret > 0 THEN "parse" ELSE "receive"
      /\ session' = session /\ mode' = mode /\ got' = got
  BY DEF CallReceiveByte
<1>3. /\ b \in Seq(Byte) /\ pos \in Nat /\ Len(b) \in Nat /\ n \in Nat /\ n <= pos
      /\ c = SubSeq(b, (pos - n) + 1, pos)
  <2>1. b \in Seq(Byte) /\ pos \in 0 .. Len(b)
    BY ReceiverAssumption DEF StateOK
  <2> QED BY <2>1, SoundFacts DEF StateOK, BaseInv
<1>4. g < Len(session.sent)
  BY <1>1, MoreIsNext
<1>5. /\ at \in Nat /\ at + n = pos /\ Announced(b, at) = L /\ b[at + 1] = Magic
      /\ FrameSize(L) < Top /\ FrameSize(L) \in Nat
  BY <1>4, NextFacts DEF NextIs
<1>6. FrameSize(0) <= Size /\ ByteFits
  BY CleanFits
<1>7. ByteTaken(r, pak, x)
  BY <1>6, CallTakesByte
<1> DEFINE e == c \o << x >>
           long == FrameSize(HeadLen(e)) >= Top \/ HeadLen(e) >= Base
<1>8. ASSUME HeaderSize <= n + 1 PROVE HeadLen(e) = L
  <2> DEFINE z == pos + 1
  <2>1. z \in Nat /\ z <= Len(b) /\ at + HeaderSize <= z /\ z - (n + 1) = at /\ n \in 0 .. pos
    <3>1. HeaderSize \in Nat
      BY PacketConstants
    <3> HIDE DEF n, at, b
    <3> QED BY <1>1, <1>3, <1>5, <1>8, <3>1
  <2> HIDE DEF b, n, c, at
  <2>2. e = SubSeq(b, (z - (n + 1)) + 1, z)
    BY <1>1, <1>3, <2>1, FollowedByOne
  <2>3. e = SubSeq(b, at + 1, z)
    BY <2>1, <2>2
  <2> HIDE DEF z, e
  <2>4. HeadLen(SubSeq(b, at + 1, z)) = Announced(b, at)
    BY <1>3, <1>5, <2>1, WindowHead
  <2> QED BY <1>5, <2>3, <2>4
<1>9. ~(pak.stat = SYNC /\ x # Magic)
  <2> SUFFICES ASSUME pak.stat = SYNC PROVE x = Magic
    OBVIOUS
  <2>1. n = 0
    BY <1>1 DEF BaseInv, Part
  <2>2. at = pos
    BY <1>3, <1>5, <2>1
  <2> QED BY <1>5, <2>2
<1>10. /\ r.ret \in {0, 1} /\ Count(r.pak.mo) = n + 1
       /\ r.ret = 1 => /\ HeaderSize <= n + 1 /\ n + 1 <= FrameSize(HeadLen(e))
                       /\ ~long => n + 1 = FrameSize(HeadLen(e))
  BY <1>7, <1>9 DEF ByteTaken
<1> HIDE DEF e, r, x
<1>11. at + Count(r.pak.mo) = pos + 1
  <2> HIDE DEF n, at
  <2> QED BY <1>3, <1>5, <1>10
<1>12. r.ret > 0 => Count(r.pak.mo) = FrameSize(L)
                    \/ (HeaderSize <= Count(r.pak.mo) /\ Count(r.pak.mo) < FrameSize(L))
  <2> SUFFICES ASSUME r.ret = 1
               PROVE  Count(r.pak.mo) = FrameSize(L)
                      \/ (HeaderSize <= Count(r.pak.mo) /\ Count(r.pak.mo) < FrameSize(L))
    BY <1>10
  <2>1. HeaderSize <= n + 1 /\ n + 1 <= FrameSize(L)
    BY <1>8, <1>10
  <2> HIDE DEF n, L
  <2> QED BY <1>3, <1>5, <1>10, <2>1
<1> HIDE DEF b
<1> QED BY <1>1, <1>2, <1>4, <1>11, <1>12 DEF Aligned, b

LEMMA OneMore ==
  ASSUME NEW S, NEW s \in Seq(S), NEW g \in Nat, g < Len(s)
  PROVE  SubSeq(s, 1, g) \o << s[g + 1] >> = SubSeq(s, 1, g + 1)
         /\ Len(SubSeq(s, 1, g + 1)) = g + 1
<1> DEFINE h == g + 1
           x == SubSeq(s, 1, g)
           y == << s[h] >>
           z == SubSeq(s, 1, h)
<1>1. h \in Nat /\ 0 <= h /\ h <= Len(s) /\ g <= Len(s) /\ 0 + 1 = 1 /\ h - 0 = h /\ g - 0 = g
      /\ 0 \in Nat /\ 0 <= g /\ h \in 1 .. h /\ h \in 1 .. Len(s)
      /\ \A i \in 1 .. g : i \in 1 .. h /\ 0 + i = i
  OBVIOUS
<1>2. x \in Seq(S) /\ Len(x) = g /\ \A i \in 1 .. g : x[i] = s[i]
  <2>1. SubSeq(s, 0 + 1, g) \in Seq(S) /\ Len(SubSeq(s, 0 + 1, g)) = g - 0
        /\ \A i \in 1 .. g - 0 : SubSeq(s, 0 + 1, g)[i] = s[0 + i]
    BY <1>1, Window
  <2> QED BY <1>1, <2>1
<1> HIDE DEF h
<1>3. z \in Seq(S) /\ Len(z) = h /\ \A i \in 1 .. h : z[i] = s[i]
  <2>1. SubSeq(s, 0 + 1, h) \in Seq(S) /\ Len(SubSeq(s, 0 + 1, h)) = h - 0
        /\ \A i \in 1 .. h - 0 : SubSeq(s, 0 + 1, h)[i] = s[0 + i]
    BY <1>1, Window
  <2>2. \A i \in 1 .. h : 0 + i = i
    BY <1>1
  <2> QED BY <1>1, <2>1, <2>2
<1>4. y \in Seq(S) /\ Len(y) = 1 /\ y[1] = s[h]
  <2>1. s[h] \in S
    BY <1>1, ElementOfSeq
  <2> QED BY <2>1
<1> HIDE DEF x, y, z
<1>5. h = g + 1
  BY DEF h
<1>6. \A i \in 1 .. g : z[i] = x[i]
  BY <1>1, <1>2, <1>3
<1>7. \A i \in 1 .. 1 : z[g + i] = y[i]
  BY <1>1, <1>3, <1>4, <1>5
<1>8. x \o y = z
  <2>1. Len(z) = Len(x) + Len(y)
    BY <1>2, <1>3, <1>4, <1>5
  <2>2. \A i \in 1 .. Len(x) : z[i] = x[i]
    BY <1>2, <1>6
  <2>3. \A i \in 1 .. Len(y) : z[Len(x) + i] = y[i]
    BY <1>2, <1>4, <1>7
  <2> QED BY <1>2, <1>3, <1>4, <2>1, <2>2, <2>3, JoinIs
<1> QED BY <1>3, <1>8 DEF x, y, z, h

LEMMA CleanParse ==
  ASSUME StateOK, BaseInv, CleanLine, NEW start, Aligned(start), CallParse
  PROVE  Aligned(start)'
<1> DEFINE b == session.bytes
           r == Parse(pak, Room)
           n == Count(pak.mo)
           c == Contents(pak.mo)
           g == Len(got)
           at == start[g + 1]
           m == session.sent[g + 1]
           size == FrameSize(m.len)
<1>1. phase = "parse"
  BY DEF CallParse
<1>2. /\ pak' = r.pak /\ pos' = pos /\ session' = session /\ mode' = mode /\ got' = got \o r.msg
      /\ phase' = IF r.ret = MOREDATA THEN "receive" ELSE "resync"
  BY DEF CallParse
<1>3. /\ b \in Seq(Byte) /\ pos \in Nat /\ pos <= Len(b) /\ Len(b) \in Nat /\ n \in Nat /\ n <= pos
      /\ c = SubSeq(b, (pos - n) + 1, pos) /\ Sound(pak)
  <2>1. b \in Seq(Byte) /\ pos \in 0 .. Len(b)
    BY ReceiverAssumption DEF StateOK
  <2> QED BY <2>1, SoundFacts DEF StateOK, BaseInv
<1>4. /\ g < Len(session.sent)
      /\ n = size \/ (mode = "byte" /\ HeaderSize <= n /\ n < size)
  BY <1>1 DEF Aligned
<1>5. /\ at \in Nat /\ at + n = pos /\ Announced(b, at) = m.len /\ m \in Messages /\ m.len \in Nat
      /\ size \in Nat /\ HeaderSize <= size /\ size <= Size
      /\ start[g + 2] = at + size /\ StandsIn(b, m, at) /\ session.sent \in Seq(Messages)
  BY <1>4, NextFacts DEF NextIs
<1>6. HeaderSize <= n /\ HeaderSize \in Nat /\ pos - n = at /\ at + HeaderSize <= pos
  <2>1. HeaderSize \in Nat
    BY PacketConstants
  <2>2. HeaderSize <= n
    BY <1>4, <1>5
  <2>3. at \in Nat /\ at + n = pos /\ n \in Nat /\ pos \in Nat
    BY <1>3, <1>5
  <2> HIDE DEF n, at
  <2> QED BY <2>1, <2>2, <2>3
<1>7. c = SubSeq(b, at + 1, pos)
  BY <1>3, <1>6
<1>8. HeadLen(c) = m.len
  <2> HIDE DEF b, n, c, at, m
  <2>1. HeadLen(SubSeq(b, at + 1, pos)) = Announced(b, at)
    BY <1>3, <1>5, <1>6, WindowHead
  <2> QED BY <1>5, <1>7, <2>1
<1>9. ParseEffect(pak, r)
  BY <1>3, ParseStep
<1>10. CASE n = size
  <2>1. IntactIn(c) /\ MsgIn(c) = m
    <3>1. at + FrameSize(m.len) <= pos
      BY <1>3, <1>5, <1>6, <1>10
    <3> HIDE DEF b, n, c, at, m
    <3> QED BY <1>3, <1>5, <1>7, <3>1, StandsIsFound
  <2>2. r.ret = MOREDATA /\ r.msg = << m >>
    BY <1>6, <1>8, <1>9, <1>10, <2>1 DEF ParseEffect
  <2>3. Count(r.pak.mo) = 0
    <3>1. PICK k \in 0 .. n :
            /\ Count(r.pak.mo) = n - k
            /\ r.ret = MOREDATA => k = n
      BY <1>9 DEF ParseEffect
    <3> QED BY <1>3, <2>2, <3>1
  <2>4. got' = SubSeq(session.sent, 1, g + 1) /\ Len(got') = g + 1
    <3>1. got = SubSeq(session.sent, 1, g) /\ g \in Nat
      BY <1>5 DEF Aligned, StateOK
    <3> HIDE DEF g
    <3>2. SubSeq(session.sent, 1, g) \o << session.sent[g + 1] >> = SubSeq(session.sent, 1, g + 1)
          /\ Len(SubSeq(session.sent, 1, g + 1)) = g + 1
      BY <1>4, <1>5, <3>1, OneMore
    <3> QED BY <1>2, <2>2, <3>1, <3>2 DEF m
  <2>5. start[(g + 1) + 1] + 0 = pos /\ g + 1 <= Len(session.sent)
    <3>1. g \in Nat /\ Len(session.sent) \in Nat
      BY <1>5 DEF StateOK
    <3>2. (g + 1) + 1 = g + 2
      BY <3>1
    <3>3. at + size = pos
      BY <1>5, <1>10
    <3> HIDE DEF g
    <3>4. start[(g + 1) + 1] = pos
      BY <1>5, <3>2, <3>3
    <3> QED BY <1>3, <1>4, <3>1, <3>4
  <2>6. phase' = "receive" /\ Whole(session, start)
    BY <1>2, <2>2 DEF Aligned
  <2> HIDE DEF g, r
  <2> QED BY <1>2, <2>3, <2>4, <2>5, <2>6 DEF Aligned
<1>11. CASE mode = "byte" /\ HeaderSize <= n /\ n < size
  <2>1. m.len <= Size
    <3>1. size = HeaderSize + m.len + CrcSize /\ CrcSize \in Nat /\ Size \in Nat
      <4>1. m.len \in Int
        BY <1>5
      <4> QED BY <4>1, FrameFacts, PacketConstants
    <3>2. m.len \in Nat /\ size <= Size /\ HeaderSize \in Nat
      BY <1>5, <1>6
    <3> HIDE DEF size, m
    <3> QED BY <3>1, <3>2
  <2>2. r.pak = pak /\ r.ret = ERROR_NOCRC /\ r.msg = << >>
    BY <1>6, <1>8, <1>9, <1>11, <2>1 DEF ParseEffect
  <2>3. phase' = "resync"
    BY <1>2, <2>2 DEF ERROR_NOCRC, MOREDATA
  <2>4. got' = got
    <3>1. got \o << >> = got
      BY DEF StateOK
    <3> QED BY <1>2, <2>2, <3>1
  <2> HIDE DEF r
  <2> QED BY <1>2, <1>4, <1>11, <2>2, <2>3, <2>4 DEF Aligned
<1> QED BY <1>4, <1>10, <1>11

LEMMA CleanResync ==
  ASSUME StateOK, BaseInv, CleanLine, NEW start, Aligned(start), CallResync
  PROVE  Aligned(start)'
<1> DEFINE b == session.bytes
           r == Resync(pak)
           n == Count(pak.mo)
           c == Contents(pak.mo)
           g == Len(got)
           at == start[g + 1]
           m == session.sent[g + 1]
           size == FrameSize(m.len)
<1>1. phase = "resync"
  BY DEF CallResync
<1>2. /\ pak' = r.pak /\ pos' = pos /\ session' = session /\ mode' = mode /\ got' = got
      /\ phase' = CASE r.ret = READY -> "parse" [] r.ret = SPIN -> "spin" [] OTHER -> "receive"
  BY DEF CallResync
<1>3. /\ b \in Seq(Byte) /\ pos \in Nat /\ pos <= Len(b) /\ Len(b) \in Nat /\ n \in Nat /\ n <= pos
      /\ c = SubSeq(b, (pos - n) + 1, pos) /\ Sound(pak) /\ Valid(pak.mo)
      /\ c \in Seq(Byte) /\ Len(c) = n
  <2>1. b \in Seq(Byte) /\ pos \in 0 .. Len(b)
    BY ReceiverAssumption DEF StateOK
  <2>2. Sound(pak) /\ Valid(pak.mo)
    BY SoundFacts DEF StateOK
  <2>3. c \in Seq(Byte) /\ Len(c) = n /\ n \in Nat
    BY <2>2, CountIsLen
  <2>4. n <= pos /\ c = SubSeq(b, (pos - n) + 1, pos)
    BY DEF BaseInv
  <2> HIDE DEF n, c, b
  <2> QED BY <2>1, <2>2, <2>3, <2>4
<1>4. g < Len(session.sent) /\ HeaderSize <= n /\ n < size
  BY <1>1 DEF Aligned
<1>5. /\ at \in Nat /\ at + n = pos /\ Announced(b, at) = m.len /\ size \in Nat /\ size <= Size
      /\ b[at + 1] = Magic
  BY <1>4, NextFacts DEF NextIs
<1>6. HeaderSize \in Nat /\ 1 <= HeaderSize /\ pos - n = at /\ at + HeaderSize <= pos
  <2>1. HeaderSize \in Nat /\ 1 <= HeaderSize
    BY PacketConstants
  <2>2. n \in Nat /\ at \in Nat /\ pos \in Nat /\ at + n = pos /\ HeaderSize <= n
    BY <1>3, <1>4, <1>5
  <2> HIDE DEF n, at, size
  <2> QED BY <2>1, <2>2
<1>7. c = SubSeq(b, at + 1, pos)
  BY <1>3, <1>6
<1>8. HeadLen(c) = m.len
  <2> HIDE DEF b, n, c, at, m
  <2>1. HeadLen(SubSeq(b, at + 1, pos)) = Announced(b, at)
    BY <1>3, <1>5, <1>6, WindowHead
  <2> QED BY <1>5, <1>7, <2>1
<1>9. SubSeq(c, 0 + 1, n) = c
  <2> HIDE DEF c, n
  <2>1. SubSeq(c, 1, Len(c)) = c
    BY <1>3, SubSeqFull
  <2>2. 0 + 1 = 1
    OBVIOUS
  <2> QED BY <1>3, <2>1, <2>2
<1>10. StopsAt(pak.mo, 0)
  <2>1. LenAt(pak.mo, 0) = m.len
    <3>1. 0 + HeaderSize <= n /\ 0 \in Nat
      BY <1>4, <1>6
    <3> HIDE DEF n, c
    <3>2. LenAt(pak.mo, 0) = HeadLen(SubSeq(c, 0 + 1, n))
      BY <1>3, <3>1, LenAtFacts DEF n, c
    <3> QED BY <1>8, <1>9, <3>2
  <2>2. CopyWord(pak.mo, 0) = c[0 + 1]
    <3>1. 0 \in Nat /\ 0 < n
      BY <1>3, <1>4, <1>6
    <3> QED BY <1>3, <3>1, WordAt
  <2>3. c[1] = b[at + 1]
    <3>1. n \in Nat /\ at \in Nat /\ pos \in Nat /\ at + n = pos /\ 1 <= n
      BY <1>3, <1>4, <1>5, <1>6
    <3>2. b \in Seq(Byte) /\ pos <= Len(b)
      BY <1>3
    <3> HIDE DEF b, n, c, at
    <3>3. pos - at = n /\ at <= pos /\ 1 \in 1 .. pos - at
      BY <3>1
    <3>4. \A i \in 1 .. pos - at : c[i] = b[at + i]
      BY <1>7, <3>1, <3>2, <3>3, Window
    <3> QED BY <3>3, <3>4
  <2>4. 0 + 1 = 1
    OBVIOUS
  <2> QED BY <1>5, <2>1, <2>2, <2>3, <2>4 DEF StopsAt
<1>11. /\ Sound(r.pak) /\ r.ret \in {SPIN, MOREDATA, READY}
       /\ \E k \in 0 .. n :
            /\ Contents(r.pak.mo) = SubSeq(c, k + 1, n)
            /\ r.ret # SPIN => StopsAt(pak.mo, k) /\ \A j \in 0 .. k - 1 : ~StopsAt(pak.mo, j)
            /\ r.ret = SPIN => \A j \in 0 .. n : ~StopsAt(pak.mo, j)
            /\ r.ret = READY => FrameSize(HeadLen(Contents(r.pak.mo))) <= n - k
  BY <1>3, ResyncFacts
<1> HIDE DEF r
<1>12. PICK k \in 0 .. n :
         /\ Contents(r.pak.mo) = SubSeq(c, k + 1, n)
         /\ r.ret # SPIN => \A j \in 0 .. k - 1 : ~StopsAt(pak.mo, j)
         /\ r.ret = SPIN => \A j \in 0 .. n : ~StopsAt(pak.mo, j)
         /\ r.ret = READY => FrameSize(HeadLen(Contents(r.pak.mo))) <= n - k
  BY <1>11
<1>13. r.ret # SPIN
  <2>1. 0 \in 0 .. n
    BY <1>3
  <2> QED BY <1>10, <1>12, <2>1
<1>14. k = 0
  <2> SUFFICES ASSUME k # 0 PROVE FALSE
    OBVIOUS
  <2>1. 0 \in 0 .. k - 1
    BY <1>3
  <2> QED BY <1>10, <1>12, <1>13, <2>1
<1>15. Contents(r.pak.mo) = c /\ Count(r.pak.mo) = n
  <2>1. Contents(r.pak.mo) = c
    BY <1>9, <1>12, <1>14
  <2> QED BY <1>3, <1>11, <2>1, SoundFacts, CountIsLen
<1>16. r.ret # READY
  <2> SUFFICES ASSUME r.ret = READY PROVE FALSE
    OBVIOUS
  <2>1. size <= n - 0
    BY <1>8, <1>12, <1>14, <1>15
  <2> HIDE DEF n, size
  <2> QED BY <1>3, <1>4, <1>5, <2>1
<1>17. phase' = "receive"
  BY <1>2, <1>13, <1>16
<1> QED BY <1>2, <1>4, <1>15, <1>17 DEF Aligned

LEMMA CleanNext ==
  ASSUME StateOK, BaseInv, CleanInv, [Next]_vars
  PROVE  CleanInv'
<1>1. PICK start : Aligned(start)
  BY DEF CleanInv
<1>2. CleanLine
  BY DEF CleanInv
<1> SUFFICES Aligned(start)'
  BY <1>2 DEF CleanInv
<1>3. CASE UNCHANGED vars
  BY <1>1, <1>3 DEF vars, Aligned
<1>4. ASSUME NEW m \in Chunks, CallReceive(m) PROVE Aligned(start)'
  BY <1>1, <1>2, <1>4, CleanReceive
<1>5. CASE CallReceiveByte
  BY <1>1, <1>2, <1>5, CleanByte
<1>6. CASE CallParse
  BY <1>1, <1>2, <1>6, CleanParse
<1>7. CASE CallResync
  BY <1>1, <1>2, <1>7, CleanResync
<1>8. CASE Spinning
  BY <1>3, <1>8 DEF Spinning
<1> QED BY <1>3, <1>4, <1>5, <1>6, <1>7, <1>8 DEF Next

-----------------------------------------------------------------------------
(* The packets handed out stood in the stream, one behind the other, and   *)
(* before what is stored now.                                              *)
GoodInv ==
  \E ends \in [0 .. Len(got) -> Nat] :
    /\ \A i \in 0 .. Len(got) : ends[i] + Count(pak.mo) <= pos
    /\ \A i \in 1 .. Len(got) : \E at \in Nat :
         /\ ends[i - 1] <= at /\ ends[i] = at + FrameSize(got[i].len)
         /\ StandsIn(session.bytes, got[i], at)

LEMMA GoodInit == Init => GoodInv
<1> SUFFICES ASSUME Init PROVE GoodInv
  OBVIOUS
<1>1. PICK mem \in Memories : pak = NewPacket(mem)
  BY DEF Init, Start
<1>2. Count(pak.mo) = 0 /\ pos = 0 /\ got = << >> /\ Len(got) = 0
  <2>1. Count(pak.mo) = 0
    BY <1>1, NewSound, ReceiverAssumption
  <2> QED BY <2>1 DEF Init, Start
<1> DEFINE ends == [i \in 0 .. 0 |-> 0]
<1>3. ends \in [0 .. 0 -> Nat] /\ \A i \in 0 .. 0 : ends[i] + 0 <= 0
  OBVIOUS
<1>4. \A i \in 1 .. 0 : FALSE
  OBVIOUS
<1> HIDE DEF ends
<1> QED BY <1>2, <1>3, <1>4 DEF GoodInv

(* So it stays while no more is stored than was taken.                     *)
LEMMA GoodStays ==
  ASSUME StateOK, StateOK', GoodInv, got' = got, session' = session,
         pos + Count(pak.mo)' <= pos' + Count(pak.mo)
  PROVE  GoodInv'
<1>1. PICK ends \in [0 .. Len(got) -> Nat] :
        /\ \A i \in 0 .. Len(got) : ends[i] + Count(pak.mo) <= pos
        /\ \A i \in 1 .. Len(got) : \E at \in Nat :
             /\ ends[i - 1] <= at /\ ends[i] = at + FrameSize(got[i].len)
             /\ StandsIn(session.bytes, got[i], at)
  BY DEF GoodInv
<1>2. Count(pak.mo) \in Nat /\ Count(pak.mo)' \in Nat /\ pos \in Int /\ pos' \in Int
  <2>1. Count(pak.mo) \in Nat /\ pos \in Int
    BY SoundFacts DEF StateOK
  <2>2. Count(pak'.mo) \in Nat /\ pos' \in Int
    BY SoundFacts DEF StateOK
  <2> QED BY <2>1, <2>2
<1>3. ASSUME NEW i \in 0 .. Len(got) PROVE ends[i] + Count(pak.mo)' <= pos'
  <2> DEFINE x == Count(pak.mo)
             y == Count(pak.mo)'
             z == ends[i]
  <2>1. z \in Nat /\ z + x <= pos
    BY <1>1, <1>3
  <2>2. x \in Nat /\ y \in Nat /\ pos \in Int /\ pos' \in Int /\ pos + y <= pos' + x
    BY <1>2
  <2> HIDE DEF x, y, z
  <2>3. \A p, q \in Int : z + x <= p /\ p + y <= q + x => z + y <= q
    <3>1. x \in Int /\ y \in Int /\ z \in Int
      BY <2>1, <2>2
    <3> QED BY <3>1
  <2>4. z + y <= pos'
    BY <2>1, <2>2, <2>3
  <2> QED BY <2>4 DEF y, z
<1> QED BY <1>1, <1>3 DEF GoodInv

LEMMA GoodParse ==
  ASSUME StateOK, StateOK', BaseInv, GoodInv, CallParse
  PROVE  GoodInv'
<1> DEFINE b == session.bytes
           r == Parse(pak, Room)
           n == Count(pak.mo)
           c == Contents(pak.mo)
           g == Len(got)
<1>1. /\ pak' = r.pak /\ pos' = pos /\ session' = session /\ got' = got \o r.msg
  BY DEF CallParse
<1>2. /\ b \in Seq(Byte) /\ pos \in Nat /\ pos <= Len(b) /\ Len(b) \in Nat /\ n \in Nat /\ n <= pos
      /\ c = SubSeq(b, (pos - n) + 1, pos) /\ Sound(pak) /\ got \in Seq(Messages) /\ g \in Nat
  <2>1. b \in Seq(Byte) /\ pos \in 0 .. Len(b)
    BY ReceiverAssumption DEF StateOK
  <2> QED BY <2>1, SoundFacts, SMTT(30) DEF StateOK, BaseInv
<1>3. ParseEffect(pak, r)
  BY <1>2, ParseStep
<1>4. PICK k \in 0 .. n :
        /\ Count(r.pak.mo) = n - k
        /\ \/ r.msg = << >>
           \/ /\ r.msg = << MsgIn(c) >> /\ IntactIn(c)
              /\ HeaderSize <= n /\ FrameSize(HeadLen(c)) <= n /\ k = FrameSize(HeadLen(c))
  BY <1>3 DEF ParseEffect
<1>5. CASE r.msg = << >>
  <2>1. got' = got
    <3>1. got \o << >> = got
      BY <1>2
    <3> QED BY <1>1, <1>5, <3>1
  <2>2. n - k <= n
    BY <1>2
  <2>3. pos + Count(pak.mo)' <= pos' + Count(pak.mo)
    <3>1. Count(pak.mo)' = n - k
      BY <1>1, <1>4
    <3>2. pos + (n - k) <= pos + n
      BY <1>2, <2>2
    <3> QED BY <1>1, <3>1, <3>2
  <2> QED BY <1>1, <2>1, <2>3, GoodStays
<1>6. CASE /\ r.msg = << MsgIn(c) >> /\ IntactIn(c)
           /\ HeaderSize <= n /\ FrameSize(HeadLen(c)) <= n /\ k = FrameSize(HeadLen(c))
  <2> DEFINE m == MsgIn(c)
             a == pos - n
             e == a + k
  <2>1. PICK ends \in [0 .. g -> Nat] :
          /\ \A i \in 0 .. g : ends[i] + n <= pos
          /\ \A i \in 1 .. g : \E at \in Nat :
               /\ ends[i - 1] <= at /\ ends[i] = at + FrameSize(got[i].len)
               /\ StandsIn(b, got[i], at)
    BY DEF GoodInv
  <2>2. m.len = HeadLen(c) /\ a \in Nat /\ e \in Nat /\ e <= pos /\ a + n = pos /\ k \in Nat /\ k <= n
    <3>1. m.len = HeadLen(c)
      BY DEF MsgIn
    <3> HIDE DEF n
    <3> QED BY <1>2, <3>1
  <2>3. HeadLen(c) \in Nat
    <3>1. c \in Seq(Byte) /\ Len(c) = n
      BY <1>2, SoundFacts, CountIsLen
    <3> HIDE DEF c, n
    <3>2. HeadLen(c) \in 0 .. Top - 1
      BY <1>6, <3>1, HeadLenRange
    <3> QED BY <3>2, PacketConstants
  <2>4. StandsIn(b, m, a)
    <3> HIDE DEF b, n, c
    <3>1. c = SubSeq(b, a + 1, pos) /\ a + FrameSize(HeadLen(c)) <= pos /\ IntactIn(c)
      BY <1>2, <1>6, <2>2
    <3> HIDE DEF a
    <3> QED BY <1>2, <2>2, <2>3, <3>1, StandsIsIntact
  <2> DEFINE new == [i \in 0 .. g + 1 |-> IF i = g + 1 THEN e ELSE ends[i]]
  <2> HIDE DEF b, c, m
  <2>5. /\ Len(got') = g + 1 /\ \A i \in 1 .. g : got'[i] = got[i]
        /\ got'[g + 1] = m
    <3>1. got' = Append(got, m)
      <4>1. got \o << m >> = Append(got, m)
        BY <1>2
      <4> QED BY <1>1, <1>6, <4>1 DEF m
    <3> QED BY <1>2, <3>1
  <2>6. new \in [0 .. g + 1 -> Nat]
    <3> HIDE DEF g, a, e
    <3>1. \A i \in 0 .. g + 1 : i # g + 1 => i \in 0 .. g
      BY <1>2
    <3> QED BY <2>1, <2>2, <3>1
  <2>7. ASSUME NEW i \in 0 .. g + 1 PROVE new[i] + (n - k) <= pos
    <3> HIDE DEF g, e, n
    <3>1. CASE i = g + 1
      <4>1. new[i] = e
        BY <3>1
      <4>2. e + (n - k) = pos
        BY <1>2, <2>2 DEF e
      <4> QED BY <1>2, <4>1, <4>2
    <3>2. CASE i # g + 1
      <4>1. i \in 0 .. g
        BY <1>2, <3>2
      <4> DEFINE z == ends[i]
      <4>2. new[i] = z /\ z \in Nat /\ z + n <= pos
        BY <2>1, <3>2, <4>1
      <4> HIDE DEF z, new
      <4> QED BY <1>2, <2>2, <4>2
    <3> QED BY <3>1, <3>2
  <2>8. ASSUME NEW i \in 1 .. g + 1
        PROVE  \E at \in Nat : /\ new[i - 1] <= at /\ new[i] = at + FrameSize(got'[i].len)
                               /\ StandsIn(b, got'[i], at)
    <3>1. CASE i = g + 1
      <4> HIDE DEF g, e, n
      <4>1. i - 1 \in 0 .. g /\ i - 1 # g + 1 /\ i - 1 \in 0 .. g + 1
        BY <1>2, <3>1
      <4> DEFINE z == ends[i - 1]
      <4>2. new[i - 1] = z /\ new[i] = e /\ z \in Nat /\ z + n <= pos
        BY <2>1, <3>1, <4>1
      <4> HIDE DEF z, new
      <4>3. z <= a
        BY <1>2, <2>2, <4>2
      <4>4. got'[i] = m /\ e = a + FrameSize(m.len)
        BY <1>6, <2>2, <2>5, <3>1 DEF e
      <4> HIDE DEF a
      <4> QED BY <2>2, <2>4, <4>2, <4>3, <4>4
    <3>2. CASE i # g + 1
      <4> HIDE DEF g, e, n, a
      <4>1. i \in 1 .. g /\ i - 1 \in 0 .. g + 1 /\ i - 1 # g + 1
        BY <1>2, <3>2
      <4>2. new[i - 1] = ends[i - 1] /\ new[i] = ends[i] /\ got'[i] = got[i]
        BY <2>5, <3>2, <4>1
      <4> HIDE DEF new
      <4> QED BY <2>1, <4>1, <4>2
    <3> QED BY <3>1, <3>2
  <2>9. Count(pak.mo)' = n - k /\ pos' = pos /\ (session.bytes)' = b
    BY <1>1, <1>4 DEF b
  <2> HIDE DEF new, n, g
  <2> QED BY <2>5, <2>6, <2>7, <2>8, <2>9 DEF GoodInv
<1> QED BY <1>4, <1>5, <1>6

LEMMA GoodNext ==
  ASSUME StateOK, StateOK', BaseInv, FrameSize(0) <= Size, ChunkFits, ByteFits, GoodInv, [Next]_vars
  PROVE  GoodInv'
<1>0. Count(pak.mo) \in Nat /\ pos \in Nat
  <2>1. session.bytes \in Seq(Byte) /\ pos \in 0 .. Len(session.bytes)
    BY ReceiverAssumption DEF StateOK
  <2> QED BY <2>1, SoundFacts DEF StateOK
<1>1. CASE UNCHANGED vars
  BY <1>1 DEF vars, GoodInv
<1>2. ASSUME NEW m \in Chunks, CallReceive(m) PROVE GoodInv'
  <2> DEFINE d == SubSeq(session.bytes, pos + 1, pos + m)
             s == Skipped(pak, d)
             r == Receive(pak, d)
             n == Count(pak.mo)
             u == r.used
  <2>1. /\ pak' = r.pak /\ pos' = pos + r.used /\ session' = session /\ got' = got
    BY <1>2 DEF CallReceive
  <2>2. s \in 0 .. m /\ \E e \in s .. m : Taken(r, pak.mo, d, s, e)
    BY <1>2, CallTakes
  <2>3. m \in Nat
    BY ReceiverAssumption
  <2>4. PICK e \in s .. m : Taken(r, pak.mo, d, s, e)
    BY <2>2
  <2> HIDE DEF s, d, r
  <2>5. u \in s .. e /\ Count(r.pak.mo) = n + (u - s)
    BY <2>4 DEF Taken
  <2>6. pos + (n + (u - s)) <= (pos + u) + n
    <3> HIDE DEF u, n
    <3> QED BY <1>0, <2>2, <2>3, <2>4, <2>5 DEF n
  <2> QED BY <2>1, <2>5, <2>6, GoodStays
<1>3. CASE CallReceiveByte
  <2> DEFINE x == session.bytes[pos + 1]
             r == ReceiveByte(pak, x)
             n == Count(pak.mo)
  <2>1. /\ pak' = r.pak /\ pos' = pos + 1 /\ session' = session /\ got' = got
    BY <1>3 DEF CallReceiveByte
  <2>2. ByteTaken(r, pak, x)
    BY <1>3, CallTakesByte
  <2> HIDE DEF r, x
  <2>3. Count(r.pak.mo) = 0 \/ Count(r.pak.mo) = n + 1
    BY <2>2 DEF ByteTaken
  <2>4. pos + Count(r.pak.mo) <= (pos + 1) + n
    <3> HIDE DEF n
    <3> QED BY <1>0, <2>3 DEF n
  <2> QED BY <2>1, <2>4, GoodStays
<1>4. CASE CallParse
  BY <1>4, GoodParse
<1>5. CASE CallResync
  <2> DEFINE r == Resync(pak)
             n == Count(pak.mo)
  <2>1. /\ pak' = r.pak /\ pos' = pos /\ session' = session /\ got' = got
    BY <1>5 DEF CallResync
  <2>2. /\ Sound(r.pak) /\ \E k \in 0 .. n : Contents(r.pak.mo) = SubSeq(Contents(pak.mo), k + 1, n)
    BY ResyncFacts DEF StateOK
  <2>3. PICK k \in 0 .. n : Contents(r.pak.mo) = SubSeq(Contents(pak.mo), k + 1, n)
    BY <2>2
  <2>4. Contents(pak.mo) \in Seq(Byte) /\ Len(Contents(pak.mo)) = n
    BY SoundFacts, CountIsLen DEF StateOK
  <2> HIDE DEF r
  <2>5. Count(r.pak.mo) = n - k
    <3>1. k \in Nat /\ k <= n /\ n <= n /\ n \in Nat
      BY <1>0
    <3> HIDE DEF n
    <3>2. Len(Contents(r.pak.mo)) = n - k
      BY <2>3, <2>4, <3>1, Window
    <3> QED BY <2>2, <3>2, SoundFacts, CountIsLen
  <2>6. pos + Count(r.pak.mo) <= pos + n
    <3> HIDE DEF n
    <3> QED BY <1>0, <2>3, <2>5 DEF n
  <2> QED BY <2>1, <2>6, GoodStays
<1>6. CASE Spinning
  BY <1>1, <1>6 DEF Spinning
<1> QED BY <1>1, <1>2, <1>3, <1>4, <1>5, <1>6 DEF Next

(* The earliest places of the packets in the stream end before those in    *)
(* which they stood when they were handed out.                             *)
LEMMA GoodIsOnlyGood == StateOK /\ GoodInv => OnlyGoodFrames
<1> SUFFICES ASSUME StateOK, GoodInv PROVE OnlyGoodFrames
  OBVIOUS
<1> DEFINE g == Len(got)
           size(i) == FrameSize(got[i].len)
           starts(i, from) == {at \in from .. pos - size(i) : StandsIn(session.bytes, got[i], at)}
           first(i, from) == CHOOSE at \in starts(i, from) : \A a \in starts(i, from) : at <= a
           val(i, from) == IF starts(i, from) = {} THEN pos + 1 ELSE size(i) + first(i, from)
           Step(h) == [i \in 0 .. g |-> IF i = 0 THEN 0 ELSE val(i, h[i - 1])]
           end == CHOOSE h : h = Step(h)
<1>1. OnlyGoodFrames <=> end[g] <= pos
  BY DEF OnlyGoodFrames
<1>2. g \in Nat /\ pos \in Nat
  <2>1. session.bytes \in Seq(Byte) /\ pos \in 0 .. Len(session.bytes)
    BY ReceiverAssumption DEF StateOK
  <2> QED BY <2>1 DEF StateOK
<1>3. ASSUME NEW i \in 1 .. g PROVE size(i) \in Nat
  <2>1. got[i] \in Messages
    BY <1>3, ElementOfSeq DEF StateOK
  <2>2. got[i].len \in Nat
    BY <2>1, PacketConstants DEF Messages
  <2> DEFINE x == got[i].len
  <2> HIDE DEF x
  <2>3. x \in Nat /\ x \in Int
    BY <2>2 DEF x
  <2>4. FrameSize(x) = HeaderSize + x + CrcSize
    BY <2>3, FrameFacts
  <2>5. FrameSize(x) \in Nat
    BY <2>3, <2>4, PacketConstants
  <2> QED BY <2>5 DEF x
<1> HIDE DEF size
<1>4. ASSUME NEW i \in 1 .. g, NEW from \in Nat, starts(i, from) # {}
      PROVE  /\ first(i, from) \in Nat
             /\ \A a \in starts(i, from) : first(i, from) <= a
  <2>1. starts(i, from) \subseteq Nat
    BY <1>2, <1>3
  <2> DEFINE T == starts(i, from)
             x == first(i, from)
  <2>2. x = CHOOSE at \in T : \A a \in T : at <= a
    OBVIOUS
  <2> HIDE DEF T, x
  <2>3. x \in T /\ \A a \in T : x <= a
    BY <1>4, <2>1, <2>2, ChosenMinimum DEF T
  <2> QED BY <2>1, <2>3 DEF T, x
<1> HIDE DEF first, starts
<1>5. ASSUME NEW i \in 1 .. g, NEW from \in Nat PROVE val(i, from) \in Nat
  BY <1>2, <1>3, <1>4
<1>6. \E f \in [0 .. g -> Nat] : f = Step(f)
  <2> DEFINE step == [i \in 1 .. g |-> [x \in Nat |-> val(i, x)]]
  <2> HIDE DEF val
  <2>1. step \in [1 .. g -> [Nat -> Nat]]
    BY <1>5
  <2>2. \A i \in 1 .. g : \A x \in Nat : step[i][x] = val(i, x)
    OBVIOUS
  <2> HIDE DEF step
  <2>3. PICK f \in [0 .. g -> Nat] : f[0] = 0 /\ \A i \in 1 .. g : f[i] = step[i][f[i - 1]]
    <3> HIDE DEF g
    <3>1. 0 \in Nat /\ g \in Nat
      BY <1>2
    <3>2. \E f : Recursive(f, Nat, 0, g, step)
      BY <2>1, <3>1, Recursion
    <3> QED BY <3>2 DEF Recursive
  <2>4. ASSUME NEW i \in 0 .. g PROVE f[i] = IF i = 0 THEN 0 ELSE val(i, f[i - 1])
    <3>1. CASE i = 0
      BY <2>3, <3>1
    <3>2. CASE i # 0
      <4> HIDE DEF g
      <4>1. i \in 1 .. g /\ i - 1 \in 0 .. g
        BY <1>2, <3>2
      <4>2. f[i - 1] \in Nat
        BY <4>1
      <4> QED BY <2>2, <2>3, <3>2, <4>1, <4>2
    <3> QED BY <3>1, <3>2
  <2>5. f = Step(f)
    BY <2>4
  <2> QED BY <2>5
<1>7. end = Step(end)
  <2> HIDE DEF Step
  <2> QED BY <1>6
<1> HIDE DEF end, val
<1>8. end[0] = 0 /\ \A i \in 1 .. g : end[i] = val(i, end[i - 1])
  <2>1. 0 \in 0 .. g /\ \A i \in 1 .. g : i \in 0 .. g /\ i # 0
    BY <1>2
  <2> HIDE DEF g
  <2> QED BY <1>7, <2>1
<1>9. PICK ends \in [0 .. g -> Nat] :
        /\ \A i \in 0 .. g : ends[i] + Count(pak.mo) <= pos
        /\ \A i \in 1 .. g : \E at \in Nat :
             /\ ends[i - 1] <= at /\ ends[i] = at + size(i)
             /\ StandsIn(session.bytes, got[i], at)
  BY DEF GoodInv, size
<1>10. Count(pak.mo) \in Nat
  BY SoundFacts DEF StateOK
<1> DEFINE H == {i \in 0 .. g : end[i] \in Nat /\ end[i] <= ends[i]}
<1> HIDE DEF g
<1>11. 0 \in H
  <2>1. 0 \in 0 .. g
    BY <1>2
  <2>2. ends[0] \in Nat
    BY <1>9, <2>1
  <2> QED BY <1>8, <2>1, <2>2
<1>12. ASSUME NEW i \in 1 .. g, i - 1 \in H PROVE i \in H
  <2>1. PICK at \in Nat : /\ ends[i - 1] <= at /\ ends[i] = at + size(i)
                          /\ StandsIn(session.bytes, got[i], at)
    BY <1>9
  <2>2. i \in 0 .. g /\ i - 1 \in 0 .. g
    BY <1>2
  <2> DEFINE x == ends[i - 1]
             y == end[i - 1]
             z == ends[i]
             f == first(i, y)
  <2>3. x \in Nat /\ y \in Nat /\ z \in Nat /\ y <= x /\ x <= at /\ z = at + size(i)
        /\ z + Count(pak.mo) <= pos /\ size(i) \in Nat
    BY <1>3, <1>9, <1>12, <2>1, <2>2
  <2> HIDE DEF x, y, z
  <2>4. at \in y .. pos - size(i)
    BY <1>2, <1>10, <2>3
  <2>5. at \in starts(i, y)
    BY <2>1, <2>4 DEF starts
  <2>6. f \in Nat /\ f <= at
    BY <1>4, <2>3, <2>5
  <2>7. end[i] = size(i) + f
    BY <1>8, <2>5 DEF val, y
  <2> HIDE DEF f
  <2>8. end[i] \in Nat /\ end[i] <= z
    BY <2>3, <2>6, <2>7
  <2> QED BY <2>2, <2>8 DEF z
<1>13. g \in H
  <2> HIDE DEF H
  <2>1. 0 .. g \subseteq H
    BY <1>2, <1>11, <1>12, UpTo
  <2>2. g \in 0 .. g
    BY <1>2
  <2> QED BY <2>1, <2>2
<1>14. end[g] \in Nat /\ end[g] <= ends[g] /\ ends[g] + Count(pak.mo) <= pos /\ ends[g] \in Nat
  <2>1. g \in 0 .. g
    BY <1>2
  <2> QED BY <1>9, <1>13, <2>1
<1> DEFINE x == end[g]
           y == ends[g]
<1>15. x <= pos
  <2>1. x \in Nat /\ y \in Nat /\ x <= y /\ y + Count(pak.mo) <= pos
    BY <1>14
  <2> HIDE DEF x, y
  <2> QED BY <1>2, <1>10, <2>1
<1> QED BY <1>1, <1>15 DEF g

(* What `stat' and `left' say is what the caller is told.                  *)
LEMMA BaseIsFramed == StateOK /\ BaseInv => ConsumedIsStored /\ Framed
<1> SUFFICES ASSUME StateOK, BaseInv PROVE ConsumedIsStored /\ Framed
  OBVIOUS
<1> DEFINE n == Count(pak.mo)
           c == Contents(pak.mo)
           len == LenAt(pak.mo, 0)
<1>1. /\ n \in Nat /\ Valid(pak.mo) /\ c \in Seq(Byte) /\ Len(c) = n
      /\ pak.left \in 0 .. Top - 1 /\ pak.left \in Nat
  BY SoundFacts, CountIsLen, PacketConstants DEF StateOK
<1>2. HeaderSize \in Nat /\ CrcSize \in Nat
  BY PacketConstants
<1>3. len \in Nat /\ (HeaderSize <= n => len = HeadLen(c))
  <2>1. len \in 0 .. Top - 1
    BY <1>1, LenAtFacts
  <2>2. ASSUME HeaderSize <= n PROVE len = HeadLen(c)
    <3>1. 0 + HeaderSize <= n /\ 0 \in Nat
      BY <1>2, <2>2
    <3>2. SubSeq(c, 0 + 1, n) = c
      <4> HIDE DEF c, n
      <4>1. SubSeq(c, 1, Len(c)) = c
        BY <1>1, SubSeqFull
      <4>2. 0 + 1 = 1
        OBVIOUS
      <4> QED BY <1>1, <4>1, <4>2
    <3> HIDE DEF c, n, len
    <3>3. len = HeadLen(SubSeq(c, 0 + 1, n))
      BY <1>1, <3>1, LenAtFacts DEF c, n, len
    <3> QED BY <3>2, <3>3
  <2> HIDE DEF len, c, n
  <2>3. len \in Nat
    BY <2>1, PacketConstants
  <2> QED BY <2>2, <2>3
<1>4. ConsumedIsStored
  BY DEF ConsumedIsStored, BaseInv
<1>5. Framed
  <2> DEFINE long == /\ n >= HeaderSize
                     /\ \/ FrameSize(len) >= Base * Base
                        \/ mode = "byte" /\ len >= Base
  <2> SUFFICES ASSUME phase = "receive", ~long
               PROVE  CASE pak.stat = SYNC -> n = 0
                        [] pak.stat = HEAD -> n + pak.left = HeaderSize /\ n < HeaderSize
                        [] pak.stat = DATA -> /\ n + pak.left = HeaderSize + len
                                              /\ n \in HeaderSize .. HeaderSize + len - 1
                        [] pak.stat = CRC -> /\ n + pak.left = FrameSize(len)
                                             /\ n \in HeaderSize + len .. FrameSize(len) - 1
                        [] OTHER -> FALSE
    BY DEF Framed
  <2>1. Part(pak.stat, pak.left, n, HeadLen(c), mode)
    BY DEF BaseInv
  <2>2. FrameSize(len) = HeaderSize + len + CrcSize
    <3> HIDE DEF len
    <3>1. len \in Int
      BY <1>3
    <3> QED BY <3>1, FrameFacts
  <2> DEFINE l == pak.left
  <2>3. CASE pak.stat = SYNC
    BY <2>1, <2>3, StatsDiffer DEF Part
  <2>4. CASE pak.stat = HEAD
    <3>1. n + l = HeaderSize /\ 1 <= l /\ l \in Nat
      BY <1>1, <2>1, <2>4, StatsDiffer DEF Part
    <3> HIDE DEF n, l
    <3>2. n < HeaderSize
      BY <1>1, <1>2, <3>1
    <3> QED BY <2>4, <3>1, <3>2, StatsDiffer DEF l
  <2>5. CASE pak.stat = DATA
    <3>1. HeaderSize <= n /\ 1 <= l /\ l \in Nat
      BY <1>1, <2>1, <2>5, StatsDiffer DEF Part
    <3>2. len = HeadLen(c)
      BY <1>3, <3>1
    <3>3. ~(FrameSize(HeadLen(c)) >= Top \/ (mode = "byte" /\ HeadLen(c) >= Base))
      BY <1>1, <1>2, <3>1, <3>2 DEF Top
    <3>4. n + l = HeaderSize + len
      BY <2>1, <2>5, <3>2, <3>3, StatsDiffer DEF Part
    <3> HIDE DEF n, l, len
    <3>5. n \in HeaderSize .. HeaderSize + len - 1
      BY <1>1, <1>2, <1>3, <3>1, <3>4
    <3> QED BY <2>5, <3>4, <3>5, StatsDiffer DEF l
  <2>6. CASE pak.stat = CRC
    <3>1. HeaderSize <= n /\ 1 <= l /\ l \in Nat
      BY <1>1, <2>1, <2>6, StatsDiffer DEF Part
    <3>2. len = HeadLen(c)
      BY <1>3, <3>1
    <3>3. ~(FrameSize(HeadLen(c)) >= Top \/ (mode = "byte" /\ HeadLen(c) >= Base))
      BY <1>1, <1>2, <3>1, <3>2 DEF Top
    <3>4. n + l = FrameSize(len) /\ HeaderSize + len <= n
      BY <2>1, <2>6, <3>2, <3>3, StatsDiffer DEF Part
    <3> HIDE DEF n, l, len
    <3>5. n \in HeaderSize + len .. FrameSize(len) - 1
      BY <1>1, <1>2, <1>3, <2>2, <3>1, <3>4
    <3> QED BY <2>6, <3>4, <3>5, StatsDiffer DEF l
  <2>7. pak.stat \in {SYNC, HEAD, DATA, CRC}
    BY <2>1 DEF Part
  <2> QED BY <2>3, <2>4, <2>5, <2>6, <2>7
<1> QED BY <1>4, <1>5

-----------------------------------------------------------------------------
(* The lines on which the receiver keeps in step with its buffer.          *)
StreamInv == /\ StateOK /\ BaseInv /\ GoodInv
             /\ NoneTooLarge \/ CleanInv

LEMMA StreamStep == StreamInv /\ [Next]_vars => StreamInv'
<1> SUFFICES ASSUME StreamInv, [Next]_vars PROVE StreamInv'
  OBVIOUS
<1>1. StateOK /\ BaseInv /\ GoodInv
  BY DEF StreamInv
<1>2. FrameSize(0) <= Size /\ ChunkFits /\ ByteFits
  <2>1. CASE NoneTooLarge
    BY <1>1, <2>1, NoneFits
  <2>2. CASE CleanInv
    BY <1>1, <2>2, CleanFits DEF CleanInv
  <2> QED BY <2>1, <2>2 DEF StreamInv
<1>3. StateOK'
  BY <1>1, StateOKNext
<1>4. BaseInv'
  BY <1>1, <1>2, BaseNext
<1>5. GoodInv'
  BY <1>1, <1>2, <1>3, GoodNext
<1>6. NoneTooLarge \/ CleanInv'
  BY <1>1, CleanNext DEF StreamInv
<1>7. NoneTooLarge => NoneTooLarge'
  BY DEF NoneTooLarge
<1> QED BY <1>3, <1>4, <1>5, <1>6, <1>7 DEF StreamInv

LEMMA StreamHolds ==
  ASSUME NoneTooLarge \/ CleanLine
  PROVE  Spec => []StreamInv
<1>1. Init => StreamInv
  BY StateOKInit, BaseInit, GoodInit, CleanInit DEF StreamInv
<1> QED BY <1>1, StreamStep, PTL DEF Spec

(* The bytes in the buffer are those that were reported consumed last,     *)
(* when no length that can be read from the line is too large for the      *)
(* buffer or when nothing but packets that fit it is on the line.          *)
THEOREM PacketConsumedIsStored ==
  ASSUME NoneTooLarge \/ CleanLine
  PROVE  Spec => []ConsumedIsStored
<1>1. StreamInv => ConsumedIsStored
  BY BaseIsFramed DEF StreamInv
<1> QED BY <1>1, StreamHolds, PTL

(* stat and left say what the packet that is being received still lacks,   *)
(* whichever of the four functions was called last.                        *)
THEOREM PacketFramed ==
  ASSUME NoneTooLarge \/ CleanLine
  PROVE  Spec => []Framed
<1>1. StreamInv => Framed
  BY BaseIsFramed DEF StreamInv
<1> QED BY <1>1, StreamHolds, PTL

(* Whatever the noise: what is handed out stood in the stream, in one      *)
(* piece with its checksum, in order and without overlap.                  *)
THEOREM PacketOnlyGoodFrames ==
  ASSUME NoneTooLarge \/ CleanLine
  PROVE  Spec => []OnlyGoodFrames
<1>1. StreamInv => OnlyGoodFrames
  BY GoodIsOnlyGood DEF StreamInv
<1> QED BY <1>1, StreamHolds, PTL

(* From a line without noise the packets are handed out in order, none     *)
(* left out and none twice, wherever the line is cut.                      *)
THEOREM PacketInOrder ==
  ASSUME CleanLine
  PROVE  Spec => []InOrder
<1> DEFINE Inv == StateOK /\ BaseInv /\ CleanInv
<1>1. Init => Inv
  BY StateOKInit, BaseInit, CleanInit
<1>2. Inv /\ [Next]_vars => Inv'
  <2> SUFFICES ASSUME Inv, [Next]_vars PROVE Inv'
    OBVIOUS
  <2>1. FrameSize(0) <= Size /\ ChunkFits /\ ByteFits
    BY CleanFits DEF CleanInv
  <2> QED BY <2>1, StateOKNext, BaseNext, CleanNext
<1>3. Inv => InOrder
  BY DEF CleanInv, Aligned, InOrder
<1> QED BY <1>1, <1>2, <1>3, PTL DEF Spec

-----------------------------------------------------------------------------
(* The sender.  What bscl_packet_write puts into the buffer of a packet:   *)
(* its header, data and checksum. *)
LEMMA HeaderFacts ==
  ASSUME NEW id \in [IdPos -> Byte], NEW len \in Nat
  PROVE  Header(id, len) \in Seq(Byte) /\ Len(Header(id, len)) = HeaderSize
<1>1. /\ HeaderSize \in Nat /\ Base \in Nat \ {0} /\ Byte = 0 .. Base - 1 /\ Magic \in Byte
      /\ LenPos \in Nat
  BY PacketConstants
<1>2. len % Base \in Byte
  BY <1>1
<1>3. (len \div Base) % Base \in Byte
  <2>1. len \div Base \in Int
    BY <1>1
  <2> QED BY <1>1, <2>1
<1> DEFINE h(i) == IF i = 1 THEN Magic
                   ELSE IF i = LenPos + 1 THEN len % Base
                   ELSE IF i = LenPos + 2 THEN (len \div Base) % Base
                   ELSE id[i]
           f == [i \in 1 .. HeaderSize |-> h(i)]
<1>4. ASSUME NEW i \in 1 .. HeaderSize PROVE h(i) \in Byte
  <2>1. CASE i = 1 \/ i = LenPos + 1 \/ i = LenPos + 2
    <3> DEFINE lo == len % Base
               hi == (len \div Base) % Base
    <3>1. lo \in Byte /\ hi \in Byte
      BY <1>2, <1>3
    <3> HIDE DEF lo, hi
    <3>2. (IF i = 1 THEN Magic ELSE IF i = LenPos + 1 THEN lo ELSE IF i = LenPos + 2 THEN hi ELSE id[i])
            \in Byte
      BY <1>1, <2>1, <3>1
    <3> QED BY <3>2 DEF lo, hi
  <2>2. CASE i # 1 /\ i # LenPos + 1 /\ i # LenPos + 2
    <3>1. i \in IdPos
      BY <2>2 DEF IdPos
    <3>2. id[i] \in Byte
      BY <3>1
    <3> QED BY <2>2, <3>2
  <2> QED BY <2>1, <2>2
<1> HIDE DEF h
<1>5. f \in [1 .. HeaderSize -> Byte]
  BY <1>4
<1> HIDE DEF f
<1>6. f \in Seq(Byte) /\ Len(f) = HeaderSize
  BY <1>1, <1>5, FunctionIsSeq
<1> QED BY <1>6 DEF f, h, Header

LEMMA JoinBytes ==
  ASSUME NEW x \in Seq(Byte), NEW y \in Seq(Byte), NEW z \in Seq(Byte)
  PROVE  (x \o y) \o z = x \o (y \o z)
BY ConcatAssociative

(* It is in the buffer as a whole, or the buffer is as it was.             *)
LEMMA WriteWhole ==
  ASSUME NEW q, Sound(q), NEW p \in Outgoing, NEW r, r = PacketWrite(q, p.id, p.data)
  PROVE  /\ Sound(r.pak) /\ WrittenFrame(p) \in Seq(Byte)
         /\ \/ r.ret = -1 /\ r.pak = q
            \/ r.ret = 0 /\ Contents(r.pak.mo) = Contents(q.mo) \o WrittenFrame(p)
<1> DEFINE data == p.data
           n == Len(data)
           head == Header(p.id, n)
           sum == CrcBytes(WriteCrc(p.id, data))
           mo == q.mo
           mo1 == Write(mo, head)
           mo2 == Write(mo1, data)
           mo3 == Write(mo2, sum)
           c == Contents(mo)
           k == Count(mo)
<1>1. p.id \in [IdPos -> Byte] /\ data \in Seq(Byte) /\ p.len = n /\ n \in Nat
      /\ sum \in [1 .. CrcSize -> Byte]
  BY SenderAssumption
<1>2. head \in Seq(Byte) /\ Len(head) = HeaderSize
  <2> HIDE DEF n
  <2> QED BY <1>1, HeaderFacts
<1>3. sum \in Seq(Byte) /\ Len(sum) = CrcSize
  <2> HIDE DEF sum
  <2>1. CrcSize \in Nat
    BY PacketConstants
  <2> QED BY <1>1, <2>1, FunctionIsSeq
<1>4. Valid(mo) /\ k \in 0 .. Size /\ c \in Seq(Byte) /\ Space(mo) = Size - k
  BY SoundFacts, ValidFacts
<1>5. HeaderSize \in Nat /\ CrcSize \in Nat /\ Size \in Nat /\ FrameSize(n) = HeaderSize + n + CrcSize
  <2>1. n \in Int
    BY <1>1
  <2> HIDE DEF n
  <2> QED BY <2>1, FrameFacts, PacketConstants
<1>6. WrittenFrame(p) = (head \o data) \o sum
  BY <1>1 DEF WrittenFrame
<1>7. WrittenFrame(p) \in Seq(Byte)
  <2> HIDE DEF head, sum, data
  <2>1. head \o data \in Seq(Byte)
    BY <1>1, <1>2
  <2> QED BY <1>3, <1>6, <2>1
<1>8. CASE FrameSize(n) > Space(mo)
  <2> HIDE DEF head, sum, mo1, mo2, mo3
  <2>1. ~(FrameSize(n) <= Space(mo))
    <3> HIDE DEF n, mo, k
    <3> QED BY <1>1, <1>4, <1>5, <1>8
  <2>2. r = Returned(q, -1)
    <3>1. /\ FrameSize(Len(p.data)) > Space(q.mo)
          /\ ~(FrameSize(Len(p.data)) <= Space(q.mo))
      BY <1>8, <2>1
    <3> QED BY <3>1 DEF PacketWrite
  <2> QED BY <1>7, <2>2, ReturnedFacts
<1>9. CASE ~(FrameSize(n) > Space(mo))
  <2> HIDE DEF head, sum, data, mo, n, k, c
  <2>1. HeaderSize + n + CrcSize <= Size - k
    <3>1. n \in Nat /\ k \in Nat
      BY <1>1, <1>4, <1>5
    <3> QED BY <1>4, <1>5, <1>9, <3>1
  <2>2. /\ Valid(mo1) /\ Contents(mo1) = c \o head /\ Count(mo1) = k + HeaderSize
        /\ WriteLen(mo, head) = HeaderSize
    <3>1. Len(head) <= Size - Count(mo)
      BY <1>1, <1>2, <1>4, <1>5, <2>1 DEF k
    <3>2. WriteLen(mo, head) = Len(head)
      BY <1>2, <1>4, <1>5, <3>1 DEF WriteLen, Least, k
    <3> QED BY <1>2, <1>4, <3>1, <3>2, WriteAppends DEF c, k
  <2>3. /\ Valid(mo2) /\ Contents(mo2) = (c \o head) \o data /\ Count(mo2) = k + HeaderSize + n
        /\ WriteLen(mo1, data) = n
    <3> HIDE DEF mo1
    <3>1. Len(data) <= Size - Count(mo1) /\ Space(mo1) = Size - Count(mo1)
      BY <1>1, <1>4, <1>5, <2>1, <2>2, ValidFacts DEF n
    <3>2. WriteLen(mo1, data) = Len(data)
      <4> DEFINE z == Space(mo1)
                 y == Len(data)
      <4>1. y <= z /\ y \in Nat /\ z \in Int
        BY <1>1, <1>5, <2>2, <3>1, ValidFacts DEF n
      <4> HIDE DEF y, z
      <4>2. (IF y < z THEN y ELSE z) = y
        BY <4>1
      <4> QED BY <4>2 DEF y, z, WriteLen, Least
    <3> QED BY <1>1, <2>2, <3>1, <3>2, WriteAppends DEF n
  <2>4. /\ Valid(mo3) /\ Contents(mo3) = ((c \o head) \o data) \o sum
        /\ WriteLen(mo2, sum) = CrcSize
    <3> HIDE DEF mo2
    <3>1. Len(sum) <= Size - Count(mo2) /\ Space(mo2) = Size - Count(mo2)
      BY <1>1, <1>3, <1>4, <1>5, <2>1, <2>3, ValidFacts
    <3>2. WriteLen(mo2, sum) = Len(sum)
      BY <1>1, <1>3, <1>4, <1>5, <2>3, <3>1 DEF WriteLen, Least
    <3> QED BY <1>3, <2>3, <3>1, <3>2, WriteAppends
  <2>5. r = Returned([q EXCEPT !.mo = mo3], 0)
    <3>1. /\ FrameSize(Len(data)) <= Space(mo) /\ WriteLen(mo, head) = HeaderSize
          /\ WriteLen(mo1, data) = Len(data) /\ WriteLen(mo2, sum) = CrcSize
      <4>1. FrameSize(n) <= Space(mo)
        BY <1>1, <1>4, <1>5, <1>9
      <4> QED BY <2>2, <2>3, <2>4, <4>1 DEF n
    <3> HIDE DEF mo1, mo2, mo3
    <3>2. ~(FrameSize(Len(data)) > Space(mo))
      BY <1>9 DEF n
    <3> QED BY <3>1, <3>2 DEF PacketWrite, mo3, mo2, mo1, mo, head, sum, data, n
  <2>6. r.ret = 0 /\ r.pak = [mo |-> mo3, left |-> q.left, stat |-> q.stat]
    <3> HIDE DEF mo3
    <3>1. r.ret = 0 /\ r.pak = [q EXCEPT !.mo = mo3]
      BY <2>5, ReturnedFacts
    <3>2. q = [mo |-> q.mo, left |-> q.left, stat |-> q.stat]
      BY PacketRecord
    <3> QED BY <3>1, <3>2
  <2>7. ((c \o head) \o data) \o sum = c \o WrittenFrame(p)
    <3>1. c \o head \in Seq(Byte) /\ head \o data \in Seq(Byte)
      BY <1>1, <1>2, <1>4
    <3>2. (c \o head) \o data = c \o (head \o data)
      BY <1>1, <1>2, <1>4, JoinBytes
    <3>3. (c \o (head \o data)) \o sum = c \o ((head \o data) \o sum)
      <4> DEFINE hd == head \o data
      <4>1. c \in Seq(Byte) /\ hd \in Seq(Byte) /\ sum \in Seq(Byte)
        BY <1>3, <1>4, <3>1
      <4> HIDE DEF hd
      <4>2. (c \o hd) \o sum = c \o (hd \o sum)
        BY <4>1, JoinBytes
      <4> QED BY <4>2 DEF hd
    <3> QED BY <1>6, <3>2, <3>3
  <2> HIDE DEF mo3
  <2>8. Sound(r.pak)
    <3>1. q.left \in 0 .. Top - 1 /\ q.stat \in {SYNC, HEAD, DATA, CRC, PARSE}
          /\ (q.stat = HEAD => q.left \in 1 .. HeaderSize)
      BY SoundFacts DEF Sound
    <3> QED BY <2>4, <2>6, <3>1, MakeSound
  <2> QED BY <1>7, <2>4, <2>6, <2>7, <2>8 DEF c, mo
<1> QED BY <1>8, <1>9

(* The frames of some packets, one behind the other.                       *)
FramesUpTo(f, ps) ==
  /\ f \in [0 .. Len(ps) -> Seq(Byte)] /\ f[0] = << >>
  /\ \A i \in 1 .. Len(ps) : f[i] = f[i - 1] \o WrittenFrame(ps[i])

LEMMA FramesAre ==
  ASSUME NEW ps \in Seq(Outgoing), \A p \in Outgoing : WrittenFrame(p) \in Seq(Byte)
  PROVE  \E f : FramesUpTo(f, ps) /\ Frames(ps) = f[Len(ps)]
<1> DEFINE n == Len(ps)
           Step(h) == [i \in 0 .. n |-> IF i = 0 THEN << >> ELSE h[i - 1] \o WrittenFrame(ps[i])]
           upto == CHOOSE h : h = Step(h)
           step == [i \in 1 .. n |-> [x \in Seq(Byte) |-> x \o WrittenFrame(ps[i])]]
<1>1. Frames(ps) = upto[n]
  BY DEF Frames
<1>2. n \in Nat /\ << >> \in Seq(Byte)
  OBVIOUS
<1>3. ASSUME NEW i \in 1 .. n PROVE WrittenFrame(ps[i]) \in Seq(Byte)
  BY <1>3, ElementOfSeq
<1>4. step \in [1 .. n -> [Seq(Byte) -> Seq(Byte)]]
  <2>1. ASSUME NEW i \in 1 .. n, NEW x \in Seq(Byte) PROVE x \o WrittenFrame(ps[i]) \in Seq(Byte)
    BY <1>3
  <2> QED BY <2>1
<1>5. \A i \in 1 .. n : \A x \in Seq(Byte) : step[i][x] = x \o WrittenFrame(ps[i])
  OBVIOUS
<1> HIDE DEF step, n
<1>6. \E f : Recursive(f, Seq(Byte), << >>, n, step)
  BY <1>2, <1>4, Recursion
<1>7. PICK f : Recursive(f, Seq(Byte), << >>, n, step)
  BY <1>6
<1>8. ASSUME NEW i \in 1 .. n PROVE f[i] = f[i - 1] \o WrittenFrame(ps[i])
  <2>1. i - 1 \in 0 .. n
    BY <1>2
  <2>2. f[i - 1] \in Seq(Byte)
    BY <1>7, <2>1 DEF Recursive
  <2> QED BY <1>5, <1>7, <2>2 DEF Recursive
<1>9. f = Step(f)
  <2>1. f \in [0 .. n -> Seq(Byte)] /\ f[0] = << >>
    BY <1>7 DEF Recursive
  <2>2. ASSUME NEW i \in 0 .. n PROVE f[i] = IF i = 0 THEN << >> ELSE f[i - 1] \o WrittenFrame(ps[i])
    <3>1. i # 0 => i \in 1 .. n
      BY <1>2
    <3> QED BY <1>8, <2>1, <3>1
  <2> QED BY <2>1, <2>2
<1>10. upto = Step(upto)
  <2> HIDE DEF Step
  <2> QED BY <1>9
<1> HIDE DEF upto
<1> DEFINE H == {i \in 0 .. n : upto[i] = f[i]}
<1>11. 0 .. n \subseteq H
  <2>1. 0 \in H
    BY <1>2, <1>7, <1>10 DEF Recursive
  <2>2. ASSUME NEW i \in 1 .. n, i - 1 \in H PROVE i \in H
    <3>1. i \in 0 .. n /\ i # 0
      BY <1>2
    <3>2. upto[i] = upto[i - 1] \o WrittenFrame(ps[i])
      BY <1>10, <3>1
    <3> QED BY <1>8, <2>2, <3>1, <3>2
  <2> HIDE DEF H
  <2> QED BY <1>2, <2>1, <2>2, UpTo
<1>12. upto[n] = f[n]
  <2>1. n \in 0 .. n
    BY <1>2
  <2> QED BY <1>11, <2>1
<1>13. FramesUpTo(f, ps)
  BY <1>7, <1>8 DEF FramesUpTo, Recursive, n
<1> QED BY <1>1, <1>12, <1>13 DEF n

LEMMA FramesAppend ==
  ASSUME NEW ps \in Seq(Outgoing), NEW p \in Outgoing,
         \A x \in Outgoing : WrittenFrame(x) \in Seq(Byte)
  PROVE  /\ Frames(<< >>) = << >> /\ Frames(ps) \in Seq(Byte)
         /\ Frames(Append(ps, p)) = Frames(ps) \o WrittenFrame(p)
<1> DEFINE qs == Append(ps, p)
           n == Len(ps)
<1>1. /\ qs \in Seq(Outgoing) /\ Len(qs) = n + 1 /\ qs[n + 1] = p /\ n \in Nat
      /\ \A i \in 1 .. n : qs[i] = ps[i]
  OBVIOUS
<1>2. << >> \in Seq(Outgoing) /\ Len(<< >>) = 0
  OBVIOUS
<1>3. PICK e : FramesUpTo(e, << >>) /\ Frames(<< >>) = e[Len(<< >>)]
  BY <1>2, FramesAre
<1>4. PICK f : FramesUpTo(f, ps) /\ Frames(ps) = f[n]
  BY FramesAre
<1> HIDE DEF qs
<1>5. PICK h : FramesUpTo(h, qs) /\ Frames(qs) = h[Len(qs)]
  BY <1>1, FramesAre
<1> HIDE DEF n
<1> DEFINE H == {i \in 0 .. n : f[i] = h[i]}
<1>6. 0 .. n \subseteq H
  <2>1. 0 \in H
    BY <1>1, <1>4, <1>5 DEF FramesUpTo
  <2>2. ASSUME NEW i \in 1 .. n, i - 1 \in H PROVE i \in H
    <3>1. i \in 0 .. n /\ i \in 1 .. n + 1
      BY <1>1
    <3>2. f[i] = f[i - 1] \o WrittenFrame(ps[i])
      BY <1>4 DEF FramesUpTo, n
    <3>3. h[i] = h[i - 1] \o WrittenFrame(qs[i])
      BY <1>1, <1>5, <3>1 DEF FramesUpTo
    <3> QED BY <1>1, <2>2, <3>1, <3>2, <3>3
  <2> HIDE DEF H
  <2> QED BY <1>1, <2>1, <2>2, UpTo
<1>7. f[n] = h[n]
  <2>1. n \in 0 .. n
    BY <1>1
  <2> QED BY <1>6, <2>1
<1>8. h[n + 1] = h[n] \o WrittenFrame(p)
  <2>1. n + 1 \in 1 .. n + 1 /\ (n + 1) - 1 = n
    BY <1>1
  <2>2. h[n + 1] = h[(n + 1) - 1] \o WrittenFrame(qs[n + 1])
    BY <1>1, <1>5, <2>1 DEF FramesUpTo
  <2> QED BY <1>1, <2>1, <2>2
<1>9. f[n] \in Seq(Byte)
  <2>1. n \in 0 .. n
    BY <1>1
  <2> QED BY <1>4, <2>1 DEF FramesUpTo, n
<1>10. e[0] = << >>
  BY <1>3 DEF FramesUpTo
<1> QED BY <1>1, <1>2, <1>3, <1>4, <1>5, <1>7, <1>8, <1>9, <1>10 DEF qs

SenderInv == /\ Sound(tx) /\ wire \in Seq(Byte) /\ accepted \in Seq(Outgoing)
             /\ WholeFrames

LEMMA SenderStarts == SenderInit => SenderInv
<1> SUFFICES ASSUME SenderInit PROVE SenderInv
  OBVIOUS
<1>1. tx = NewPacket(SenderMem) /\ wire = << >> /\ accepted = << >>
  BY DEF SenderInit
<1>2. Sound(tx) /\ Contents(tx.mo) = << >>
  <2>1. SenderMem \in [0 .. Size - 1 -> Byte]
    BY SenderAssumption
  <2> QED BY <1>1, <2>1, NewSound
<1>3. Frames(<< >>) = << >>
  <2>1. << >> \in Seq(Outgoing) /\ Len(<< >>) = 0
    OBVIOUS
  <2>2. ASSUME NEW x \in Outgoing PROVE WrittenFrame(x) \in Seq(Byte)
    BY <1>2, WriteWhole
  <2>3. PICK e : FramesUpTo(e, << >>) /\ Frames(<< >>) = e[Len(<< >>)]
    BY <2>1, <2>2, FramesAre
  <2> QED BY <2>1, <2>3 DEF FramesUpTo
<1>4. << >> \o << >> = << >>
  OBVIOUS
<1> QED BY <1>1, <1>2, <1>3, <1>4 DEF SenderInv, WholeFrames

LEMMA SenderStep == SenderInv /\ [SenderNext]_senderVars => SenderInv'
<1> SUFFICES ASSUME SenderInv, [SenderNext]_senderVars PROVE SenderInv'
  OBVIOUS
<1> DEFINE c == Contents(tx.mo)
<1>1. /\ Sound(tx) /\ wire \in Seq(Byte) /\ accepted \in Seq(Outgoing)
      /\ wire \o c = Frames(accepted) /\ Valid(tx.mo) /\ c \in Seq(Byte)
  BY SoundFacts DEF SenderInv, WholeFrames
<1>2. ASSUME NEW p \in Outgoing, CallWrite(p) PROVE SenderInv'
  <2> DEFINE r == PacketWrite(tx, p.id, p.data)
             w == WrittenFrame(p)
  <2>1. /\ tx' = r.pak /\ wire' = wire
        /\ accepted' = IF r.ret = 0 THEN Append(accepted, p) ELSE accepted
    BY <1>2 DEF CallWrite
  <2>2. /\ Sound(r.pak) /\ w \in Seq(Byte)
        /\ \/ r.ret = -1 /\ r.pak = tx
           \/ r.ret = 0 /\ Contents(r.pak.mo) = c \o w
    BY <1>1, WriteWhole
  <2> HIDE DEF r
  <2>3. CASE r.ret = -1 /\ r.pak = tx
    BY <1>1, <2>1, <2>2, <2>3 DEF SenderInv, WholeFrames
  <2>4. CASE r.ret = 0 /\ Contents(r.pak.mo) = c \o w
    <3>1. \A x \in Outgoing : WrittenFrame(x) \in Seq(Byte)
      BY <1>1, WriteWhole
    <3>2. Frames(Append(accepted, p)) = Frames(accepted) \o w
      BY <1>1, <3>1, FramesAppend
    <3>3. wire \o (c \o w) = (wire \o c) \o w
      <4> HIDE DEF c, w
      <4>1. (wire \o c) \o w = wire \o (c \o w)
        BY <1>1, <2>2, JoinBytes
      <4> QED BY <4>1
    <3>4. accepted' = Append(accepted, p) /\ accepted' \in Seq(Outgoing)
      BY <1>1, <2>1, <2>4
    <3>5. wire' \o Contents(tx.mo)' = Frames(accepted)'
      BY <1>1, <2>1, <2>4, <3>2, <3>3, <3>4
    <3> QED BY <1>1, <2>1, <2>2, <3>4, <3>5 DEF SenderInv, WholeFrames
  <2> QED BY <2>2, <2>3, <2>4
<1>3. ASSUME NEW n \in 1 .. MaxDrain, DrainBytes(n) PROVE SenderInv'
  <2> DEFINE data == Copy(tx.mo, 0, n)
             mo == [tx.mo EXCEPT !.rdp = Wrap(@ + Len(data))]
             e == Least(0 + n, Len(c))
  <2>1. /\ wire' = wire \o data /\ accepted' = accepted
        /\ tx' = [tx EXCEPT !.mo.rdp = Wrap(@ + Len(data))]
    BY <1>3 DEF DrainBytes
  <2>2. n \in Nat /\ 0 + n < Modulus /\ 0 \in Nat
    BY SenderAssumption, PacketConstants
  <2>3. data = SubSeq(c, 0 + 1, e)
    BY <1>1, <2>2, CopyIsWindow
  <2>4. Count(tx.mo) = Len(c) /\ Len(c) \in Nat
    BY <1>1, CountIsLen
  <2>5. e \in Nat /\ e <= Len(c) /\ 0 <= e /\ e - 0 = e
    <3> HIDE DEF c
    <3> QED BY <2>2, <2>4 DEF Least
  <2> HIDE DEF e
  <2>6. data \in Seq(Byte) /\ Len(data) = e
    <3> HIDE DEF c, data
    <3> QED BY <1>1, <2>2, <2>3, <2>5, Window
  <2>7. Valid(mo) /\ Contents(mo) = SubSeq(c, e + 1, Len(c))
    <3> HIDE DEF data
    <3>1. mo = [tx.mo EXCEPT !.rdp = Wrap(@ + e)] /\ e \in 0 .. Count(tx.mo)
      BY <2>4, <2>5, <2>6
    <3> HIDE DEF mo
    <3> QED BY <1>1, <3>1, AdvanceTakes
  <2>8. tx' = [mo |-> mo, left |-> tx.left, stat |-> tx.stat]
    <3> HIDE DEF data
    <3>1. tx = [mo |-> tx.mo, left |-> tx.left, stat |-> tx.stat]
      BY <1>1, PacketRecord
    <3>2. tx' = [tx EXCEPT !.mo = mo]
      BY <2>1, <3>1
    <3> HIDE DEF mo
    <3> QED BY <3>1, <3>2
  <2> HIDE DEF mo
  <2>9. Sound(tx')
    <3>1. tx.left \in 0 .. Top - 1 /\ tx.stat \in {SYNC, HEAD, DATA, CRC, PARSE}
          /\ (tx.stat = HEAD => tx.left \in 1 .. HeaderSize)
      BY <1>1, SoundFacts DEF Sound
    <3> QED BY <2>7, <2>8, <3>1, MakeSound
  <2>10. data \o SubSeq(c, e + 1, Len(c)) = c
    <3> HIDE DEF c, data
    <3>1. SubSeq(c, 0 + 1, e) \o SubSeq(c, e + 1, Len(c)) = SubSeq(c, 0 + 1, Len(c))
      <4> DEFINE z == Len(c)
      <4>1. z \in Nat /\ e \in Nat /\ 0 \in Nat /\ 0 <= e /\ e <= z /\ z <= z
        BY <2>2, <2>4, <2>5
      <4>2. z <= Len(c) /\ c \in Seq(Byte)
        BY <1>1, <2>4
      <4> HIDE DEF z
      <4>3. SubSeq(c, 0 + 1, e) \o SubSeq(c, e + 1, z) = SubSeq(c, 0 + 1, z)
        BY <4>1, <4>2, WindowJoin
      <4> QED BY <4>3 DEF z
    <3>2. SubSeq(c, 1, Len(c)) = c
      BY <1>1, SubSeqFull
    <3>3. 0 + 1 = 1
      OBVIOUS
    <3> QED BY <2>3, <3>1, <3>2, <3>3
  <2>11. (wire \o data) \o SubSeq(c, e + 1, Len(c)) = wire \o c
    <3> DEFINE y == SubSeq(c, e + 1, Len(c))
    <3> HIDE DEF c, data
    <3>1. y \in Seq(Byte)
      BY <1>1, <2>4, <2>5, Window
    <3> HIDE DEF y
    <3>2. (wire \o data) \o y = wire \o (data \o y)
      BY <1>1, <2>6, <3>1, JoinBytes
    <3> QED BY <2>10, <3>2 DEF y
  <2> HIDE DEF data
  <2>12. wire' \o Contents(tx.mo)' = Frames(accepted)' /\ wire' \in Seq(Byte)
    <3>1. Contents(tx.mo)' = SubSeq(c, e + 1, Len(c))
      BY <2>7, <2>8
    <3>2. wire \o data \in Seq(Byte)
      BY <1>1, <2>6
    <3> QED BY <1>1, <2>1, <2>11, <3>1, <3>2
  <2> QED BY <1>1, <2>1, <2>9, <2>12 DEF SenderInv, WholeFrames
<1>4. CASE UNCHANGED senderVars
  BY <1>4 DEF senderVars, SenderInv, WholeFrames
<1> QED BY <1>2, <1>3, <1>4 DEF SenderNext

(* bscl_packet_write writes a packet as a whole or not at all, whatever    *)
(* the buffer still holds and wherever it wraps.                           *)
THEOREM SenderWholeFrames == SenderSpec => []WholeFrames
<1>1. SenderInv => WholeFrames
  BY DEF SenderInv
<1> QED BY <1>1, SenderStarts, SenderStep, PTL DEF SenderSpec
=============================================================================
