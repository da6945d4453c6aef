---------------------------- MODULE BufferProofs ----------------------------
(***************************************************************************)
(* For every Size and Modulus that BufferAssumption allows: what each      *)
(* operation of bscl_buffer.h does to the bytes that a buffer holds,       *)
(* wherever its counters and its memory wrap, and from that: the ring      *)
(* keeps its counters and its memory in range, and it is a bounded FIFO of *)
(* bytes.                                                                  *)
(***************************************************************************)
EXTENDS Buffer, ModuloFacts, SequenceTheorems, TLAPS

-----------------------------------------------------------------------------
(* The ring: Size divides Modulus, at least twice. *)
LEMMA SizeFacts ==
  /\ Size \in Nat \ {0}
  /\ Modulus \in Nat \ {0}
  /\ Size < Modulus
<1>1. PICK k \in 2 .. Modulus : Modulus = k * Size
  BY BufferAssumption
<1>2. Size \in Nat \ {0} /\ Modulus \in Nat \ {0}
  BY BufferAssumption
<1>3. k * Size >= 2 * Size
  BY <1>1, <1>2
<1> QED BY <1>1, <1>2, <1>3

(* Wrapping a counter at 2^32 moves no byte in the ring. *)
LEMMA OffsetWrap ==
  ASSUME NEW x \in Int
  PROVE  Offset(Wrap(x)) = Offset(x)
<1>1. PICK k \in 2 .. Modulus : Modulus = k * Size
  BY BufferAssumption
<1>2. (x % Modulus) % Size = x % Size
  <2>1. k \in Nat \ {0}
    BY SizeFacts
  <2> QED BY <1>1, <2>1, ModOfMod, SizeFacts, ZenonT(40)
<1> QED BY <1>2 DEF Offset, Wrap

(* The offset d bytes further on, d less than one turn. *)
LEMMA OffsetStep ==
  ASSUME NEW x \in Int, NEW d \in 0 .. Size - 1
  PROVE  /\ Offset(x) \in 0 .. Size - 1
         /\ Offset(x + d) = IF Offset(x) + d < Size THEN Offset(x) + d
                            ELSE Offset(x) + d - Size
BY ModStep, SizeFacts DEF Offset

-----------------------------------------------------------------------------
(* A memcpy of n bytes, split at the end of the memory or not, puts byte   *)
(* d + 1 of the data d places on, and leaves the rest of the turn alone.   *)
LEMMA PlaceAt ==
  ASSUME NEW buf \in [0 .. Size - 1 -> Byte], NEW data, NEW x \in Int,
         NEW n \in 0 .. Size, NEW d \in 0 .. Size - 1
  PROVE  Place(buf, Offset(x), data, n)[Offset(x + d)] =
           IF d < n THEN data[d + 1] ELSE buf[Offset(x + d)]
<1> DEFINE o == Offset(x)
           j == Offset(x + d)
<1>1. /\ o \in 0 .. Size - 1
      /\ j = IF o + d < Size THEN o + d ELSE o + d - Size
  BY OffsetStep
<1>2. j \in 0 .. Size - 1
  <2> HIDE DEF o, j
  <2> QED BY <1>1, SizeFacts
<1>3. Place(buf, o, data, n)[j] =
        IF o <= j /\ j < o + n THEN data[j - o + 1]
        ELSE IF o + n > Size /\ j < n - (Size - o) THEN data[Size - o + j + 1]
        ELSE buf[j]
  <2> HIDE DEF o, j
  <2> QED BY <1>2 DEF Place
<1> HIDE DEF o, j
<1>4. CASE o + d < Size
  <2>1. j = o + d /\ j - o + 1 = d + 1
    BY <1>1, <1>4, SizeFacts
  <2>2. (o <= j /\ j < o + n) <=> d < n
    BY <1>1, <2>1, SizeFacts
  <2>3. ~(j < n - (Size - o))
    BY <1>1, <1>4, <2>1, SizeFacts
  <2> QED BY <1>3, <2>1, <2>2, <2>3 DEF o, j
<1>5. CASE ~(o + d < Size)
  <2>1. j = o + d - Size /\ Size - o + j + 1 = d + 1
    BY <1>1, <1>5, SizeFacts
  <2>2. ~(o <= j)
    BY <1>1, <2>1, SizeFacts
  <2>3. (o + n > Size /\ j < n - (Size - o)) <=> d < n
    BY <1>1, <1>5, <2>1, SizeFacts
  <2> QED BY <1>3, <2>1, <2>2, <2>3 DEF o, j
<1> QED BY <1>4, <1>5

(* Reading n bytes from a position on, split or not, gives them in order. *)
LEMMA FetchAt ==
  ASSUME NEW buf, NEW x \in Int, NEW n \in 0 .. Size
  PROVE  Fetch(buf, Offset(x), n) = [i \in 1 .. n |-> buf[Offset(x + i - 1)]]
<1> SUFFICES ASSUME NEW i \in 1 .. n
             PROVE  (IF Offset(x) + n <= Size \/ i <= Size - Offset(x)
                     THEN buf[Offset(x) + i - 1]
                     ELSE buf[i - (Size - Offset(x)) - 1])
                    = buf[Offset(x + i - 1)]
  BY DEF Fetch
<1> DEFINE o == Offset(x)
<1>1. i - 1 \in 0 .. Size - 1 /\ x + (i - 1) = x + i - 1
  BY SizeFacts
<1>2. /\ o \in 0 .. Size - 1
      /\ Offset(x + i - 1) = IF o + (i - 1) < Size THEN o + (i - 1)
                             ELSE o + (i - 1) - Size
  BY <1>1, OffsetStep
<1> HIDE DEF o
<1>3. (o + n <= Size \/ i <= Size - o) <=> o + (i - 1) < Size
  BY <1>2, SizeFacts
<1>4. /\ o + i - 1 = o + (i - 1)
      /\ i - (Size - o) - 1 = o + (i - 1) - Size
  BY <1>2, SizeFacts
<1> QED BY <1>2, <1>3, <1>4 DEF o

-----------------------------------------------------------------------------
(* A buffer in a legal state, and the facts every operation starts from. *)
Valid(b) == b \in BufferType /\ Count(b) <= Size

LEMMA ValidFacts ==
  ASSUME NEW b, Valid(b)
  PROVE  /\ b.wrp \in Int /\ b.rdp \in Int
         /\ b.buf \in [0 .. Size - 1 -> Byte]
         /\ Count(b) \in 0 .. Size
         /\ Space(b) = Size - Count(b)
<1>1. /\ b.wrp \in Int /\ b.rdp \in Int
      /\ b.buf \in [0 .. Size - 1 -> Byte]
  BY SizeFacts DEF Valid, BufferType
<1>2. b.wrp - b.rdp \in Int
  BY <1>1
<1>3. Count(b) \in 0 .. Modulus - 1
  BY <1>2, ModRange, SizeFacts DEF Count, Wrap
<1>4. Count(b) \in 0 .. Size
  BY <1>3, SizeFacts DEF Valid
<1>5. Size - Count(b) \in 0 .. Modulus - 1
  BY <1>4, SizeFacts
<1>6. Space(b) = Size - Count(b)
  BY <1>5, ModSmall, SizeFacts DEF Space, Wrap
<1> QED BY <1>1, <1>4, <1>6

(* Wrapped counters stay in range. *)
LEMMA WrapRange ==
  ASSUME NEW x \in Int
  PROVE  Wrap(x) \in 0 .. Modulus - 1
BY ModRange, SizeFacts DEF Wrap

(* A write moves the count up, by as much. *)
LEMMA CountAfterWrite ==
  ASSUME NEW b, Valid(b), NEW n \in 0 .. Size - Count(b)
  PROVE  Wrap(Wrap(b.wrp + n) - b.rdp) = Count(b) + n
<1>1. /\ b.wrp \in Int /\ b.rdp \in Int /\ n \in Nat
      /\ Modulus \in Nat \ {0} /\ Count(b) + n < Modulus
  BY ValidFacts, SizeFacts
<1> QED BY <1>1, DistanceUp DEF Count, Wrap

(* A read or a drop moves the count down, by as much. *)
LEMMA CountAfterDrop ==
  ASSUME NEW b, Valid(b), NEW m \in 0 .. Count(b)
  PROVE  Wrap(b.wrp - Wrap(b.rdp + m)) = Count(b) - m
<1>1. b.wrp \in Int /\ b.rdp \in Int /\ Modulus \in Nat \ {0}
  BY ValidFacts, SizeFacts
<1> QED BY <1>1, DistanceDown DEF Count, Wrap

(* The write offset is Count bytes past the read offset. *)
LEMMA WriteOffset ==
  ASSUME NEW b, Valid(b), NEW d \in Int
  PROVE  Offset(b.wrp + d) = Offset(b.rdp + Count(b) + d)
<1>1. /\ b.wrp \in Int /\ b.rdp \in Int /\ Count(b) \in Int
      /\ Modulus \in Nat \ {0} /\ Size \in Nat \ {0}
  BY ValidFacts, SizeFacts
<1>2. Wrap(b.rdp + Count(b)) = Wrap(b.wrp)
  BY <1>1, FrontIsRear DEF Count, Wrap
<1>3. Offset(b.rdp + Count(b)) = Offset(b.wrp)
  BY <1>1, <1>2, OffsetWrap
<1>4. ((b.wrp % Size) + d) % Size = (b.wrp + d) % Size
  BY <1>1, ModAdd
<1>5. (((b.rdp + Count(b)) % Size) + d) % Size = (b.rdp + Count(b) + d) % Size
  <2>1. b.rdp + Count(b) \in Int
    BY <1>1
  <2> QED BY <1>1, <2>1, ModAdd
<1> QED BY <1>3, <1>4, <1>5 DEF Offset

-----------------------------------------------------------------------------
(* The contents are a sequence of Count bytes. *)
LEMMA ContentsSeq ==
  ASSUME NEW b, Valid(b)
  PROVE  /\ Contents(b) \in Seq(Byte)
         /\ Len(Contents(b)) = Count(b)
         /\ \A i \in 1 .. Count(b) : Contents(b)[i] = b.buf[Offset(b.rdp + i - 1)]
<1>1. /\ b.rdp \in Int /\ b.buf \in [0 .. Size - 1 -> Byte]
      /\ Count(b) \in Nat /\ Size \in Nat \ {0}
  BY ValidFacts, SizeFacts
<1>2. ASSUME NEW i \in 1 .. Count(b)
      PROVE  b.buf[Offset(b.rdp + i - 1)] \in Byte
  <2>1. b.rdp + i - 1 \in Int
    BY <1>1
  <2>2. Offset(b.rdp + i - 1) \in 0 .. Size - 1
    BY <1>1, <2>1, ModRange DEF Offset
  <2> QED BY <1>1, <2>2
<1>3. Contents(b) \in [1 .. Count(b) -> Byte]
  BY <1>2 DEF Contents
<1> QED BY <1>1, <1>3 DEF Contents

(* n bytes of data placed at the write offset join the tail. *)
LEMMA PlaceAppends ==
  ASSUME NEW b, Valid(b), NEW data \in Seq(Byte),
         NEW n \in 0 .. Len(data), n <= Size - Count(b),
         NEW b2, b2 = [b EXCEPT !.buf = Place(@, Offset(b.wrp), data, n),
                                !.wrp = Wrap(@ + n)]
  PROVE  /\ Valid(b2)
         /\ Contents(b2) = Contents(b) \o SubSeq(data, 1, n)
<1> DEFINE c == Count(b)
<1>1. /\ b.wrp \in Int /\ b.rdp \in Int /\ c \in 0 .. Size
      /\ b.buf \in [0 .. Size - 1 -> Byte]
      /\ Size \in Nat \ {0} /\ n \in 0 .. Size /\ n \in 0 .. Size - c
      /\ b \in BufferType
  BY ValidFacts, SizeFacts DEF Valid
<1>2. /\ b2.buf = Place(b.buf, Offset(b.wrp), data, n)
      /\ b2.wrp = Wrap(b.wrp + n) /\ b2.rdp = b.rdp
      /\ b2 = [buf |-> b2.buf, wrp |-> b2.wrp, rdp |-> b2.rdp]
  BY <1>1 DEF BufferType
<1>3. Count(b2) = c + n
  BY <1>1, <1>2, CountAfterWrite DEF Count
<1>4. ASSUME NEW d \in 0 .. Size - 1
      PROVE  b2.buf[Offset(b.wrp + d)] =
               IF d < n THEN data[d + 1] ELSE b.buf[Offset(b.wrp + d)]
  <2> DEFINE f == b.buf
             w == b.wrp
  <2>1. f \in [0 .. Size - 1 -> Byte] /\ w \in Int /\ n \in 0 .. Size
    BY <1>1
  <2> HIDE DEF f, w
  <2>2. Place(f, Offset(w), data, n)[Offset(w + d)] =
          IF d < n THEN data[d + 1] ELSE f[Offset(w + d)]
    BY <2>1, PlaceAt
  <2> QED BY <2>2, <1>2 DEF f, w
<1>5. ASSUME NEW i \in 1 .. c
      PROVE  b2.buf[Offset(b.rdp + i - 1)] = b.buf[Offset(b.rdp + i - 1)]
  <2> DEFINE d == Size - c + i - 1
  <2>1. d \in 0 .. Size - 1 /\ ~(d < n)
    BY <1>1
  <2>2. Offset(b.wrp + d) = Offset(b.rdp + c + d)
    BY <2>1, WriteOffset
  <2>3. b.rdp + c + d = (b.rdp + i - 1) + Size * 1
    BY <1>1
  <2>4. Offset((b.rdp + i - 1) + Size * 1) = Offset(b.rdp + i - 1)
    <3>1. b.rdp + i - 1 \in Int /\ 1 \in Int
      BY <1>1
    <3> QED BY <1>1, <3>1, ModShift DEF Offset
  <2>5. Offset(b.wrp + d) = Offset(b.rdp + i - 1)
    BY <2>2, <2>3, <2>4
  <2> HIDE DEF d
  <2> QED BY <2>1, <2>5, <1>4
<1>6. ASSUME NEW i \in 1 .. n
      PROVE  b2.buf[Offset(b.rdp + (c + i) - 1)] = data[i]
  <2>1. i - 1 \in 0 .. Size - 1 /\ i - 1 < n /\ (i - 1) + 1 = i
    BY <1>1
  <2>2. Offset(b.wrp + (i - 1)) = Offset(b.rdp + c + (i - 1))
    BY <2>1, WriteOffset
  <2>3. b.rdp + c + (i - 1) = b.rdp + (c + i) - 1
    BY <1>1
  <2> QED BY <2>1, <2>2, <2>3, <1>4
<1>7. Valid(b2)
  <2>1. b2.buf \in [0 .. Size - 1 -> Byte]
    <3> SUFFICES ASSUME NEW j \in 0 .. Size - 1
                 PROVE  b2.buf[j] \in Byte
      BY <1>2 DEF Place
    <3> DEFINE o == Offset(b.wrp)
    <3>1. o \in 0 .. Size - 1
      BY <1>1, ModRange DEF Offset
    <3> HIDE DEF o
    <3>2. b2.buf[j] = IF o <= j /\ j < o + n THEN data[j - o + 1]
                      ELSE IF o + n > Size /\ j < n - (Size - o)
                           THEN data[Size - o + j + 1] ELSE b.buf[j]
      BY <1>2 DEF Place, o
    <3>3. (o <= j /\ j < o + n) => j - o + 1 \in 1 .. Len(data)
      BY <3>1, <1>1
    <3>4. (o + n > Size /\ j < n - (Size - o)) =>
             Size - o + j + 1 \in 1 .. Len(data)
      BY <3>1, <1>1, SMTT(30)
    <3>5. \A k \in 1 .. Len(data) : data[k] \in Byte
      OBVIOUS
    <3> QED BY <1>1, <3>2, <3>3, <3>4, <3>5
  <2>2. b2.wrp \in 0 .. Modulus - 1 /\ b2.rdp \in 0 .. Modulus - 1
    BY <1>1, <1>2, WrapRange DEF BufferType
  <2>3. Count(b2) <= Size
    BY <1>1, <1>3
  <2> QED BY <1>2, <2>1, <2>2, <2>3 DEF Valid, BufferType
<1>8. /\ Contents(b2) \in Seq(Byte) /\ Len(Contents(b2)) = c + n
      /\ \A i \in 1 .. c + n : Contents(b2)[i] = b2.buf[Offset(b.rdp + i - 1)]
  BY <1>2, <1>3, <1>7, ContentsSeq
<1>9. /\ Contents(b) \in Seq(Byte) /\ Len(Contents(b)) = c
      /\ \A i \in 1 .. c : Contents(b)[i] = b.buf[Offset(b.rdp + i - 1)]
  BY ContentsSeq
<1>12. c \in Nat
  BY <1>1
<1> HIDE DEF c
<1>13. Contents(b2) = [i \in 1 .. c + n |-> Contents(b2)[i]]
  <2>1. c + n \in Nat
    BY <1>12
  <2> QED BY <2>1, <1>8, SeqAsFunction
<1>10. ASSUME NEW i \in 1 .. c + n
       PROVE  Contents(b2)[i] = IF i <= c THEN Contents(b)[i] ELSE data[i - c]
  <2>1. CASE i <= c
    <3>1. i \in 1 .. c
      BY <1>1, <1>12, <2>1
    <3>2. b2.buf[Offset(b.rdp + i - 1)] = b.buf[Offset(b.rdp + i - 1)]
      BY <3>1, <1>5
    <3> QED BY <3>1, <3>2, <2>1, <1>8, <1>9
  <2>2. CASE ~(i <= c)
    <3>1. i - c \in 1 .. n /\ c + (i - c) = i
      BY <1>1, <2>2
    <3>2. b2.buf[Offset(b.rdp + (c + (i - c)) - 1)] = data[i - c]
      BY <3>1, <1>6
    <3> QED BY <2>2, <3>1, <3>2, <1>8
  <2> QED BY <2>1, <2>2
<1>11. Contents(b) \o SubSeq(data, 1, n) =
         [i \in 1 .. c + n |-> IF i <= c THEN Contents(b)[i] ELSE data[i - c]]
  <2> HIDE DEF Contents
  <2> QED BY <1>1, <1>9, SMTT(30)
<1> QED BY <1>7, <1>10, <1>11, <1>13

(* Moving the read counter by m bytes takes them from the front. *)
LEMMA AdvanceTakes ==
  ASSUME NEW b, Valid(b), NEW m \in 0 .. Count(b),
         NEW b2, b2 = [b EXCEPT !.rdp = Wrap(@ + m)]
  PROVE  /\ Valid(b2)
         /\ Contents(b2) = SubSeq(Contents(b), m + 1, Len(Contents(b)))
<1> DEFINE c == Count(b)
<1>1. /\ b.wrp \in Int /\ b.rdp \in Int /\ c \in 0 .. Size
      /\ Size \in Nat \ {0} /\ m \in Nat /\ m <= c
      /\ b \in BufferType
  BY ValidFacts, SizeFacts DEF Valid
<1>2. /\ b2.buf = b.buf /\ b2.wrp = b.wrp /\ b2.rdp = Wrap(b.rdp + m)
      /\ b2 \in BufferType
  <2>1. Wrap(b.rdp + m) \in 0 .. Modulus - 1
    BY <1>1, WrapRange
  <2> QED BY <1>1, <2>1 DEF BufferType
<1>3. Count(b2) = c - m
  BY <1>1, <1>2, CountAfterDrop DEF Count
<1>4. Valid(b2)
  BY <1>1, <1>2, <1>3 DEF Valid
<1>5. /\ Contents(b2) \in Seq(Byte) /\ Len(Contents(b2)) = c - m
      /\ \A i \in 1 .. c - m : Contents(b2)[i] = b2.buf[Offset(b2.rdp + i - 1)]
  BY <1>3, <1>4, ContentsSeq
<1>6. /\ Contents(b) \in Seq(Byte) /\ Len(Contents(b)) = c
      /\ \A i \in 1 .. c : Contents(b)[i] = b.buf[Offset(b.rdp + i - 1)]
  BY ContentsSeq
<1>7. ASSUME NEW i \in 1 .. c - m
      PROVE  Contents(b2)[i] = Contents(b)[i + m]
  <2>1. Offset(Wrap(b.rdp + m) + i - 1) = Offset(b.rdp + (i + m) - 1)
    <3>1. b.rdp + m \in Int /\ i - 1 \in Int
      BY <1>1
    <3>2. Wrap(b.rdp + m) \in Int
      BY <3>1, WrapRange, SizeFacts
    <3>3. Offset(Wrap(b.rdp + m)) = Offset(b.rdp + m)
      BY <3>1, OffsetWrap
    <3>4. ((Wrap(b.rdp + m) % Size) + (i - 1)) % Size
            = (Wrap(b.rdp + m) + (i - 1)) % Size
      BY <1>1, <3>1, <3>2, ModAdd
    <3>5. (((b.rdp + m) % Size) + (i - 1)) % Size = ((b.rdp + m) + (i - 1)) % Size
      BY <1>1, <3>1, ModAdd
    <3>6. /\ (b.rdp + m) + (i - 1) = b.rdp + (i + m) - 1
          /\ Wrap(b.rdp + m) + (i - 1) = Wrap(b.rdp + m) + i - 1
      BY <1>1, <3>2
    <3> QED BY <3>3, <3>4, <3>5, <3>6 DEF Offset
  <2>2. i + m \in 1 .. c
    BY <1>1
  <2> QED BY <1>2, <1>5, <1>6, <2>1, <2>2
<1>8. c \in Nat /\ m \in 0 .. c
  BY <1>1
<1> HIDE DEF c
<1>9. SubSeq(Contents(b), m + 1, Len(Contents(b))) =
        [i \in 1 .. c - m |-> Contents(b)[i + m]]
  BY <1>6, <1>8
<1>10. Contents(b2) = [i \in 1 .. c - m |-> Contents(b2)[i]]
  <2>1. c - m \in Nat
    BY <1>8
  <2> QED BY <2>1, <1>5, SeqAsFunction
<1> QED BY <1>4, <1>7, <1>9, <1>10

(* buffer_copy hands out a window of the contents. *)
LEMMA CopyIsWindow ==
  ASSUME NEW b, Valid(b), NEW begin \in Nat, NEW len \in Nat,
         begin + len < Modulus
  PROVE  Copy(b, begin, len) =
           SubSeq(Contents(b), begin + 1, Least(begin + len, Len(Contents(b))))
<1> DEFINE c == Count(b)
           e == Least(begin + len, c)
<1>1. /\ b.rdp \in Int /\ c \in 0 .. Size /\ Size \in Nat \ {0}
  BY ValidFacts, SizeFacts
<1>2. Wrap(len + begin) = begin + len
  <2>1. len + begin \in 0 .. Modulus - 1
    BY SizeFacts
  <2> QED BY <2>1, ModSmall, SizeFacts DEF Wrap
<1>3. /\ Contents(b) \in Seq(Byte) /\ Len(Contents(b)) = c
      /\ \A i \in 1 .. c : Contents(b)[i] = b.buf[Offset(b.rdp + i - 1)]
  BY ContentsSeq
<1>4. e \in 0 .. c
  BY <1>1 DEF Least
<1>5. SubSeq(Contents(b), begin + 1, e) =
        [i \in 1 .. e - begin |-> Contents(b)[i + begin]]
  <2> HIDE DEF c, e
  <2> QED BY <1>3, <1>4
<1>6. CASE c < begin
  <2>1. Copy(b, begin, len) = << >>
    BY <1>6 DEF Copy
  <2>2. e <= c
    BY <1>4, <1>1
  <2> HIDE DEF c, e
  <2>3. SubSeq(Contents(b), begin + 1, e) = << >>
    BY <1>3, <1>4, <1>6, <2>2, <1>1
  <2> QED BY <2>1, <2>3, <1>3 DEF e
<1>7. CASE ~(c < begin)
  <2> DEFINE n == IF c < begin + len THEN c - begin ELSE len
  <2>1. n = e - begin /\ n \in 0 .. Size /\ begin + n <= c
    BY <1>1, <1>7 DEF Least
  <2>2. Copy(b, begin, len) = Fetch(b.buf, Offset(b.rdp + begin), n)
    BY <1>2, <1>7 DEF Copy
  <2>3. b.rdp + begin \in Int
    BY <1>1
  <2> HIDE DEF n
  <2>4. Fetch(b.buf, Offset(b.rdp + begin), n) =
          [i \in 1 .. n |-> b.buf[Offset((b.rdp + begin) + i - 1)]]
    <3> DEFINE x == b.rdp + begin
               buf == b.buf
    <3>1. x \in Int /\ n \in 0 .. Size
      BY <2>1, <2>3
    <3> HIDE DEF x, buf
    <3>2. Fetch(buf, Offset(x), n) = [i \in 1 .. n |-> buf[Offset(x + i - 1)]]
      BY <3>1, FetchAt
    <3> QED BY <3>2 DEF x, buf
  <2>5. ASSUME NEW i \in 1 .. n
        PROVE  b.buf[Offset((b.rdp + begin) + i - 1)] = Contents(b)[i + begin]
    <3>1. i + begin \in 1 .. c
      BY <2>1, <1>1
    <3>2. (b.rdp + begin) + i - 1 = b.rdp + (i + begin) - 1
      BY <1>1, <2>1
    <3> QED BY <3>1, <3>2, <1>3
  <2> HIDE DEF e
  <2> QED BY <2>1, <2>2, <2>4, <2>5, <1>5, <1>3 DEF e
<1> QED BY <1>6, <1>7

(* buffer_putc is a buffer_write of one byte. *)
LEMMA PutcIsWrite ==
  ASSUME NEW b, Valid(b), NEW x \in Byte
  PROVE  Putc(b, x) = Write(b, << x >>) /\ PutcRet(b) = WriteLen(b, << x >>)
<1>1. /\ b.wrp \in Int /\ b.buf \in [0 .. Size - 1 -> Byte]
      /\ Count(b) \in 0 .. Size /\ Space(b) = Size - Count(b)
      /\ Size \in Nat \ {0} /\ b \in BufferType
  BY ValidFacts, SizeFacts DEF Valid
<1>2. WriteLen(b, << x >>) = IF IsFull(b) THEN 0 ELSE 1
  BY <1>1 DEF WriteLen, Least, IsFull
<1> DEFINE o == Offset(b.wrp)
<1>3. o \in 0 .. Size - 1
  BY <1>1, ModRange DEF Offset
<1> HIDE DEF o
<1>4. CASE IsFull(b)
  <2>1. Place(b.buf, o, << x >>, 0) = b.buf
    BY <1>1, <1>3 DEF Place
  <2>2. Wrap(b.wrp + 0) = b.wrp
    <3>1. b.wrp \in 0 .. Modulus - 1 /\ b.wrp + 0 = b.wrp
      BY <1>1, SizeFacts DEF BufferType
    <3> QED BY <3>1, ModSmall, SizeFacts DEF Wrap
  <2>3. Write(b, << x >>) = b
    BY <1>1, <1>2, <1>4, <2>1, <2>2 DEF Write, BufferType, o
  <2> QED BY <1>2, <1>4, <2>3 DEF Putc, PutcRet
<1>5. CASE ~IsFull(b)
  <2>1. Place(b.buf, o, << x >>, 1) = [b.buf EXCEPT ![o] = x]
    <3>1. \A j \in 0 .. Size - 1 : Place(b.buf, o, << x >>, 1)[j] =
                                     IF j = o THEN x ELSE b.buf[j]
      <4> SUFFICES ASSUME NEW j \in 0 .. Size - 1
                   PROVE  Place(b.buf, o, << x >>, 1)[j] =
                            IF j = o THEN x ELSE b.buf[j]
        OBVIOUS
      <4>1. (o <= j /\ j < o + 1) <=> j = o
        BY <1>1, <1>3
      <4>2. ~(o + 1 > Size)
        BY <1>1, <1>3
      <4>3. j = o => << x >>[j - o + 1] = x
        BY <1>3
      <4> QED BY <4>1, <4>2, <4>3 DEF Place
    <3> QED BY <1>1, <1>3, <3>1 DEF Place
  <2>2. Write(b, << x >>) = [b EXCEPT !.buf[o] = x, !.wrp = Wrap(@ + 1)]
    BY <1>1, <1>2, <1>5, <2>1 DEF Write, BufferType, o
  <2> QED BY <1>2, <1>5, <2>2 DEF Putc, PutcRet, o
<1> QED BY <1>4, <1>5

-----------------------------------------------------------------------------
(* The operations as their callers see them.                               *)
LEMMA LeastFacts ==
  ASSUME NEW m \in Int, NEW n \in Int
  PROVE  /\ Least(m, n) \in Int /\ Least(m, n) <= m /\ Least(m, n) <= n
         /\ m <= n => Least(m, n) = m
         /\ n <= m => Least(m, n) = n
BY DEF Least

LEMMA CountIsLen ==
  ASSUME NEW b, Valid(b)
  PROVE  /\ Contents(b) \in Seq(Byte) /\ Len(Contents(b)) = Count(b)
         /\ Count(b) \in 0 .. Size /\ Count(b) \in Nat /\ Size \in Nat
BY ContentsSeq, ValidFacts, SizeFacts

(* buffer_write of what fits appends it all.                               *)
LEMMA WriteAppends ==
  ASSUME NEW b, Valid(b), NEW data \in Seq(Byte), Len(data) <= Size - Count(b)
  PROVE  /\ Valid(Write(b, data))
         /\ WriteLen(b, data) = Len(data)
         /\ Contents(Write(b, data)) = Contents(b) \o data
         /\ Count(Write(b, data)) = Count(b) + Len(data)
<1> DEFINE n == Len(data)
<1>1. n \in Nat /\ Count(b) \in 0 .. Size /\ Space(b) = Size - Count(b) /\ Size \in Nat
  BY ValidFacts, SizeFacts
<1>2. WriteLen(b, data) = n
  BY <1>1 DEF WriteLen, Least
<1>3. Write(b, data) = [b EXCEPT !.buf = Place(@, Offset(b.wrp), data, n), !.wrp = Wrap(@ + n)]
  BY <1>2 DEF Write
<1>4. n \in 0 .. Len(data)
  BY <1>1
<1>5. /\ Valid(Write(b, data))
      /\ Contents(Write(b, data)) = Contents(b) \o SubSeq(data, 1, n)
  BY <1>3, <1>4, PlaceAppends, ZenonT(40)
<1>6. SubSeq(data, 1, n) = data
  BY SubSeqFull
<1>7. Len(Contents(b) \o data) = Count(b) + n
  BY ContentsSeq, ConcatProperties
<1> QED BY <1>2, <1>5, <1>6, <1>7, ContentsSeq

(* buffer_drop takes from the front.                                       *)
LEMMA DropTakes ==
  ASSUME NEW b, Valid(b), NEW m \in Nat, NEW k, k = Least(Count(b), m)
  PROVE  /\ Valid(Drop(b, m)) /\ k \in 0 .. Count(b)
         /\ Contents(Drop(b, m)) = SubSeq(Contents(b), k + 1, Count(b))
         /\ Count(Drop(b, m)) = Count(b) - k
<1>1. Count(b) \in Nat /\ Len(Contents(b)) = Count(b) /\ Contents(b) \in Seq(Byte)
  BY CountIsLen
<1>2. k \in 0 .. Count(b)
  BY <1>1 DEF Least
<1>3. Drop(b, m) = [b EXCEPT !.rdp = Wrap(@ + k)]
  BY DEF Drop, DropLen
<1>4. /\ Valid(Drop(b, m))
      /\ Contents(Drop(b, m)) = SubSeq(Contents(b), k + 1, Count(b))
  BY <1>1, <1>2, <1>3, AdvanceTakes
<1>5. Len(SubSeq(Contents(b), k + 1, Count(b))) = Count(b) - k
  BY <1>1, <1>2
<1> QED BY <1>2, <1>4, <1>5, ContentsSeq

(* buffer_copy_word within the contents; dropping shifts it.               *)
LEMMA WordAt ==
  ASSUME NEW b, Valid(b), NEW i \in Nat, i < Count(b)
  PROVE  CopyWord(b, i) = Contents(b)[i + 1] /\ CopyWord(b, i) \in Byte
<1>1. i + 1 \in 1 .. Count(b) /\ b.rdp + (i + 1) - 1 = b.rdp + i
  BY ValidFacts
<1>2. Contents(b)[i + 1] = b.buf[Offset(b.rdp + (i + 1) - 1)]
  BY <1>1, ContentsSeq
<1>3. Contents(b)[i + 1] \in Byte
  BY <1>1, ContentsSeq
<1> QED BY <1>1, <1>2, <1>3 DEF CopyWord

(* A copy of what is there.                                                *)
LEMMA CopyWhole ==
  ASSUME NEW b, Valid(b), NEW begin \in Nat, NEW len \in Nat,
         begin + len <= Count(b)
  PROVE  Copy(b, begin, len) = SubSeq(Contents(b), begin + 1, begin + len)
<1>1. Count(b) \in 0 .. Size /\ Size < Modulus /\ Size \in Nat /\ Modulus \in Nat
  BY ValidFacts, SizeFacts
<1>2. begin + len < Modulus
  BY <1>1
<1>3. Least(begin + len, Count(b)) = begin + len
  BY <1>1 DEF Least
<1> QED BY <1>2, <1>3, CopyIsWindow, ContentsSeq

-----------------------------------------------------------------------------
(* What one call does to the buffer and returns, in terms of the FIFO. *)
LEMMA WriteStep ==
  ASSUME CountsHold, NEW k \in Request, NEW data \in [1 .. k -> Byte], DoWrite(data)
  PROVE  CountsHold' /\ Fifo!Append_(data)
<1> DEFINE n == WriteLen(buffer, data)
<1>1. /\ Valid(buffer) /\ data \in Seq(Byte) /\ Len(data) = k /\ k \in 0 .. MaxCall
      /\ MaxCall \in Nat
  BY RequestAssumption DEF CountsHold, Valid, Request
<1>2. /\ Count(buffer) \in 0 .. Size /\ Space(buffer) = Size - Count(buffer) /\ Size \in Nat
      /\ Len(Contents(buffer)) = Count(buffer)
  BY <1>1, ValidFacts, ContentsSeq, SizeFacts
<1>3. /\ n \in 0 .. Len(data) /\ n <= Size - Count(buffer) /\ n \in 0 .. MaxCall
      /\ n = Fifo!Smaller(Len(data), Size - Len(Contents(buffer)))
  BY <1>1, <1>2 DEF WriteLen, Least, Fifo!Smaller
<1>4. buffer' = [buffer EXCEPT !.buf = Place(@, Offset(buffer.wrp), data, n),
                       !.wrp = Wrap(@ + n)]
  BY DEF DoWrite, Write
<1>5. out' = [call |-> "write", args |-> data, ret |-> n, data |-> << >>]
  BY DEF DoWrite, Result
<1> HIDE DEF n
<1>6. Valid(buffer') /\ Contents(buffer') = Contents(buffer) \o SubSeq(data, 1, n)
  BY <1>1, <1>3, <1>4, PlaceAppends
<1>7. CountsHold'
  BY <1>3, <1>5, <1>6 DEF CountsHold, Valid
<1>8. Fifo!Append_(data)
  BY <1>3, <1>5, <1>6 DEF Fifo!Append_, Fifo!Result
<1> QED BY <1>7, <1>8

(* Copying m bytes out of the front and moving the read counter past them. *)
LEMMA ReadStep ==
  ASSUME CountsHold, NEW k \in Request, DoRead(k)
  PROVE  CountsHold' /\ Fifo!Take(k)
<1> DEFINE m == Least(k, Len(Contents(buffer)))
<1>1. /\ Valid(buffer) /\ k \in 0 .. MaxCall /\ MaxCall \in Nat /\ k < Modulus
  BY RequestAssumption, SizeFacts DEF CountsHold, Valid, Request
<1>2. /\ Contents(buffer) \in Seq(Byte) /\ Len(Contents(buffer)) = Count(buffer)
      /\ Count(buffer) \in 0 .. Size /\ Size \in Nat
  BY <1>1, ValidFacts, ContentsSeq, SizeFacts
<1>3. m \in 0 .. Count(buffer) /\ m \in 0 .. MaxCall /\ m = Fifo!Smaller(k, Len(Contents(buffer)))
  BY <1>1, <1>2 DEF Least, Fifo!Smaller
<1> HIDE DEF m
<1>4. Copy(buffer, 0, k) = SubSeq(Contents(buffer), 1, m)
  <2>1. 0 + k < Modulus /\ k \in Nat /\ 0 \in Nat /\ 0 + k = k /\ 0 + 1 = 1
    BY <1>1
  <2>2. Copy(buffer, 0, k) =
          SubSeq(Contents(buffer), 0 + 1, Least(0 + k, Len(Contents(buffer))))
    BY <1>1, <2>1, CopyIsWindow
  <2> QED BY <2>1, <2>2 DEF m
<1>5. Copy(buffer, 0, k) \in Seq(Byte) /\ Len(Copy(buffer, 0, k)) = m
  BY <1>2, <1>3, <1>4
<1>6. /\ buffer' = [buffer EXCEPT !.rdp = Wrap(@ + m)]
      /\ out' = [call |-> "read", args |-> << k >>, ret |-> m,
                 data |-> Copy(buffer, 0, k)]
  BY <1>5 DEF DoRead, Result
<1>7. /\ Valid(buffer')
      /\ Contents(buffer') = SubSeq(Contents(buffer), m + 1, Len(Contents(buffer)))
  BY <1>1, <1>3, <1>6, AdvanceTakes
<1>8. CountsHold'
  BY <1>3, <1>5, <1>6, <1>7 DEF CountsHold, Valid
<1>9. Fifo!Take(k)
  BY <1>3, <1>4, <1>6, <1>7 DEF Fifo!Take, Fifo!Result
<1> QED BY <1>8, <1>9

LEMMA DropStep ==
  ASSUME CountsHold, NEW k \in Request, DoDrop(k)
  PROVE  CountsHold' /\ Fifo!Discard(k)
<1> DEFINE m == DropLen(buffer, k)
<1>1. /\ Valid(buffer) /\ k \in 0 .. MaxCall /\ MaxCall \in Nat
  BY RequestAssumption DEF CountsHold, Valid, Request
<1>2. /\ Len(Contents(buffer)) = Count(buffer) /\ Count(buffer) \in 0 .. Size /\ Size \in Nat
  BY <1>1, ValidFacts, ContentsSeq, SizeFacts
<1>3. m \in 0 .. Count(buffer) /\ m \in 0 .. MaxCall /\ m = Fifo!Smaller(k, Len(Contents(buffer)))
  BY <1>1, <1>2 DEF DropLen, Least, Fifo!Smaller
<1>4. /\ buffer' = [buffer EXCEPT !.rdp = Wrap(@ + m)]
      /\ out' = [call |-> "drop", args |-> << k >>, ret |-> m, data |-> << >>]
  BY DEF DoDrop, Drop, Result
<1> HIDE DEF m
<1>5. /\ Valid(buffer')
      /\ Contents(buffer') = SubSeq(Contents(buffer), m + 1, Len(Contents(buffer)))
  BY <1>1, <1>3, <1>4, AdvanceTakes
<1>6. CountsHold'
  BY <1>3, <1>4, <1>5 DEF CountsHold, Valid
<1>7. Fifo!Discard(k)
  BY <1>3, <1>4, <1>5 DEF Fifo!Discard, Fifo!Result
<1> QED BY <1>6, <1>7

LEMMA CopyStep ==
  ASSUME CountsHold, NEW begin \in Request, NEW k \in Request, DoCopy(begin, k)
  PROVE  CountsHold' /\ Fifo!Peek(begin, k)
<1> DEFINE data == Copy(buffer, begin, k)
           e == Least(begin + k, Len(Contents(buffer)))
<1>1. /\ Valid(buffer) /\ begin \in Nat /\ k \in Nat /\ k <= MaxCall /\ MaxCall \in Nat
      /\ begin + k < Modulus
  BY RequestAssumption, SizeFacts DEF CountsHold, Valid, Request
<1>2. data = SubSeq(Contents(buffer), begin + 1, e)
  BY <1>1, CopyIsWindow
<1>3. /\ Contents(buffer) \in Seq(Byte) /\ Len(Contents(buffer)) = Count(buffer)
      /\ Count(buffer) \in 0 .. Size /\ Size \in Nat
  BY <1>1, ValidFacts, ContentsSeq, SizeFacts
<1>4. /\ e = Fifo!Smaller(begin + k, Len(Contents(buffer)))
      /\ e \in 0 .. Len(Contents(buffer)) /\ e <= begin + k
  BY <1>1, <1>3 DEF Least, Fifo!Smaller
<1>5. /\ buffer' = buffer
      /\ out' = [call |-> "copy", args |-> << begin, k >>, ret |-> Len(data),
                 data |-> data]
  BY DEF DoCopy, Result
<1> HIDE DEF data, e
<1>6. data \in Seq(Byte) /\ Len(data) \in 0 .. MaxCall
  <2> DEFINE s == Contents(buffer)
  <2>1. s \in Seq(Byte) /\ e \in 0 .. Len(s) /\ data = SubSeq(s, begin + 1, e)
    BY <1>2, <1>3, <1>4
  <2> HIDE DEF s
  <2>2. /\ SubSeq(s, begin + 1, e) \in Seq(Byte)
        /\ Len(SubSeq(s, begin + 1, e)) = IF begin <= e THEN e - begin ELSE 0
    BY <1>1, <2>1
  <2>3. (IF begin <= e THEN e - begin ELSE 0) \in 0 .. MaxCall
    BY <1>1, <1>4, <2>1
  <2> QED BY <2>1, <2>2, <2>3
<1>7. CountsHold'
  BY <1>1, <1>5, <1>6 DEF CountsHold, Valid
<1>8. Fifo!Peek(begin, k)
  BY <1>2, <1>4, <1>5 DEF Fifo!Peek, Fifo!Result
<1> QED BY <1>7, <1>8

LEMMA CleanStep ==
  ASSUME CountsHold, DoClean
  PROVE  CountsHold' /\ Fifo!Flush
<1>1. /\ Valid(buffer) /\ MaxCall \in Nat
      /\ out' = [call |-> "clean", args |-> << >>, ret |-> 0, data |-> << >>]
  BY RequestAssumption DEF CountsHold, Valid, DoClean, Result
<1>2. /\ buffer' = [buffer EXCEPT !.rdp = buffer.wrp]
      /\ buffer' \in BufferType /\ buffer'.wrp = buffer.wrp /\ buffer'.rdp = buffer.wrp
  BY <1>1 DEF DoClean, Clean, Valid, BufferType
<1>3. Count(buffer') = 0
  <2>1. buffer.wrp - buffer.wrp = 0
    BY <1>1, ValidFacts
  <2>2. 0 % Modulus = 0
    BY SizeFacts
  <2> QED BY <1>2, <2>1, <2>2 DEF Count, Wrap
<1>4. Valid(buffer')
  BY <1>2, <1>3, SizeFacts DEF Valid
<1>5. Contents(buffer') \in Seq(Byte) /\ Len(Contents(buffer')) = 0
  BY <1>3, <1>4, ContentsSeq
<1>6. Contents(buffer') = << >>
  <2> DEFINE s == Contents(buffer')
  <2>1. s \in Seq(Byte) /\ Len(s) = 0
    BY <1>5
  <2> HIDE DEF s
  <2>2. s = << >>
    BY <2>1
  <2> QED BY <2>2 DEF s
<1>7. CountsHold'
  BY <1>1, <1>4 DEF CountsHold, Valid
<1>8. Fifo!Flush
  BY <1>1, <1>6 DEF Fifo!Flush, Fifo!Result
<1> QED BY <1>7, <1>8

(* Every call keeps the types, and is a call of the FIFO. *)
LEMMA StepRefines ==
  CountsHold /\ [BufferNext]_bufferVars => CountsHold' /\ [Fifo!Next]_(Fifo!vars)
<1> SUFFICES ASSUME CountsHold, [BufferNext]_bufferVars
             PROVE  CountsHold' /\ [Fifo!Next]_(Fifo!vars)
  OBVIOUS
<1>1. ASSUME NEW k \in Request, NEW data \in [1 .. k -> Byte], DoWrite(data)
      PROVE  CountsHold' /\ Fifo!Next
  <2>1. CountsHold' /\ Fifo!Append_(data)
    BY <1>1, WriteStep
  <2> QED BY <2>1 DEF Fifo!Next, Fifo!Request, Request
<1>2. ASSUME NEW x \in Byte, DoPutc(x)
      PROVE  CountsHold' /\ Fifo!Next
  <2> DEFINE data == [i \in 1 .. 1 |-> x]
  <2>1. data = << x >> /\ data \in [1 .. 1 -> Byte] /\ 1 \in Request
    BY RequestAssumption DEF Request
  <2>2. Valid(buffer)
    BY DEF CountsHold, Valid
  <2>3. Putc(buffer, x) = Write(buffer, << x >>) /\ PutcRet(buffer) = WriteLen(buffer, << x >>)
    BY <2>2, PutcIsWrite
  <2> HIDE DEF data
  <2>4. DoWrite(data)
    BY <1>2, <2>1, <2>3 DEF DoPutc, DoWrite
  <2> QED BY <1>1, <2>1, <2>4
<1>3. ASSUME NEW begin \in Request, NEW k \in Request, DoCopy(begin, k)
      PROVE  CountsHold' /\ Fifo!Next
  <2>1. CountsHold' /\ Fifo!Peek(begin, k)
    BY <1>3, CopyStep
  <2> QED BY <2>1 DEF Fifo!Next, Fifo!Request, Request
<1>4. ASSUME NEW k \in Request, DoRead(k)
      PROVE  CountsHold' /\ Fifo!Next
  <2>1. CountsHold' /\ Fifo!Take(k)
    BY <1>4, ReadStep
  <2> QED BY <2>1 DEF Fifo!Next, Fifo!Request, Request
<1>5. ASSUME NEW k \in Request, DoDrop(k)
      PROVE  CountsHold' /\ Fifo!Next
  <2>1. CountsHold' /\ Fifo!Discard(k)
    BY <1>5, DropStep
  <2> QED BY <2>1 DEF Fifo!Next, Fifo!Request, Request
<1>6. ASSUME DoClean
      PROVE  CountsHold' /\ Fifo!Next
  <2>1. CountsHold' /\ Fifo!Flush
    BY <1>6, CleanStep
  <2> QED BY <2>1 DEF Fifo!Next
<1>7. ASSUME UNCHANGED bufferVars
      PROVE  CountsHold' /\ UNCHANGED Fifo!vars
  <2>1. buffer' = buffer /\ out' = out
    BY <1>7 DEF bufferVars
  <2> QED BY <2>1 DEF CountsHold, Fifo!vars
<1> QED BY <1>1, <1>2, <1>3, <1>4, <1>5, <1>6, <1>7 DEF BufferNext

LEMMA InitRefines == BufferInit => CountsHold /\ Fifo!Init
<1> SUFFICES ASSUME BufferInit PROVE CountsHold /\ Fifo!Init
  OBVIOUS
<1>1. /\ buffer \in BufferType /\ buffer.wrp = 0 /\ buffer.rdp = 0
      /\ out = [call |-> "init", args |-> << >>, ret |-> 0, data |-> << >>]
  BY SizeFacts DEF BufferInit, BufferType, Result
<1>2. Count(buffer) = 0
  BY <1>1, SizeFacts DEF Count, Wrap
<1>3. Valid(buffer)
  BY <1>1, <1>2, SizeFacts DEF Valid
<1>4. Contents(buffer) \in Seq(Byte) /\ Len(Contents(buffer)) = 0
  BY <1>2, <1>3, ContentsSeq
<1>5. Contents(buffer) = << >>
  <2> DEFINE s == Contents(buffer)
  <2>1. s \in Seq(Byte) /\ Len(s) = 0
    BY <1>4
  <2> HIDE DEF s
  <2>2. s = << >>
    BY <2>1
  <2> QED BY <2>2 DEF s
<1>6. CountsHold
  BY <1>1, <1>3, RequestAssumption DEF CountsHold, Valid
<1>7. Fifo!Init
  BY <1>1, <1>5 DEF Fifo!Init, Fifo!Result
<1> QED BY <1>6, <1>7

(* Type correctness, with the count of bytes never above the memory, for  *)
(* every ring size and every wrap-around of the two counters.              *)
THEOREM BufferCountsHold == BufferSpec => []CountsHold
<1>1. BufferInit => CountsHold
  BY InitRefines
<1>2. CountsHold /\ [BufferNext]_bufferVars => CountsHold'
  BY StepRefines
<1> QED BY <1>1, <1>2, PTL DEF BufferSpec

(* The ring is a bounded FIFO: no call of bscl_buffer.h loses, reorders or *)
(* overwrites a byte that is still to be read, wherever the counters are.  *)
THEOREM BufferRefinesFifo == BufferSpec => RefinesFifo
<1>1. BufferInit => Fifo!Init
  BY InitRefines
<1>2. CountsHold /\ [BufferNext]_bufferVars => [Fifo!Next]_(Fifo!vars)
  BY StepRefines
<1> QED BY <1>1, <1>2, BufferCountsHold, PTL DEF BufferSpec, RefinesFifo, Fifo!Spec
=============================================================================
