-------------------------- MODULE RingBufferProofs --------------------------
(***************************************************************************)
(* For every Capacity, Modulus and MaxLen that RingAssumption allows: the  *)
(* two threads of src/bscl_ringbuffer.c, which no lock orders, never touch *)
(* the same slot, and the ring is a bounded FIFO of bytes.                 *)
(***************************************************************************)
EXTENDS RingBuffer, ModuloFacts, TLAPS

-----------------------------------------------------------------------------
(* The ring: Capacity divides Modulus, at least twice. *)
LEMMA RingFacts ==
  /\ Capacity \in Nat \ {0} /\ Modulus \in Nat \ {0} /\ MaxLen \in Nat \ {0}
  /\ Capacity < Modulus
<1>1. PICK k \in 2 .. Modulus : Modulus = k * Capacity
  BY RingAssumption
<1>2. Capacity \in Nat \ {0} /\ Modulus \in Nat \ {0} /\ MaxLen \in Nat \ {0}
  BY RingAssumption
<1>3. k * Capacity >= 2 * Capacity
  BY <1>1, <1>2
<1> QED BY <1>1, <1>2, <1>3

LEMMA WrapRange ==
  ASSUME NEW x \in Int
  PROVE  Wrap(x) \in 0 .. Modulus - 1
BY ModRange, RingFacts DEF Wrap

LEMMA SlotRange ==
  ASSUME NEW x \in Int
  PROVE  Slot(x) \in 0 .. Capacity - 1
BY ModRange, RingFacts DEF Slot

(* Where an index wraps, and by how much, moves no slot. *)
LEMMA SlotWrap ==
  ASSUME NEW x \in Int, NEW d \in Int
  PROVE  Slot(Wrap(x) + d) = Slot(x + d)
<1>1. PICK k \in 2 .. Modulus : Modulus = k * Capacity
  BY RingAssumption
<1>2. (x % Modulus) % Capacity = x % Capacity
  <2>1. k \in Nat \ {0} /\ Capacity \in Nat \ {0}
    BY RingFacts
  <2> QED BY <1>1, <2>1, ModOfMod, Zenon
<1>3. Wrap(x) \in Int
  BY WrapRange, RingFacts
<1>4. ((Wrap(x) % Capacity) + d) % Capacity = (Wrap(x) + d) % Capacity
  BY <1>3, ModAdd, RingFacts
<1>5. ((x % Capacity) + d) % Capacity = (x + d) % Capacity
  BY ModAdd, RingFacts
<1> QED BY <1>2, <1>4, <1>5 DEF Slot, Wrap

(* Positions less than a turn apart are different slots. *)
LEMMA SlotApart ==
  ASSUME NEW x \in Int, NEW d \in 1 .. Capacity - 1
  PROVE  Slot(x + d) # Slot(x)
<1> DEFINE o == x % Capacity
<1>1. d \in 0 .. Capacity - 1
  BY RingFacts
<1>2. /\ o \in 0 .. Capacity - 1
      /\ (x + d) % Capacity = IF o + d < Capacity THEN o + d ELSE o + d - Capacity
  BY <1>1, ModStep, RingFacts
<1> HIDE DEF o
<1>3. (x + d) % Capacity # o
  BY <1>2, RingFacts
<1> QED BY <1>3 DEF Slot, o

(* The writer's slots are those that follow the bytes held. *)
LEMMA SlotOfTail ==
  ASSUME rIndex \in Int, wIndex \in Int, NEW d \in Int
  PROVE  Slot(wIndex + d) = Slot(rIndex + (RingSize + d))
<1>1. RingSize \in Int
  <2>1. wIndex - rIndex \in Int
    OBVIOUS
  <2> QED BY <2>1, WrapRange, RingFacts DEF RingSize
<1>2. Wrap(rIndex + RingSize) = Wrap(wIndex)
  BY FrontIsRear, RingFacts DEF RingSize, Wrap
<1>3. rIndex + RingSize \in Int
  BY <1>1
<1>4. /\ Slot(Wrap(rIndex + RingSize) + d) = Slot((rIndex + RingSize) + d)
      /\ Slot(Wrap(wIndex) + d) = Slot(wIndex + d)
  BY <1>3, SlotWrap
<1>5. (rIndex + RingSize) + d = rIndex + (RingSize + d)
  BY <1>1
<1> QED BY <1>2, <1>4, <1>5

(* A slot of the space is none of the bytes held. *)
LEMMA SpaceIsFree ==
  ASSUME rIndex \in Int, wIndex \in Int, RingSize \in Nat,
         NEW d \in Nat, d < Capacity - RingSize, NEW j \in 0 .. RingSize - 1
  PROVE  Slot(wIndex + d) # Slot(rIndex + j)
<1>1. Slot(wIndex + d) = Slot(rIndex + (RingSize + d))
  <2>1. d \in Int
    OBVIOUS
  <2> QED BY <2>1, SlotOfTail
<1> DEFINE e == RingSize + d - j
           x == rIndex + j
<1>2. e \in 1 .. Capacity - 1 /\ x \in Int /\ x + e = rIndex + (RingSize + d)
  BY RingFacts
<1> HIDE DEF e, x
<1>3. Slot(x + e) # Slot(x)
  BY <1>2, SlotApart
<1> QED BY <1>1, <1>2, <1>3 DEF x

-----------------------------------------------------------------------------
(* The inductive invariant.  Each thread works with what it saw when its   *)
(* call began, which the other may have changed meanwhile: the space seen  *)
(* by the writer, and the bytes seen by the reader, are still there; and   *)
(* what has been copied is in the memory, or came from it.                 *)
IndexInv ==
  /\ data \in [0 .. Capacity - 1 -> Byte]
  /\ rIndex \in 0 .. Modulus - 1 /\ wIndex \in 0 .. Modulus - 1
  /\ RingSize \in 0 .. Capacity

WriterInv ==
  /\ writer \in [at : {"idle", "copy"}, src : Seq(Byte), len : Nat, done : Nat]
  /\ writer.len <= Len(writer.src) /\ writer.len <= Capacity - RingSize
  /\ writer.done <= writer.len
  /\ \A i \in 0 .. writer.done - 1 : data[Slot(wIndex + i)] = writer.src[i + 1]

ReaderInv ==
  /\ reader \in [at : {"idle", "copy", "clear"}, size : Nat, dst : Seq(Byte)]
  /\ reader.size <= RingSize /\ Len(reader.dst) <= reader.size
  /\ reader.at = "idle" => reader = ReaderIdle
  /\ \A i \in 1 .. Len(reader.dst) : reader.dst[i] = data[Slot(rIndex + i - 1)]

IInv == IndexInv /\ WriterInv /\ ReaderInv

LEMMA IndexFacts ==
  ASSUME IndexInv
  PROVE  /\ rIndex \in Int /\ wIndex \in Int /\ RingSize \in Nat
         /\ RingSize <= Capacity
BY RingFacts DEF IndexInv

LEMMA ClearedFacts ==
  ASSUME IInv
  PROVE  Cleared \in Nat /\ Cleared <= RingSize /\ RingSize - Cleared \in Nat
<1>1. RingSize \in Nat /\ reader.size \in Nat /\ reader.size <= RingSize
  BY IndexFacts DEF IInv, ReaderInv
<1> QED BY <1>1 DEF Cleared

(* The types, and the absence of a race, follow. *)
LEMMA InvTypes == IInv => TypeOK
BY RingFacts DEF IInv, IndexInv, WriterInv, ReaderInv, TypeOK

LEMMA InvNoRace == IInv => NoRace
<1> SUFFICES ASSUME IInv, writer.at = "copy", reader.at = "copy",
                    NEW i \in 0 .. writer.len - 1, NEW j \in 0 .. reader.size - 1
             PROVE  Slot(wIndex + i) # Slot(rIndex + j)
  BY DEF NoRace, Filling, Copying
<1>1. /\ rIndex \in Int /\ wIndex \in Int /\ RingSize \in Nat
      /\ i \in Nat /\ i < Capacity - RingSize /\ j \in 0 .. RingSize - 1
  BY IndexFacts, RingFacts DEF IInv, WriterInv, ReaderInv
<1> QED BY <1>1, SpaceIsFree

(* What n bytes of memory from position r on are, as a sequence. *)
HeldBy(mem, r, n) == [i \in 1 .. n |-> mem[Slot(r + i - 1)]]

LEMMA HeldSeq ==
  ASSUME NEW mem \in [0 .. Capacity - 1 -> Byte], NEW r \in Int, NEW n \in Nat
  PROVE  HeldBy(mem, r, n) \in Seq(Byte) /\ Len(HeldBy(mem, r, n)) = n
<1>1. ASSUME NEW i \in 1 .. n
      PROVE  mem[Slot(r + i - 1)] \in Byte
  <2>1. r + i - 1 \in Int
    OBVIOUS
  <2> QED BY <2>1, SlotRange
<1>2. HeldBy(mem, r, n) \in [1 .. n -> Byte]
  BY <1>1 DEF HeldBy
<1> QED BY <1>2, FunctionIsSeq

LEMMA HeldIs == Held = HeldBy(data, rIndex + Cleared, RingSize - Cleared)
BY DEF Held, HeldBy

LEMMA HeldIsAll ==
  ASSUME IInv, reader.at # "clear"
  PROVE  Cleared = 0 /\ Held = HeldBy(data, rIndex, RingSize)
<1>1. /\ rIndex \in Int /\ RingSize \in Nat
      /\ Cleared = 0 /\ rIndex + 0 = rIndex /\ RingSize - 0 = RingSize
  BY IndexFacts DEF IInv, Cleared
<1> QED BY <1>1, HeldIs

(* A counter that has gone around is at the same slots. *)
LEMMA HeldWraps ==
  ASSUME NEW mem, NEW r \in Int, NEW n \in Nat
  PROVE  HeldBy(mem, Wrap(r), n) = HeldBy(mem, r, n)
<1>1. ASSUME NEW i \in 1 .. n
      PROVE  Slot(Wrap(r) + i - 1) = Slot(r + i - 1)
  <2>1. Wrap(r) \in Int
    BY WrapRange, RingFacts
  <2>2. i - 1 \in Int /\ Wrap(r) + (i - 1) = Wrap(r) + i - 1 /\ r + (i - 1) = r + i - 1
    BY <2>1
  <2> QED BY <2>2, SlotWrap
<1> QED BY <1>1 DEF HeldBy

(* The contents when n more bytes are in the ring, *)
LEMMA HeldGrows ==
  ASSUME NEW mem \in [0 .. Capacity - 1 -> Byte], NEW r \in Int, NEW n \in Nat,
         NEW src \in Seq(Byte), NEW k \in 0 .. Len(src),
         \A i \in 0 .. k - 1 : mem[Slot(r + (n + i))] = src[i + 1]
  PROVE  HeldBy(mem, r, n + k) = HeldBy(mem, r, n) \o SubSeq(src, 1, k)
<1> DEFINE old == HeldBy(mem, r, n)
           new == SubSeq(src, 1, k)
<1>1. /\ old \in Seq(Byte) /\ n = Len(old) /\ new \in Seq(Byte) /\ k = Len(new)
      /\ new = [i \in 1 .. k |-> src[i]] /\ k \in Nat
  BY HeldSeq, PrefixFacts
<1>2. \A i \in 1 .. n : old[i] = mem[Slot(r + i - 1)]
  BY DEF HeldBy
<1> HIDE DEF old, new
<1>3. old \o new = [i \in 1 .. n + k |-> IF i <= n THEN old[i] ELSE new[i - n]]
  BY <1>1, ConcatAsFunction
<1>4. ASSUME NEW i \in 1 .. n + k
      PROVE  mem[Slot(r + i - 1)] = IF i <= n THEN old[i] ELSE new[i - n]
  <2>1. CASE i <= n
    BY <1>2, <2>1
  <2>2. CASE ~(i <= n)
    <3>1. i - n \in 1 .. k /\ (i - n) - 1 \in 0 .. k - 1
          /\ r + (n + ((i - n) - 1)) = r + i - 1 /\ ((i - n) - 1) + 1 = i - n
      BY <1>1, <2>2
    <3>2. mem[Slot(r + (n + ((i - n) - 1)))] = src[((i - n) - 1) + 1]
      BY <3>1
    <3>3. new[i - n] = src[i - n]
      BY <1>1, <3>1
    <3> QED BY <2>2, <3>1, <3>2, <3>3
  <2> QED BY <2>1, <2>2
<1>5. HeldBy(mem, r, n + k) = [i \in 1 .. n + k |-> mem[Slot(r + i - 1)]]
  BY DEF HeldBy
<1> QED BY <1>3, <1>4, <1>5 DEF old, new

(* and when m have left it. *)
LEMMA HeldShrinks ==
  ASSUME NEW mem \in [0 .. Capacity - 1 -> Byte], NEW r \in Int, NEW n \in Nat,
         NEW m \in 0 .. n
  PROVE  HeldBy(mem, Wrap(r + m), n - m) = SubSeq(HeldBy(mem, r, n), m + 1, n)
<1> DEFINE old == HeldBy(mem, r, n)
<1>1. old \in Seq(Byte) /\ Len(old) = n
  BY HeldSeq
<1>2. \A i \in 1 .. n : old[i] = mem[Slot(r + i - 1)]
  BY DEF HeldBy
<1> HIDE DEF old
<1>3. SubSeq(old, m + 1, n) = [i \in 1 .. n - m |-> old[i + m]]
  BY <1>1, SuffixAsFunction
<1>4. ASSUME NEW i \in 1 .. n - m
      PROVE  mem[Slot(Wrap(r + m) + i - 1)] = old[i + m]
  <2>1. r + m \in Int /\ i - 1 \in Int /\ i + m \in 1 .. n
    OBVIOUS
  <2>2. Slot(Wrap(r + m) + (i - 1)) = Slot((r + m) + (i - 1))
    BY <2>1, SlotWrap
  <2>3. Wrap(r + m) \in Int
    BY <2>1, WrapRange, RingFacts
  <2>4. /\ (r + m) + (i - 1) = r + (i + m) - 1
        /\ Wrap(r + m) + (i - 1) = Wrap(r + m) + i - 1
    BY <2>3
  <2> QED BY <1>2, <2>1, <2>2, <2>4
<1>5. HeldBy(mem, Wrap(r + m), n - m) = [i \in 1 .. n - m |-> mem[Slot(Wrap(r + m) + i - 1)]]
  BY DEF HeldBy
<1> QED BY <1>3, <1>4, <1>5 DEF old

-----------------------------------------------------------------------------
(* The steps.  Each keeps the invariant, and is a call of the FIFO or no   *)
(* change of it. *)
LEMMA HeldStays ==
  ASSUME UNCHANGED <<data, rIndex, wIndex>>
  PROVE  /\ RingSize' = RingSize /\ (IndexInv => IndexInv')
         /\ Cleared' = Cleared => Held' = Held
BY DEF RingSize, Held, IndexInv

LEMMA WriteBeginStep ==
  ASSUME IInv, NEW src \in Seq(Byte), WriteBegin(src)
  PROVE  IInv' /\ UNCHANGED <<Held, out>>
<1>1. UNCHANGED <<data, rIndex, wIndex, reader, out>>
  BY DEF WriteBegin
<1>2. RingSize' = RingSize /\ Held' = Held /\ IndexInv'
  BY <1>1, HeldStays DEF IInv, Cleared
<1>3. ReaderInv'
  BY <1>1, <1>2 DEF IInv, ReaderInv
<1>4. Wrap(Capacity - RingSize) = Capacity - RingSize
  <2>1. Capacity - RingSize \in 0 .. Modulus - 1
    BY IndexFacts, RingFacts DEF IInv
  <2> QED BY <2>1, ModSmall, RingFacts DEF Wrap
<1>5. PICK w : w = writer'
  OBVIOUS
<1>6. w = [at |-> "copy", src |-> src, done |-> 0, len |-> Smaller(Len(src), Capacity - RingSize)]
  BY <1>4, <1>5 DEF WriteBegin
<1>7. PICK n : n = Smaller(Len(src), Capacity - RingSize)
  OBVIOUS
<1>8. n \in Nat /\ n <= Len(src) /\ n <= Capacity - RingSize
  BY <1>7, IndexFacts, RingFacts DEF IInv, Smaller
<1>9. /\ w \in [at : {"idle", "copy"}, src : Seq(Byte), len : Nat, done : Nat]
      /\ w.src = src /\ w.len = n /\ w.done = 0
  BY <1>6, <1>7, <1>8
<1>10. WriterInv'
  BY <1>1, <1>2, <1>5, <1>8, <1>9 DEF WriterInv
<1> QED BY <1>1, <1>2, <1>3, <1>10 DEF IInv

(* The byte goes to a slot of the space the writer saw. *)
LEMMA WriteByteStep ==
  ASSUME IInv, WriteByte
  PROVE  IInv' /\ UNCHANGED <<Held, out>>
<1> DEFINE p == Slot(wIndex + writer.done)
           x == writer.src[writer.done + 1]
<1>1. /\ writer.done < writer.len /\ data' = [data EXCEPT ![p] = x]
      /\ UNCHANGED <<rIndex, wIndex, reader, out>>
  BY DEF WriteByte
<1>2. /\ rIndex \in Int /\ wIndex \in Int /\ RingSize \in Nat /\ RingSize <= Capacity
      /\ data \in [0 .. Capacity - 1 -> Byte] /\ Capacity \in Nat
  BY IndexFacts, RingFacts DEF IInv, IndexInv
<1>3. /\ writer.src \in Seq(Byte) /\ writer.len \in Nat /\ writer.done \in Nat
      /\ writer.len <= Len(writer.src) /\ writer.len <= Capacity - RingSize
      /\ \A i \in 0 .. writer.done - 1 : data[Slot(wIndex + i)] = writer.src[i + 1]
  BY DEF IInv, WriterInv
<1>4. x \in Byte
  <2>1. writer.done + 1 \in 1 .. Len(writer.src)
    BY <1>1, <1>3
  <2> QED BY <1>3, <2>1
<1>5. p \in 0 .. Capacity - 1
  <2>1. wIndex + writer.done \in Int
    BY <1>2, <1>3
  <2> QED BY <2>1, SlotRange
<1>6. \A j \in 0 .. RingSize - 1 : p # Slot(rIndex + j)
  <2>1. writer.done < Capacity - RingSize
    BY <1>1, <1>2, <1>3
  <2> QED BY <1>2, <1>3, <2>1, SpaceIsFree
<1>7. \A i \in 0 .. writer.done - 1 : p # Slot(wIndex + i)
  <2> SUFFICES ASSUME NEW i \in 0 .. writer.done - 1 PROVE p # Slot(wIndex + i)
    OBVIOUS
  <2>1. /\ wIndex + i \in Int /\ writer.done - i \in 1 .. Capacity - 1
        /\ (wIndex + i) + (writer.done - i) = wIndex + writer.done
    BY <1>1, <1>2, <1>3
  <2> QED BY <2>1, SlotApart
<1> HIDE DEF p, x
<1>8. /\ data' \in [0 .. Capacity - 1 -> Byte]
      /\ \A q \in 0 .. Capacity - 1 : data'[q] = IF q = p THEN x ELSE data[q]
  BY <1>1, <1>2, <1>4, <1>5
<1>9. \A j \in 0 .. RingSize - 1 : data'[Slot(rIndex + j)] = data[Slot(rIndex + j)]
  <2> SUFFICES ASSUME NEW j \in 0 .. RingSize - 1
               PROVE  data'[Slot(rIndex + j)] = data[Slot(rIndex + j)]
    OBVIOUS
  <2>1. rIndex + j \in Int
    BY <1>2
  <2> QED BY <1>6, <1>8, <2>1, SlotRange
<1>10. RingSize' = RingSize
  BY <1>1 DEF RingSize
<1>11. ASSUME NEW i \in 1 .. RingSize
       PROVE  data'[Slot(rIndex + i - 1)] = data[Slot(rIndex + i - 1)]
  <2>1. i - 1 \in 0 .. RingSize - 1 /\ rIndex + (i - 1) = rIndex + i - 1
    BY <1>2
  <2> QED BY <1>9, <2>1
<1>12. Held' = Held
  <2>1. Cleared' = Cleared /\ Cleared \in Nat /\ Cleared <= RingSize
    BY <1>1, ClearedFacts DEF Cleared
  <2>2. ASSUME NEW i \in 1 .. RingSize - Cleared
        PROVE  data'[Slot(rIndex + Cleared + i - 1)] = data[Slot(rIndex + Cleared + i - 1)]
    <3>1. /\ Cleared + i \in 1 .. RingSize
          /\ rIndex + (Cleared + i) - 1 = rIndex + Cleared + i - 1
      BY <1>2, <2>1
    <3>2. data'[Slot(rIndex + (Cleared + i) - 1)] = data[Slot(rIndex + (Cleared + i) - 1)]
      BY <1>11, <3>1
    <3> QED BY <3>1, <3>2
  <2> QED BY <1>1, <1>10, <2>1, <2>2 DEF Held
<1>13. IndexInv'
  BY <1>1, <1>8, <1>10 DEF IInv, IndexInv
<1>14. WriterInv'
  <2>1. PICK w : w = writer' /\ w = [writer EXCEPT !.done = @ + 1]
    BY DEF WriteByte
  <2>2. /\ w \in [at : {"idle", "copy"}, src : Seq(Byte), len : Nat, done : Nat]
        /\ w.src = writer.src /\ w.len = writer.len /\ w.done = writer.done + 1
    BY <2>1, <1>3 DEF IInv, WriterInv
  <2>3. ASSUME NEW i \in 0 .. w.done - 1
        PROVE  data'[Slot(wIndex + i)] = w.src[i + 1]
    <3>1. Slot(wIndex + i) \in 0 .. Capacity - 1
      <4>1. wIndex + i \in Int
        BY <1>2
      <4> QED BY <4>1, SlotRange
    <3>2. CASE i = writer.done
      BY <1>8, <2>2, <3>1, <3>2 DEF p, x
    <3>3. CASE i # writer.done
      <4>1. i \in 0 .. writer.done - 1
        BY <1>3, <2>2, <3>3
      <4> QED BY <1>3, <1>7, <1>8, <2>2, <3>1, <4>1
    <3> QED BY <3>2, <3>3
  <2>4. w.done <= w.len
    BY <1>1, <1>3, <2>2
  <2> QED BY <1>1, <1>3, <1>10, <2>1, <2>2, <2>3, <2>4 DEF WriterInv
<1>15. ReaderInv'
  <2>1. /\ reader.size \in Nat /\ reader.dst \in Seq(Byte)
        /\ reader.size <= RingSize /\ Len(reader.dst) <= reader.size
    BY DEF IInv, ReaderInv
  <2>2. \A i \in 1 .. Len(reader.dst) : i \in 1 .. RingSize
    BY <1>2, <2>1
  <2>3. \A i \in 1 .. Len(reader.dst) : reader.dst[i] = data'[Slot(rIndex + i - 1)]
    BY <1>11, <2>2 DEF IInv, ReaderInv
  <2> QED BY <1>1, <1>10, <2>3 DEF IInv, ReaderInv
<1> QED BY <1>1, <1>12, <1>13, <1>14, <1>15 DEF IInv

(* The slots filled become the tail of what is held. *)
LEMMA WriteEndStep ==
  ASSUME IInv, WriteEnd
  PROVE  IInv' /\ Fifo!Next
<1> DEFINE src == writer.src
           k == writer.len
           new == SubSeq(src, 1, k)
<1>1. /\ writer.done = k /\ wIndex' = Wrap(wIndex + k) /\ writer' = WriterIdle
      /\ out' = Result("write", new, k, << >>)
      /\ UNCHANGED <<data, rIndex, reader>>
  BY DEF WriteEnd
<1>2. /\ rIndex \in Int /\ wIndex \in Int /\ RingSize \in Nat /\ RingSize <= Capacity
      /\ data \in [0 .. Capacity - 1 -> Byte] /\ Capacity \in Nat
  BY IndexFacts, RingFacts DEF IInv, IndexInv
<1>3. /\ src \in Seq(Byte) /\ k \in Nat /\ k <= Len(src) /\ k <= Capacity - RingSize
      /\ \A i \in 0 .. k - 1 : data[Slot(wIndex + i)] = src[i + 1]
  BY <1>1 DEF IInv, WriterInv
<1> HIDE DEF src, k
<1>4. RingSize' = RingSize + k
  <2>1. ((wIndex - rIndex) % Modulus) + k < Modulus
    BY <1>2, <1>3, RingFacts DEF RingSize, Wrap
  <2>2. (((wIndex + k) % Modulus) - rIndex) % Modulus = ((wIndex - rIndex) % Modulus) + k
    BY <1>2, <1>3, <2>1, DistanceUp, RingFacts, ZenonT(40)
  <2> QED BY <1>1, <2>2 DEF RingSize, Wrap
<1>5. IndexInv'
  <2>1. wIndex + k \in Int
    BY <1>2, <1>3
  <2>2. wIndex' \in 0 .. Modulus - 1
    BY <1>1, <2>1, WrapRange
  <2>3. RingSize + k \in 0 .. Capacity
    BY <1>2, <1>3
  <2> QED BY <1>1, <1>4, <2>2, <2>3 DEF IInv, IndexInv
<1>6. WriterInv'
  <2>1. PICK w : w = writer'
    OBVIOUS
  <2>2. w = [at |-> "idle", src |-> << >>, len |-> 0, done |-> 0]
    BY <1>1, <2>1 DEF WriterIdle
  <2>3. /\ w \in [at : {"idle", "copy"}, src : Seq(Byte), len : Nat, done : Nat]
        /\ w.src = << >> /\ w.len = 0 /\ w.done = 0
    BY <2>2
  <2>4. Len(w.src) \in Nat
    BY <2>3
  <2>5. 0 <= Capacity - RingSize'
    BY <1>2, <1>3, <1>4
  <2> QED BY <2>1, <2>3, <2>4, <2>5 DEF WriterInv
<1>7. ReaderInv'
  <2>1. RingSize <= RingSize' /\ RingSize' \in Nat
    BY <1>2, <1>3, <1>4
  <2>2. reader.size \in Nat /\ reader.size <= RingSize
    BY DEF IInv, ReaderInv
  <2>3. reader.size <= RingSize'
    BY <1>2, <2>1, <2>2
  <2> QED BY <1>1, <2>3 DEF IInv, ReaderInv
<1>8. Held' = Held \o new
  <2>1. \A i \in 0 .. k - 1 : data[Slot(rIndex + (RingSize + i))] = src[i + 1]
    <3> SUFFICES ASSUME NEW i \in 0 .. k - 1
                 PROVE  data[Slot(rIndex + (RingSize + i))] = src[i + 1]
      OBVIOUS
    <3>1. Slot(wIndex + i) = Slot(rIndex + (RingSize + i))
      <4>1. i \in Int
        OBVIOUS
      <4> QED BY <1>2, <4>1, SlotOfTail
    <3> QED BY <1>3, <3>1
  <2>2. k \in 0 .. Len(src)
    BY <1>3
  <2> DEFINE r == rIndex + Cleared
             n == RingSize - Cleared
  <2>3. r \in Int /\ n \in Nat /\ Cleared' = Cleared /\ RingSize' - Cleared = n + k
    BY <1>1, <1>2, <1>3, <1>4, ClearedFacts DEF Cleared
  <2>4. \A i \in 0 .. k - 1 : data[Slot(r + (n + i))] = src[i + 1]
    <3> SUFFICES ASSUME NEW i \in 0 .. k - 1 PROVE data[Slot(r + (n + i))] = src[i + 1]
      OBVIOUS
    <3>1. r + (n + i) = rIndex + (RingSize + i)
      BY <1>2, ClearedFacts
    <3> QED BY <2>1, <3>1
  <2>5. Held = HeldBy(data, r, n)
    BY HeldIs
  <2>6. Held' = HeldBy(data, r, n + k)
    BY <1>1, <2>3 DEF Held, HeldBy
  <2> HIDE DEF r, n
  <2>7. HeldBy(data, r, n + k) = HeldBy(data, r, n) \o new
    BY <1>2, <1>3, <2>2, <2>3, <2>4, HeldGrows
  <2> QED BY <2>5, <2>6, <2>7
<1>9. /\ new \in Seq(Byte) /\ Len(new) = k /\ new \in [1 .. k -> Byte]
      /\ SubSeq(new, 1, k) = new
  <2>1. k \in 0 .. Len(src)
    BY <1>3
  <2>2. new \in Seq(Byte) /\ Len(new) = k /\ new \in [1 .. k -> Byte]
    BY <1>3, <2>1, PrefixFacts
  <2> HIDE DEF new
  <2>3. k \in 0 .. Len(new)
    BY <1>3, <2>2
  <2>4. SubSeq(new, 1, k) = [i \in 1 .. k |-> new[i]]
    BY <2>2, <2>3, PrefixFacts
  <2>5. new = [i \in 1 .. k |-> new[i]]
    BY <1>3, <2>2, SeqAsFunction
  <2> QED BY <2>2, <2>4, <2>5
<1>10. Len(Held) = RingSize - Cleared
  <2>1. rIndex + Cleared \in Int /\ RingSize - Cleared \in Nat
    BY <1>2, ClearedFacts
  <2> QED BY <1>2, <2>1, HeldSeq, HeldIs
<1> HIDE DEF new
<1>11. Fifo!Append_(new)
  <2>1. Fifo!Smaller(Len(new), Capacity - Len(Held)) = k
    <3>1. k <= Capacity - (RingSize - Cleared)
      BY <1>2, <1>3, ClearedFacts
    <3> QED BY <1>2, <1>3, <1>9, <1>10, <3>1 DEF Fifo!Smaller
  <2>2. out' = Fifo!Result("write", new, k, << >>)
    BY <1>1 DEF Result, Fifo!Result
  <2> QED BY <1>8, <1>9, <2>1, <2>2 DEF Fifo!Append_
<1>12. k \in 0 .. Larger(MaxLen, Capacity)
  BY <1>2, <1>3, RingFacts DEF Larger
<1>13. Fifo!Next
  BY <1>9, <1>11, <1>12 DEF Fifo!Next, Fifo!Request
<1> QED BY <1>5, <1>6, <1>7, <1>13 DEF IInv

LEMMA ReadBeginStep ==
  ASSUME IInv, ReadBegin
  PROVE  IInv' /\ UNCHANGED <<Held, out>>
<1>1. UNCHANGED <<data, rIndex, wIndex, writer, out>>
  BY DEF ReadBegin
<1>2. RingSize' = RingSize /\ IndexInv'
  BY <1>1, HeldStays DEF IInv
<1>3. WriterInv'
  BY <1>1, <1>2 DEF IInv, WriterInv
<1>4. PICK r : r = reader'
  OBVIOUS
<1>5. r = [at |-> "copy", size |-> RingSize, dst |-> << >>]
  BY <1>4 DEF ReadBegin
<1>6. RingSize \in Nat
  BY IndexFacts DEF IInv
<1>7. /\ r \in [at : {"idle", "copy", "clear"}, size : Nat, dst : Seq(Byte)]
      /\ r.at = "copy" /\ r.size = RingSize /\ r.dst = << >> /\ Len(r.dst) = 0
  BY <1>5, <1>6
<1>8. ReaderInv'
  BY <1>1, <1>2, <1>4, <1>6, <1>7 DEF ReaderInv
<1>9. Held' = Held
  <2>1. reader.at = "idle"
    BY DEF ReadBegin
  <2>2. Cleared = 0 /\ Cleared' = 0
    BY <1>4, <1>7, <2>1 DEF Cleared
  <2> QED BY <1>1, <2>2, HeldStays
<1> QED BY <1>1, <1>2, <1>3, <1>8, <1>9 DEF IInv

LEMMA ReadByteStep ==
  ASSUME IInv, ReadByte
  PROVE  IInv' /\ UNCHANGED <<Held, out>>
<1>1. /\ reader.at = "copy" /\ Len(reader.dst) < reader.size
      /\ UNCHANGED <<data, rIndex, wIndex, writer, out>>
  BY DEF ReadByte
<1>2. RingSize' = RingSize /\ IndexInv'
  BY <1>1, HeldStays DEF IInv
<1>3. WriterInv'
  BY <1>1, <1>2 DEF IInv, WriterInv
<1>4. /\ rIndex \in Int /\ data \in [0 .. Capacity - 1 -> Byte]
  BY IndexFacts DEF IInv, IndexInv
<1>5. PICK dst : dst = reader.dst
  OBVIOUS
<1>6. /\ dst \in Seq(Byte) /\ Len(dst) \in Nat /\ reader.size \in Nat
      /\ reader.size <= RingSize /\ Len(dst) < reader.size
      /\ \A i \in 1 .. Len(dst) : dst[i] = data[Slot(rIndex + i - 1)]
  BY <1>1, <1>5 DEF IInv, ReaderInv
<1>7. PICK x : x = data[Slot(rIndex + Len(dst))]
  OBVIOUS
<1>8. x \in Byte
  <2>1. rIndex + Len(dst) \in Int
    BY <1>4, <1>6
  <2> QED BY <1>4, <1>7, <2>1, SlotRange
<1>9. PICK more : more = Append(dst, x)
  OBVIOUS
<1>10. /\ more \in Seq(Byte) /\ Len(more) = Len(dst) + 1
       /\ \A i \in 1 .. Len(dst) + 1 : more[i] = IF i <= Len(dst) THEN dst[i] ELSE x
  BY <1>6, <1>8, <1>9, AppendFacts
<1>11. PICK r : r = reader' /\ r = [reader EXCEPT !.dst = more]
  BY <1>5, <1>7, <1>9 DEF ReadByte
<1>12. /\ r \in [at : {"idle", "copy", "clear"}, size : Nat, dst : Seq(Byte)]
       /\ r.at = "copy" /\ r.size = reader.size /\ r.dst = more
  BY <1>1, <1>10, <1>11 DEF IInv, ReaderInv
<1>13. ASSUME NEW i \in 1 .. Len(more)
       PROVE  more[i] = data[Slot(rIndex + i - 1)]
  <2>1. CASE i <= Len(dst)
    BY <1>6, <1>10, <2>1
  <2>2. CASE ~(i <= Len(dst))
    <3>1. i = Len(dst) + 1 /\ rIndex + i - 1 = rIndex + Len(dst)
      BY <1>4, <1>6, <1>10, <2>2
    <3> QED BY <1>7, <1>10, <2>2, <3>1
  <2> QED BY <2>1, <2>2
<1>14. Len(more) <= reader.size
  BY <1>6, <1>10
<1>15. ReaderInv'
  BY <1>1, <1>2, <1>6, <1>11, <1>12, <1>13, <1>14 DEF ReaderInv
<1>16. Held' = Held
  <2>1. Cleared = 0 /\ Cleared' = 0
    BY <1>1, <1>11, <1>12 DEF Cleared
  <2> QED BY <1>1, <2>1, HeldStays
<1> QED BY <1>1, <1>2, <1>3, <1>15, <1>16 DEF IInv

(* What was copied leaves from the front. *)
LEMMA ReadEndStep ==
  ASSUME IInv, ReadEnd
  PROVE  IInv' /\ Fifo!Next
<1> DEFINE m == reader.size
           dst == reader.dst
<1>1. /\ reader.at = "copy"
      /\ Len(dst) = m /\ rIndex' = Wrap(rIndex + m) /\ reader' = ReaderIdle
      /\ out' = Result("read", << m >>, m, dst) /\ UNCHANGED <<data, wIndex, writer>>
  BY DEF ReadEnd
<1>2. /\ rIndex \in Int /\ wIndex \in Int /\ RingSize \in Nat /\ RingSize <= Capacity
      /\ data \in [0 .. Capacity - 1 -> Byte] /\ Capacity \in Nat
  BY IndexFacts, RingFacts DEF IInv, IndexInv
<1>3. /\ dst \in Seq(Byte) /\ m \in Nat /\ m <= RingSize
      /\ \A i \in 1 .. m : dst[i] = data[Slot(rIndex + i - 1)]
  BY <1>1 DEF IInv, ReaderInv
<1> HIDE DEF m, dst
<1>4. m \in 0 .. RingSize
  BY <1>2, <1>3
<1>5. RingSize' = RingSize - m
  <2>1. m \in 0 .. (wIndex - rIndex) % Modulus
    BY <1>4 DEF RingSize, Wrap
  <2>2. (wIndex - ((rIndex + m) % Modulus)) % Modulus = ((wIndex - rIndex) % Modulus) - m
    BY <1>2, <2>1, DistanceDown, RingFacts
  <2> QED BY <1>1, <2>2 DEF RingSize, Wrap
<1>6. IndexInv'
  <2>1. rIndex + m \in Int
    BY <1>2, <1>3
  <2>2. rIndex' \in 0 .. Modulus - 1
    BY <1>1, <2>1, WrapRange
  <2>3. RingSize - m \in 0 .. Capacity
    BY <1>2, <1>3
  <2> QED BY <1>1, <1>5, <2>2, <2>3 DEF IInv, IndexInv
<1>7. WriterInv'
  <2>1. writer.len \in Nat /\ writer.len <= Capacity - RingSize
    BY DEF IInv, WriterInv
  <2>2. writer.len <= Capacity - RingSize'
    BY <1>2, <1>3, <1>5, <2>1
  <2> QED BY <1>1, <2>2 DEF IInv, WriterInv
<1>8. ReaderInv'
  <2>1. PICK r : r = reader'
    OBVIOUS
  <2>2. r = [at |-> "idle", size |-> 0, dst |-> << >>]
    BY <1>1, <2>1 DEF ReaderIdle
  <2>3. /\ r \in [at : {"idle", "copy", "clear"}, size : Nat, dst : Seq(Byte)]
        /\ r.size = 0 /\ r.dst = << >> /\ Len(r.dst) = 0
    BY <2>2
  <2>4. 0 <= RingSize'
    BY <1>2, <1>3, <1>5
  <2> QED BY <1>1, <2>1, <2>3, <2>4 DEF ReaderInv
<1>9. Held' = SubSeq(Held, m + 1, RingSize)
  <2>1. HeldBy(data, Wrap(rIndex + m), RingSize - m) =
          SubSeq(HeldBy(data, rIndex, RingSize), m + 1, RingSize)
    BY <1>2, <1>4, HeldShrinks
  <2>2. Held' = HeldBy(data, Wrap(rIndex + m), RingSize - m)
    <3>1. Cleared' = 0
      BY <1>1 DEF Cleared, ReaderIdle
    <3>2. Held' = HeldBy(data, rIndex' + 0, RingSize' - 0)
      BY <1>1, <3>1 DEF Held, HeldBy
    <3>3. rIndex' + 0 = rIndex' /\ RingSize' - 0 = RingSize'
      <4>1. rIndex' \in 0 .. Modulus - 1 /\ RingSize' \in 0 .. Capacity
        BY <1>6 DEF IndexInv
      <4>2. rIndex' \in Int /\ RingSize' \in Int
        BY <4>1
      <4>3. \A a \in Int : a + 0 = a /\ a - 0 = a
        OBVIOUS
      <4> QED BY <4>2, <4>3, Zenon
    <3> QED BY <1>1, <1>5, <3>2, <3>3
  <2> QED BY <1>1, <2>1, <2>2, HeldIsAll
<1>10. Held \in Seq(Byte) /\ Len(Held) = RingSize
  BY <1>1, <1>2, HeldSeq, HeldIsAll
<1>11. SubSeq(Held, 1, m) = dst
  <2>1. \A i \in 1 .. m : Held[i] = dst[i]
    BY <1>1, <1>2, <1>3, HeldIsAll DEF HeldBy
  <2>2. dst = [i \in 1 .. m |-> dst[i]]
    BY <1>1, <1>3, SeqAsFunction
  <2>3. m \in 0 .. Len(Held)
    BY <1>4, <1>10
  <2>4. SubSeq(Held, 1, m) = [i \in 1 .. m |-> Held[i]]
    BY <1>10, <2>3, PrefixFacts
  <2> QED BY <2>1, <2>2, <2>4
<1>12. Fifo!Take(m)
  <2>1. Fifo!Smaller(m, Len(Held)) = m
    BY <1>2, <1>3, <1>10 DEF Fifo!Smaller
  <2>2. out' = Fifo!Result("read", << m >>, m, dst)
    BY <1>1 DEF Result, Fifo!Result
  <2> QED BY <1>9, <1>10, <1>11, <2>1, <2>2 DEF Fifo!Take
<1>13. m \in 0 .. Larger(MaxLen, Capacity)
  BY <1>2, <1>3, RingFacts DEF Larger
<1>14. Fifo!Next
  BY <1>12, <1>13 DEF Fifo!Next, Fifo!Request
<1> QED BY <1>6, <1>7, <1>8, <1>14 DEF IInv

(* The load gives up what is in the ring at that moment. *)
LEMMA ClearBeginStep ==
  ASSUME IInv, ClearBegin
  PROVE  IInv' /\ Fifo!Next
<1>1. /\ reader.at = "idle"
      /\ out' = Result("clean", << >>, 0, << >>) /\ UNCHANGED <<data, rIndex, wIndex, writer>>
  BY DEF ClearBegin
<1>2. RingSize' = RingSize /\ IndexInv'
  BY <1>1, HeldStays DEF IInv
<1>3. WriterInv'
  BY <1>1, <1>2 DEF IInv, WriterInv
<1>4. PICK r : r = reader'
  OBVIOUS
<1>5. r = [at |-> "clear", size |-> RingSize, dst |-> << >>]
  BY <1>4 DEF ClearBegin
<1>6. RingSize \in Nat
  BY IndexFacts DEF IInv
<1>7. /\ r \in [at : {"idle", "copy", "clear"}, size : Nat, dst : Seq(Byte)]
      /\ r.at = "clear" /\ r.size = RingSize /\ r.dst = << >> /\ Len(r.dst) = 0
  BY <1>5, <1>6
<1>8. ReaderInv'
  BY <1>1, <1>2, <1>4, <1>6, <1>7 DEF ReaderInv
<1>9. Held' = << >>
  <2>1. RingSize' - Cleared' = 0
    BY <1>2, <1>4, <1>6, <1>7 DEF Cleared
  <2>2. Held' = [i \in 1 .. 0 |-> data'[Slot(rIndex' + Cleared' + i - 1)]]
    BY <2>1 DEF Held
  <2>3. 1 .. 0 = {}
    OBVIOUS
  <2>4. [i \in 1 .. 0 |-> data'[Slot(rIndex' + Cleared' + i - 1)]] = << >>
    BY <2>3
  <2> QED BY <2>2, <2>4
<1>10. Fifo!Flush
  BY <1>1, <1>9 DEF Fifo!Flush, Result, Fifo!Result
<1> QED BY <1>2, <1>3, <1>8, <1>10 DEF IInv, Fifo!Next

(* The store takes them out, and no byte that was written since. *)
LEMMA ClearEndStep ==
  ASSUME IInv, ClearEnd
  PROVE  IInv' /\ UNCHANGED <<Held, out>>
<1> DEFINE m == reader.size
<1>1. /\ reader.at = "clear" /\ rIndex' = Wrap(rIndex + m) /\ reader' = ReaderIdle
      /\ UNCHANGED <<data, wIndex, writer, out>>
  BY DEF ClearEnd
<1>2. /\ rIndex \in Int /\ wIndex \in Int /\ RingSize \in Nat /\ RingSize <= Capacity
      /\ Capacity \in Nat
  BY IndexFacts, RingFacts DEF IInv, IndexInv
<1>3. m \in Nat /\ m <= RingSize /\ Cleared = m
  BY <1>1 DEF IInv, ReaderInv, Cleared
<1> HIDE DEF m
<1>4. m \in 0 .. RingSize /\ rIndex + m \in Int /\ RingSize - m \in Nat
  BY <1>2, <1>3
<1>5. RingSize' = RingSize - m
  <2>1. m \in 0 .. (wIndex - rIndex) % Modulus
    BY <1>4 DEF RingSize, Wrap
  <2>2. (wIndex - ((rIndex + m) % Modulus)) % Modulus = ((wIndex - rIndex) % Modulus) - m
    BY <1>2, <2>1, DistanceDown, RingFacts
  <2> QED BY <1>1, <2>2 DEF RingSize, Wrap
<1>6. IndexInv'
  <2>1. rIndex' \in 0 .. Modulus - 1
    BY <1>1, <1>4, WrapRange
  <2>2. RingSize - m \in 0 .. Capacity
    BY <1>2, <1>3
  <2> QED BY <1>1, <1>5, <2>1, <2>2 DEF IInv, IndexInv
<1>7. WriterInv'
  <2>1. writer.len \in Nat /\ writer.len <= Capacity - RingSize
    BY DEF IInv, WriterInv
  <2>2. writer.len <= Capacity - RingSize'
    BY <1>2, <1>3, <1>5, <2>1
  <2> QED BY <1>1, <2>2 DEF IInv, WriterInv
<1>8. ReaderInv'
  <2>1. PICK r : r = reader'
    OBVIOUS
  <2>2. r = [at |-> "idle", size |-> 0, dst |-> << >>]
    BY <1>1, <2>1 DEF ReaderIdle
  <2>3. /\ r \in [at : {"idle", "copy", "clear"}, size : Nat, dst : Seq(Byte)]
        /\ r.size = 0 /\ r.dst = << >> /\ Len(r.dst) = 0
    BY <2>2
  <2>4. 0 <= RingSize'
    BY <1>4, <1>5
  <2> QED BY <1>1, <2>1, <2>3, <2>4 DEF ReaderInv
<1>9. Held' = Held
  <2>1. Held = HeldBy(data, rIndex + m, RingSize - m)
    BY <1>3, HeldIs
  <2>2. Cleared' = 0
    BY <1>1 DEF Cleared, ReaderIdle
  <2>3. Held' = HeldBy(data, rIndex' + 0, RingSize' - 0)
    BY <1>1, <2>2 DEF Held, HeldBy
  <2>4. rIndex' + 0 = rIndex' /\ RingSize' - 0 = RingSize'
    <3>1. rIndex' \in 0 .. Modulus - 1 /\ RingSize' \in 0 .. Capacity
      BY <1>6 DEF IndexInv
    <3>2. rIndex' \in Int /\ RingSize' \in Int
      BY <3>1
    <3>3. \A a \in Int : a + 0 = a /\ a - 0 = a
      OBVIOUS
    <3> QED BY <3>2, <3>3, Zenon
  <2>5. HeldBy(data, Wrap(rIndex + m), RingSize - m) = HeldBy(data, rIndex + m, RingSize - m)
    BY <1>4, HeldWraps
  <2> QED BY <1>1, <1>5, <2>1, <2>3, <2>4, <2>5
<1> QED BY <1>1, <1>6, <1>7, <1>8, <1>9 DEF IInv

LEMMA StepRefines ==
  IInv /\ [Next]_vars => IInv' /\ [Fifo!Next]_(Fifo!vars)
<1> SUFFICES ASSUME IInv, [Next]_vars
             PROVE  IInv' /\ [Fifo!Next]_(Fifo!vars)
  OBVIOUS
<1>1. ASSUME NEW k \in 1 .. MaxLen, NEW src \in [1 .. k -> Byte], WriteBegin(src)
      PROVE  IInv' /\ UNCHANGED <<Held, out>>
  <2>1. k \in Nat
    OBVIOUS
  <2>2. src \in Seq(Byte)
    BY <2>1, FunctionIsSeq
  <2> QED BY <1>1, <2>2, WriteBeginStep
<1>2. CASE WriteByte \/ ReadBegin \/ ReadByte \/ ClearEnd
  BY <1>2, WriteByteStep, ReadBeginStep, ReadByteStep, ClearEndStep DEF Fifo!vars
<1>3. CASE WriteEnd \/ ReadEnd \/ ClearBegin
  BY <1>3, WriteEndStep, ReadEndStep, ClearBeginStep
<1>4. CASE UNCHANGED vars
  <2>1. UNCHANGED <<data, rIndex, wIndex, writer, reader, out>>
    BY <1>4 DEF vars
  <2>2. RingSize' = RingSize /\ Held' = Held /\ IndexInv'
    BY <2>1, HeldStays DEF IInv, Cleared
  <2> QED BY <2>1, <2>2 DEF IInv, WriterInv, ReaderInv, Fifo!vars
<1> QED BY <1>1, <1>2, <1>3, <1>4 DEF Next, Fifo!vars

LEMMA InitRefines == Init => IInv /\ Fifo!Init
<1> SUFFICES ASSUME Init PROVE IInv /\ Fifo!Init
  OBVIOUS
<1>1. /\ data \in [0 .. Capacity - 1 -> Byte] /\ rIndex = 0 /\ wIndex = 0
      /\ out = Result("init", << >>, 0, << >>)
  BY DEF Init
<1>2. RingSize = 0
  <2>1. wIndex - rIndex = 0 /\ 0 \in 0 .. Modulus - 1
    BY <1>1, RingFacts
  <2> QED BY <2>1, ModSmall, RingFacts DEF RingSize, Wrap
<1>3. IndexInv
  BY <1>1, <1>2, RingFacts DEF IndexInv
<1>4. WriterInv
  <2>1. PICK w : w = writer
    OBVIOUS
  <2>2. w = [at |-> "idle", src |-> << >>, len |-> 0, done |-> 0]
    BY <2>1 DEF Init, WriterIdle
  <2>3. /\ w \in [at : {"idle", "copy"}, src : Seq(Byte), len : Nat, done : Nat]
        /\ w.src = << >> /\ w.len = 0 /\ w.done = 0 /\ Len(w.src) = 0
    BY <2>2
  <2> QED BY <1>2, <2>1, <2>3, RingFacts DEF WriterInv
<1>5. ReaderInv
  <2>1. PICK r : r = reader
    OBVIOUS
  <2>2. r = [at |-> "idle", size |-> 0, dst |-> << >>]
    BY <2>1 DEF Init, ReaderIdle
  <2>3. /\ r \in [at : {"idle", "copy", "clear"}, size : Nat, dst : Seq(Byte)]
        /\ r.size = 0 /\ r.dst = << >> /\ Len(r.dst) = 0
    BY <2>2
  <2>4. r = ReaderIdle
    BY <2>2 DEF ReaderIdle
  <2> QED BY <1>2, <2>1, <2>3, <2>4 DEF ReaderInv
<1>6. Held = << >>
  <2>1. RingSize - Cleared = 0
    BY <1>2 DEF Init, Cleared, ReaderIdle
  <2>2. Held = [i \in 1 .. 0 |-> data[Slot(rIndex + Cleared + i - 1)]]
    BY <2>1 DEF Held
  <2>3. 1 .. 0 = {}
    OBVIOUS
  <2>4. [i \in 1 .. 0 |-> data[Slot(rIndex + Cleared + i - 1)]] = << >>
    BY <2>3
  <2> QED BY <2>2, <2>4
<1>7. Fifo!Init
  BY <1>1, <1>6 DEF Fifo!Init, Result, Fifo!Result
<1> QED BY <1>3, <1>4, <1>5, <1>7 DEF IInv

THEOREM RingInv == Spec => []IInv
<1>1. Init => IInv
  BY InitRefines
<1>2. IInv /\ [Next]_vars => IInv'
  BY StepRefines
<1> QED BY <1>1, <1>2, PTL DEF Spec

-----------------------------------------------------------------------------
(* The two indices of bscl_ringbuffer.c are never more than the memory     *)
(* apart, and what each thread saw when its call began is still there,     *)
(* for every size of memory and wherever the indices wrap.                 *)
THEOREM RingTypeOK == Spec => []TypeOK
BY RingInv, InvTypes, PTL

(* The memcpy of bscl_ringbuffer_write and that of bscl_ringbuffer_read,   *)
(* which may run at the same time, never touch the same byte of memory.    *)
THEOREM RingNoRace == Spec => []NoRace
BY RingInv, InvNoRace, PTL

(* The ring is a bounded FIFO of bytes although no lock orders its two     *)
(* threads: a write and a read take effect when they move their index, a   *)
(* clear when it loads the writer's.                                       *)
THEOREM RingRefinesFifo == Spec => RefinesFifo
<1>1. Init => Fifo!Init
  BY InitRefines
<1>2. IInv /\ [Next]_vars => [Fifo!Next]_(Fifo!vars)
  BY StepRefines
<1> QED BY <1>1, <1>2, RingInv, PTL DEF Spec, RefinesFifo, Fifo!Spec
=============================================================================
