----------------------------- MODULE RingBuffer -----------------------------
(***************************************************************************)
(* src/bscl_ringbuffer.c used without a lock by one thread that writes and *)
(* one that reads, which is what its volatile indices are for.  Each call  *)
(* takes its size from the two indices first, then copies byte by byte,    *)
(* and only then moves its own index; the other thread runs in between.    *)
(* Loads and stores take effect in program order.                          *)
(***************************************************************************)
EXTENDS Integers, Sequences

CONSTANTS Modulus,    \* the number of values of a size_t
          Capacity,   \* the bytes of memory, a power of two
          Byte,       \* the bytes
          MaxLen      \* the longest request of a call

ASSUME RingAssumption ==
  /\ Modulus \in Nat \ {0} /\ Capacity \in Nat \ {0} /\ MaxLen \in Nat \ {0}
  /\ \E k \in 2 .. Modulus : Modulus = k * Capacity
  /\ Byte # {}

VARIABLES
  data,      \* the memory
  rIndex, wIndex,   \* the free-running counters
  writer,    \* the writing thread: [at, src, len, done]
  reader,    \* the reading thread: [at, size, dst]
  out        \* the last call that took effect: what it returned, handed out

vars == <<data, rIndex, wIndex, writer, reader, out>>

NoWrap(x) == x     \* mutant: indices that do not wrap

Wrap(x) == x % Modulus
Slot(index) == index % Capacity
Smaller(m, n) == IF m < n THEN m ELSE n
Larger(m, n) == IF m < n THEN n ELSE m
Result(call, args, ret, bytes) ==
  [call |-> call, args |-> args, ret |-> ret, data |-> bytes]

(* bscl_ringbuffer_size *)
RingSize == Wrap(wIndex - rIndex)

WriterIdle == [at |-> "idle", src |-> << >>, len |-> 0, done |-> 0]
ReaderIdle == [at |-> "idle", size |-> 0, dst |-> << >>]

(* bscl_ringbuffer_init *)
Init ==
  /\ data \in [0 .. Capacity - 1 -> Byte]
  /\ rIndex = 0 /\ wIndex = 0
  /\ writer = WriterIdle /\ reader = ReaderIdle
  /\ out = Result("init", << >>, 0, << >>)

-----------------------------------------------------------------------------
(* Mutant: the length is not cut to the space. *)
WriteBeginUncut(src) ==
  /\ writer.at = "idle"
  /\ writer' = [at |-> "copy", src |-> src, done |-> 0, len |-> Len(src)]
  /\ UNCHANGED <<data, rIndex, wIndex, reader, out>>

(* bscl_ringbuffer_write: the length is cut to the space there is now. *)
WriteBegin(src) ==
  /\ writer.at = "idle"
  /\ writer' = [at |-> "copy", src |-> src, done |-> 0,
                len |-> Smaller(Len(src), Wrap(Capacity - RingSize))]
  /\ UNCHANGED <<data, rIndex, wIndex, reader, out>>

(* One byte of the memcpy, or of the two when the memory's end is met. *)
WriteByte ==
  /\ writer.at = "copy" /\ writer.done < writer.len
  /\ data' = [data EXCEPT ![Slot(wIndex + writer.done)] =
                writer.src[writer.done + 1]]
  /\ writer' = [writer EXCEPT !.done = @ + 1]
  /\ UNCHANGED <<rIndex, wIndex, reader, out>>

(* Mutant: the index moves before the last byte is there. *)
WriteEndEarly ==
  /\ writer.at = "copy" /\ writer.done + 1 >= writer.len
  /\ wIndex' = Wrap(wIndex + writer.len)
  /\ out' = Result("write", SubSeq(writer.src, 1, writer.len), writer.len, << >>)
  /\ writer' = WriterIdle
  /\ UNCHANGED <<data, rIndex, reader>>

WriteEnd ==
  /\ writer.at = "copy" /\ writer.done = writer.len
  /\ wIndex' = Wrap(wIndex + writer.len)
  /\ out' = Result("write", SubSeq(writer.src, 1, writer.len), writer.len, << >>)
  /\ writer' = WriterIdle
  /\ UNCHANGED <<data, rIndex, reader>>

(* bscl_ringbuffer_read: the cut of its len to size is computed, but it is *)
(* size that is copied, added to rIndex and returned, so len plays no part *)
(* and the destination must have room for whatever the ring holds.         *)
ReadBegin ==
  /\ reader.at = "idle"
  /\ reader' = [at |-> "copy", size |-> RingSize, dst |-> << >>]
  /\ UNCHANGED <<data, rIndex, wIndex, writer, out>>

ReadByte ==
  /\ reader.at = "copy" /\ Len(reader.dst) < reader.size
  /\ reader' = [reader EXCEPT !.dst =
                  Append(@, data[Slot(rIndex + Len(@))])]
  /\ UNCHANGED <<data, rIndex, wIndex, writer, out>>

ReadEnd ==
  /\ reader.at = "copy" /\ Len(reader.dst) = reader.size
  /\ rIndex' = Wrap(rIndex + reader.size)
  /\ out' = Result("read", << reader.size >>, reader.size, reader.dst)
  /\ reader' = ReaderIdle
  /\ UNCHANGED <<data, wIndex, writer>>

(* bscl_ringbuffer_clear, by the reading thread: it loads wIndex and then  *)
(* stores it to rIndex.  What it has loaded is kept as the distance from   *)
(* rIndex, which nobody else moves.  It is over for the bytes in the ring  *)
(* when it loads; a write that ends before the store keeps its bytes.      *)
ClearBegin ==
  /\ reader.at = "idle"
  /\ reader' = [at |-> "clear", size |-> RingSize, dst |-> << >>]
  /\ out' = Result("clean", << >>, 0, << >>)
  /\ UNCHANGED <<data, rIndex, wIndex, writer>>

(* Mutant: wIndex is loaded once more for the store. *)
ClearEndFresh ==
  /\ reader.at = "clear"
  /\ rIndex' = wIndex
  /\ reader' = ReaderIdle
  /\ UNCHANGED <<data, wIndex, writer, out>>

ClearEnd ==
  /\ reader.at = "clear"
  /\ rIndex' = Wrap(rIndex + reader.size)
  /\ reader' = ReaderIdle
  /\ UNCHANGED <<data, wIndex, writer, out>>

Next ==
  \/ \E k \in 1 .. MaxLen : \E src \in [1 .. k -> Byte] : WriteBegin(src)
  \/ WriteByte \/ WriteEnd
  \/ ReadBegin \/ ReadByte \/ ReadEnd
  \/ ClearBegin \/ ClearEnd

Spec == Init /\ [][Next]_vars

-----------------------------------------------------------------------------
(* The indices are never more than the memory apart, and a thread's copy   *)
(* stays within what it saw: the space, or the bytes, can only have grown. *)
TypeOK ==
  /\ data \in [0 .. Capacity - 1 -> Byte]
  /\ rIndex \in 0 .. Modulus - 1 /\ wIndex \in 0 .. Modulus - 1
  /\ RingSize <= Capacity
  /\ writer.len <= Capacity - RingSize /\ writer.done <= writer.len
  /\ reader.size <= RingSize /\ Len(reader.dst) <= reader.size

(* The slots the writer fills and those the reader copies are never the    *)
(* same: the two memcpys, which no lock orders, do not race.               *)
Filling == IF writer.at = "copy"
           THEN {Slot(wIndex + i) : i \in 0 .. writer.len - 1} ELSE {}
Copying == IF reader.at = "copy"
           THEN {Slot(rIndex + i) : i \in 0 .. reader.size - 1} ELSE {}
NoRace == Filling \intersect Copying = {}

(* What the ring holds, without the bytes that a clear under way has given *)
(* up and not yet taken out.                                               *)
Cleared == IF reader.at = "clear" THEN reader.size ELSE 0
Held == [i \in 1 .. RingSize - Cleared |-> data[Slot(rIndex + Cleared + i - 1)]]

(* The ring is a bounded FIFO: what a write returns as taken joins the     *)
(* tail when wIndex moves, a read hands out the oldest bytes, whatever the *)
(* other thread does while they are copied, and a clear drops the bytes of *)
(* one moment, never one that was written after it.                        *)
Fifo == INSTANCE ByteFifo WITH
  q <- Held, Elem <- Byte, MaxCall <- Larger(MaxLen, Capacity)

RefinesFifo == Fifo!Spec
=============================================================================
