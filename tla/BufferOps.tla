----------------------------- MODULE BufferOps -----------------------------
(***************************************************************************)
(* The operations of include/bscl_buffer.h on a buffer_t, as operators on  *)
(* a record [buf, wrp, rdp].  wrp and rdp are free-running uint32_t        *)
(* counters: they are never reduced to the ring, only masked when the ring *)
(* is addressed, and they wrap at Modulus = 2^32.  The field `size' never  *)
(* changes after buffer_init and is the constant Size.                     *)
(***************************************************************************)
EXTENDS Integers, Sequences

CONSTANTS Modulus,  \* the number of values of a uint32_t
          Size,     \* buffer->size
          Byte      \* the values of a buffer_data_type_t

(***************************************************************************)
(* "MUST BE 2^n" (bscl_buffer.h:9).  What the code needs of a power of two *)
(* is that it divides 2^32, and `pos & (size - 1)' is `pos % size'.  The   *)
(* field is a uint32_t itself, so it is at most half of Modulus.           *)
(***************************************************************************)
ASSUME BufferAssumption ==
  /\ Modulus \in Nat \ {0}
  /\ Size \in Nat \ {0}
  /\ \E k \in 2 .. Modulus : Modulus = k * Size
  /\ Byte # {}

NoWrap(x) == x      \* mutant: counters that do not wrap

Wrap(x) == x % Modulus

Offset(pos) == pos % Size

Least(m, n) == IF m < n THEN m ELSE n

BufferType == [buf : [0 .. Size - 1 -> Byte],
               wrp : 0 .. Modulus - 1,
               rdp : 0 .. Modulus - 1]

Count(b) == Wrap(b.wrp - b.rdp)

Space(b) == Wrap(Size - Count(b))

IsEmpty(b) == b.wrp = b.rdp

IsFull(b) == Count(b) >= Size

(* Mutant: a copy that does not go on at the start of the memory. *)
PlaceUnsplit(buf, off, data, n) ==
  [j \in 0 .. Size - 1 |->
     IF off <= j /\ j < off + n THEN data[j - off + 1] ELSE buf[j]]

(***************************************************************************)
(* The ring after n bytes of data are copied to offset off: one memcpy, or *)
(* two when the bytes run past the end of the memory.                      *)
(***************************************************************************)
Place(buf, off, data, n) ==
  LET left == Size - off IN
  [j \in 0 .. Size - 1 |->
     IF off <= j /\ j < off + n THEN data[j - off + 1]
     ELSE IF off + n > Size /\ j < n - left THEN data[left + j + 1]
     ELSE buf[j]]

(* The n bytes read from offset off, again by one memcpy or two. *)
Fetch(buf, off, n) ==
  LET left == Size - off IN
  [i \in 1 .. n |-> IF off + n <= Size \/ i <= left THEN buf[off + i - 1]
                    ELSE buf[i - left - 1]]

(* buffer_write: takes what fits and returns how much that was. *)
WriteLen(b, data) == Least(Len(data), Space(b))

Write(b, data) ==
  LET n == WriteLen(b, data) IN
  [b EXCEPT !.buf = Place(@, Offset(b.wrp), data, n), !.wrp = Wrap(@ + n)]

(* buffer_putc: returns 0 on a full buffer, never a negative number. *)
PutcRet(b) == IF IsFull(b) THEN 0 ELSE 1

Putc(b, c) ==
  IF IsFull(b) THEN b
  ELSE [b EXCEPT !.buf[Offset(b.wrp)] = c, !.wrp = Wrap(@ + 1)]

(* buffer_copy: the bytes copied out; their number is what it returns. *)
Copy(b, begin, len) ==
  LET count == Count(b)
      n     == IF count < Wrap(len + begin) THEN count - begin ELSE len
  IN  IF count < begin THEN << >>
      ELSE Fetch(b.buf, Offset(b.rdp + begin), n)

(* buffer_copy_char compares with < : at begin = count it reads past the   *)
(* end of what was written.                                                *)
CopyChar(b, begin) ==
  IF Count(b) < begin THEN -1 ELSE b.buf[Offset(b.rdp + begin)]

(* buffer_copy_word, and buffer_copy_first: no check at all. *)
CopyWord(b, i) == b.buf[Offset(b.rdp + i)]

CopyFirst(b) == CopyWord(b, 0)

DropLenUnchecked(b, len) == len     \* mutant: the count is not looked at

(* buffer_drop: drops what there is, and returns how much that was. *)
DropLen(b, len) == Least(Count(b), len)

(* Mutant: the wrong counter. *)
DropNewest(b, len) == [b EXCEPT !.wrp = Wrap(@ - DropLen(b, len))]

Drop(b, len) == [b EXCEPT !.rdp = Wrap(@ + DropLen(b, len))]

DropChar(b) == Drop(b, 1)

Clean(b) == [b EXCEPT !.rdp = b.wrp]

(* What the buffer holds, oldest byte first (a view, not code). *)
Contents(b) == [i \in 1 .. Count(b) |-> b.buf[Offset(b.rdp + i - 1)]]
=============================================================================
