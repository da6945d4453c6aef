------------------------------- MODULE Buffer -------------------------------
(***************************************************************************)
(* A buffer_t used by one thread: any sequence of calls of the operations  *)
(* of include/bscl_buffer.h, with requests of up to MaxCall bytes.         *)
(***************************************************************************)
EXTENDS BufferOps

CONSTANT MaxCall    \* the longest request of a call

ASSUME RequestAssumption == MaxCall \in Nat \ {0} /\ MaxCall + MaxCall < Modulus

VARIABLES buffer,   \* the buffer_t
          out       \* the last call, what it returned and the bytes it copied out

bufferVars == <<buffer, out>>

Result(call, args, ret, data) ==
  [call |-> call, args |-> args, ret |-> ret, data |-> data]

Request == 0 .. MaxCall

(* buffer_init: the memory is the caller's and holds anything. *)
BufferInit ==
  /\ buffer \in [buf : [0 .. Size - 1 -> Byte], wrp : {0}, rdp : {0}]
  /\ out = Result("init", << >>, 0, << >>)

(* buffer_write *)
DoWrite(data) ==
  /\ buffer' = Write(buffer, data)
  /\ out' = Result("write", data, WriteLen(buffer, data), << >>)

(* buffer_putc: a write of one byte *)
DoPutc(c) ==
  /\ buffer' = Putc(buffer, c)
  /\ out' = Result("write", << c >>, PutcRet(buffer), << >>)

(* buffer_copy *)
DoCopy(begin, n) ==
  LET data == Copy(buffer, begin, n) IN
  /\ out' = Result("copy", << begin, n >>, Len(data), data)
  /\ UNCHANGED buffer

(* buffer_read: buffer_copy from the front, then the read counter moves by *)
(* what was copied.                                                        *)
DoRead(n) ==
  LET data == Copy(buffer, 0, n) IN
  /\ buffer' = [buffer EXCEPT !.rdp = Wrap(@ + Len(data))]
  /\ out' = Result("read", << n >>, Len(data), data)

(* buffer_drop, and buffer_drop_char as n = 1 *)
DoDrop(n) ==
  /\ buffer' = Drop(buffer, n)
  /\ out' = Result("drop", << n >>, DropLen(buffer, n), << >>)

(* buffer_clean *)
DoClean ==
  /\ buffer' = Clean(buffer)
  /\ out' = Result("clean", << >>, 0, << >>)

BufferNext ==
  \/ \E k \in Request : \E data \in [1 .. k -> Byte] : DoWrite(data)
  \/ \E c \in Byte : DoPutc(c)
  \/ \E begin, n \in Request : DoCopy(begin, n)
  \/ \E n \in Request : DoRead(n)
  \/ \E n \in Request : DoDrop(n)
  \/ DoClean

BufferSpec == BufferInit /\ [][BufferNext]_bufferVars

-----------------------------------------------------------------------------
(* The counters are uint32_t, the memory holds bytes, and the bytes counted *)
(* never exceed the memory: what every operation of bscl_buffer.h relies    *)
(* on, wrp and rdp wrapping at 2^32 independently of each other.            *)
CountsHold ==
  /\ buffer \in BufferType
  /\ Count(buffer) <= Size
  /\ out.ret \in 0 .. MaxCall /\ out.data \in Seq(Byte)

(* The ring with its free-running counters is a bounded FIFO of bytes: no  *)
(* byte is lost, reordered or overwritten before it is read or dropped,    *)
(* also when a copy is split at the end of the memory or a counter wraps.  *)
Fifo == INSTANCE ByteFifo WITH Capacity <- Size, Elem <- Byte,
                               q <- Contents(buffer)

RefinesFifo == Fifo!Spec
=============================================================================
