-------------------------------- MODULE Md5 --------------------------------
(***************************************************************************)
(* src/bscl_md5.c, how it cuts a message into blocks: the message comes in *)
(* pieces of any size, the blocks must not depend on them.  Its bytes are  *)
(* told by their positions, and what a block does to the state is left     *)
(* out: the model keeps the blocks.  Block, Word and Bits are 64, 4 and 32 *)
(* in the code.                                                            *)
(***************************************************************************)
EXTENDS Integers, Sequences, SequencesExt

CONSTANTS
  Block,       \* the bytes of a block
  Word,        \* the bytes of a word of count when it is written down
  Bits,        \* the bits of a word of count
  Pieces,      \* the sizes of pieces
  MaxBytes     \* bound: the bytes of a message

(* What Library assumes of the constants *)
Md5Assumption ==
  /\ {Block, Word, Bits, MaxBytes} \subseteq Nat \ {0} /\ Pieces \subseteq 0 .. MaxBytes
  /\ 2 * Word < Block /\ MaxBytes < 2 ^ Bits
  /\ 2 ^ Bits \in Nat /\ 2 ^ Bits % (8 * Block) = 0

VARIABLES
  md5,         \* [count, buffer, blocks, done]: count is <<low word, high word>>
  message      \* history: the size of the message

vars == <<md5, message>>

Wrap(n) == n % 2 ^ Bits

(* bscl_md5_init; the buffer is not initialised. *)
Init ==
  /\ md5 = [count |-> <<0, 0>>, buffer |-> [i \in 1 .. Block |-> "junk"],
            blocks |-> << >>, done |-> FALSE]
  /\ message = 0

CountedLoose(count, n) ==     \* mutant: the carry is lost
  <<Wrap(count[1] + Wrap(8 * n)), Wrap(count[2] + (8 * n) \div 2 ^ Bits)>>

(* The number of bits, in two words: the carry from the first is seen by   *)
(* the sum being less than what was added.                                 *)
Counted(count, n) ==
  LET low == Wrap(count[1] + Wrap(8 * n))
      carry == IF low < Wrap(8 * n) THEN 1 ELSE 0
  IN  <<low, Wrap(count[2] + carry + (8 * n) \div 2 ^ Bits)>>

(* The bytes of the buffer that are waiting for a block *)
Index(count) == (count[1] \div 8) % Block

(* memcpy of bytes into the buffer behind its first ones *)
Buffered(buffer, index, bytes) ==
  [i \in 1 .. Block |-> IF i - index \in DOMAIN bytes THEN bytes[i - index] ELSE buffer[i]]

(* bscl_md5_accumulate *)
Accumulated(m, input) ==
  LET n == Len(input)
      index == Index(m.count)
      part == Block - index
      first == Buffered(m.buffer, index, SubSeq(input, 1, part))
      whole == (n - part) \div Block
      rest == [k \in 1 .. whole |->
                 SubSeq(input, part + (k - 1) * Block + 1, part + k * Block)]
      counted == [m EXCEPT !.count = Counted(@, n)]
  IN
  IF n < part THEN [counted EXCEPT !.buffer = Buffered(@, index, input)]
  ELSE [counted EXCEPT
          !.blocks = Append(@, first) \o rest,
          !.buffer = Buffered(first, 0, SubSeq(input, part + whole * Block + 1, n))]

Accumulate(n) ==
  /\ ~md5.done /\ message + n <= MaxBytes
  /\ md5' = Accumulated(md5, [i \in 1 .. n |-> message + i])
  /\ message' = message + n

(* PADDING: one mark and then zeros *)
Padding(n) == [i \in 1 .. n |-> IF i = 1 THEN "mark" ELSE "zero"]

(* padLen *)
PadLen(index) ==
  IF index < Block - 2 * Word THEN Block - 2 * Word - index ELSE 2 * Block - 2 * Word - index

(* _Encode of a number as the bytes of the message that say its length *)
Encode(count) == [i \in 1 .. 2 * Word |-> <<(i - 1) \div Word, count[1 + (i - 1) \div Word]>>]

(* bscl_md5_finish *)
Finish ==
  /\ ~md5.done
  /\ md5' = LET padded == Accumulated(md5, Padding(PadLen(Index(md5.count))))
            IN  [Accumulated(padded, Encode(md5.count)) EXCEPT !.done = TRUE]
  /\ UNCHANGED message

Next == Finish \/ \E n \in Pieces : Accumulate(n)

Spec == Init /\ [][Next]_vars

-----------------------------------------------------------------------------
(* What RFC 1321 hashes: the message, a mark, as few zeros as it takes to  *)
(* fill whole blocks, and the length in bits, modulo two words.            *)
Length == LET bits == 8 * message IN <<Wrap(bits), Wrap(bits \div 2 ^ Bits)>>
Zeros == CHOOSE z \in 0 .. Block - 1 : (message + 1 + z + 2 * Word) % Block = 0
Hashed == [i \in 1 .. message |-> i] \o Padding(1 + Zeros) \o Encode(Length)

(* Whatever the pieces: the blocks so far are the begin of the message and *)
(* what does not fill one waits in the buffer; when it is finished the     *)
(* blocks are those of the standard, with the message's length in them     *)
(* even when the low word of the count has wrapped.                        *)
BlocksHold ==
  LET n == Len(md5.blocks) * Block IN
  IF md5.done THEN FlattenSeq(md5.blocks) = Hashed
  ELSE /\ FlattenSeq(md5.blocks) = [i \in 1 .. n |-> i] /\ message - n \in 0 .. Block - 1
       /\ \A i \in 1 .. message - n : md5.buffer[i] = n + i
=============================================================================
