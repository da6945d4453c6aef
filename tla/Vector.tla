------------------------------- MODULE Vector -------------------------------
(***************************************************************************)
(* src/bscl_vector.c: a block of memory that is doubled when an insertion  *)
(* needs more and halved by a removal that leaves less than half of it     *)
(* used.                                                                   *)
(***************************************************************************)
EXTENDS Integers, Sequences

CONSTANTS
  Values,      \* the items
  MaxSize,     \* bound: the items in the vector
  MaxCount,    \* the most items of a call
  JUNK         \* what memory holds that was never written

(* What Library assumes of the constants *)
VectorAssumption == JUNK \notin Values /\ MaxSize \in Nat /\ MaxCount \in Nat

VARIABLES
  vector,      \* [data, size, capacity], data being the block of memory
  items        \* what the calls have put there

vars == <<vector, items>>

Half(n) == n \div 2
Cells(n) == 0 .. n - 1

(* realloc: what fits of the old block, and junk behind it. *)
Realloc(data, n) ==
  [i \in Cells(n) |-> IF i \in DOMAIN data THEN data[i] ELSE JUNK]

(* Doubled until it is enough. *)
Grown(c, n) ==
  LET after[k \in 0 .. n] ==
        IF k = 0 THEN c
        ELSE LET d == after[k - 1] IN IF n > d THEN 2 * d ELSE d
  IN  after[n]

(* The capacity for a first size: the power of two above it. *)
FirstCapacity(n) == Grown(1, n + 1)

(* bscl_vector_new *)
Init ==
  \E n \in 0 .. MaxSize, v \in Values :
    /\ vector = [size |-> n, capacity |-> FirstCapacity(n),
                 data |-> [i \in Cells(FirstCapacity(n)) |-> IF i < n THEN v ELSE JUNK]]
    /\ items = [i \in 1 .. n |-> v]

(* bscl_vector_set *)
Set(start, new) ==
  /\ start + Len(new) <= vector.size
  /\ vector' = [vector EXCEPT !.data =
       [i \in DOMAIN @ |-> IF i - start \in Cells(Len(new)) THEN new[i - start + 1] ELSE @[i]]]
  /\ items' = [i \in 1 .. Len(items) |->
       IF i - start \in 1 .. Len(new) THEN new[i - start] ELSE items[i]]

(* The memmove and memcpy of bscl_vector_insert. *)
Inserted(data, size, index, new) ==
  [i \in DOMAIN data |->
     IF i - index \in Cells(Len(new)) THEN new[i - index + 1]
     ELSE IF i - Len(new) \in index .. size - 1 THEN data[i - Len(new)]
     ELSE data[i]]

(* bscl_vector_insert, when its realloc succeeds; else the process exits.  *)
Insert(index, new) ==
  LET size == vector.size + Len(new)
      capacity == IF size > vector.capacity THEN Grown(vector.capacity, size)
                  ELSE vector.capacity
  IN
  /\ index <= vector.size /\ size <= MaxSize
  /\ vector' = [size |-> size, capacity |-> capacity,
                data |-> Inserted(Realloc(vector.data, capacity), vector.size, index, new)]
  /\ items' = SubSeq(items, 1, index) \o new \o SubSeq(items, index + 1, Len(items))

KeptLoose(size, capacity) ==     \* mutant: also at half
  IF size <= Half(capacity) THEN Half(capacity) ELSE capacity

(* What a removal leaves of the capacity. *)
Kept(size, capacity) == IF size < Half(capacity) THEN Half(capacity) ELSE capacity

(* bscl_vector_remove *)
Remove(index, count) ==
  LET size == vector.size - count
      capacity == Kept(size, vector.capacity)
      moved == [i \in DOMAIN vector.data |->
                  IF i \in index .. size - 1 THEN vector.data[i + count] ELSE vector.data[i]]
  IN
  /\ index + count <= vector.size
  /\ vector' = [size |-> size, capacity |-> capacity, data |-> Realloc(moved, capacity)]
  /\ items' = SubSeq(items, 1, index) \o SubSeq(items, index + count + 1, Len(items))

Batches == UNION {[1 .. n -> Values] : n \in 1 .. MaxCount}

Next ==
  \/ \E index \in 0 .. MaxSize, new \in Batches : Set(index, new) \/ Insert(index, new)
  \/ \E index \in 0 .. MaxSize, count \in 1 .. MaxCount : Remove(index, count)

Spec == Init /\ [][Next]_vars

-----------------------------------------------------------------------------
(* The vector holds the items, whatever was grown, moved and shrunk; the   *)
(* block always has room for them and never shrinks to nothing, where the  *)
(* doubling of the next insertion would go on for ever.                    *)
VectorHolds ==
  /\ vector.size = Len(items) /\ vector.size <= vector.capacity /\ vector.capacity > 0
  /\ DOMAIN vector.data = Cells(vector.capacity)
  /\ \A i \in Cells(vector.size) : vector.data[i] = items[i + 1]
=============================================================================
