----------------------------- MODULE BinaryHeap -----------------------------
(***************************************************************************)
(* src/bscl_bheap.c: a binary heap over cells the caller keeps and lets    *)
(* the heap compare and swap.                                              *)
(***************************************************************************)
EXTENDS Integers, FiniteSets

CONSTANTS
  Capacity,    \* the cells
  Keys         \* the values the cells are compared by

(* What Library assumes of the constants *)
HeapAssumption == Capacity \in Nat /\ Keys \subseteq Int

VARIABLES
  heap,        \* [cell, size]
  past         \* history: [count, built, removed]: what was put in, how many cells
               \* init found filled, the removals (2: two or more)

vars == <<heap, past>>

Left(i) == 2 * i + 1
Right(i) == 2 * i + 2
Parent(i) == IF i = 0 THEN 0 ELSE (i - 1) \div 2     \* C's -1 / 2 is 0

Swapped(cell, x, y) == [cell EXCEPT ![x] = cell[y], ![y] = cell[x]]

(* The smaller child of one that has any; the right one of two equals. *)
Least(cell, size, c) ==
  IF Right(c) >= size \/ cell[Left(c)] < cell[Right(c)] THEN Left(c) ELSE Right(c)

(* bscl_bheap_sift_down: c is not moved on after the swap, so that the     *)
(* next round finds it in order and stops: one swap is all there is.       *)
SiftDown(cell, size, c) ==
  IF Left(c) < size /\ cell[c] > cell[Least(cell, size, c)]
  THEN Swapped(cell, c, Least(cell, size, c)) ELSE cell

SiftUpStops(cell, c) ==     \* mutant: one swap only
  IF c > 0 /\ cell[c] < cell[Parent(c)] THEN Swapped(cell, c, Parent(c)) ELSE cell

(* bscl_bheap_sift_up *)
SiftUp(cell, c) ==
  LET up[i \in 0 .. Capacity] ==     \* the cell i steps above c
        IF i = 0 THEN c ELSE Parent(up[i - 1])
      steps == {i \in 0 .. c : \A j \in 1 .. i : up[j - 1] > 0 /\ cell[c] < cell[up[j]]}
      climb[i \in steps] ==
        IF i = 0 THEN cell ELSE Swapped(climb[i - 1], up[i - 1], up[i])
  IN  climb[CHOOSE i \in steps : \A j \in steps : j <= i]

(* bscl_bheapity *)
Heapified(cell, size) ==
  LET from[i \in 0 .. size] == IF i > Parent(size - 1) THEN cell
                               ELSE SiftDown(from[i + 1], size, i)
  IN  IF size = 0 THEN cell ELSE from[0]

Count(cell, size) == [k \in Keys |-> Cardinality({i \in 0 .. size - 1 : cell[i] = k})]

(* bscl_bheap_init over cells that are filled already *)
Init ==
  \E size \in 0 .. Capacity, cell \in [0 .. Capacity - 1 -> Keys] :
    /\ \A i \in size .. Capacity - 1 : cell[i] = cell[0]
    /\ heap = [cell |-> Heapified(cell, size), size |-> size]
    /\ past = [count |-> Count(cell, size), built |-> size, removed |-> 0]

(* bscl_bheap_insert *)
Insert(k) ==
  /\ heap.size < Capacity
  /\ heap' = [cell |-> SiftUp([heap.cell EXCEPT ![heap.size] = k], heap.size),
              size |-> heap.size + 1]
  /\ past' = [past EXCEPT !.count[k] = @ + 1]

(* bscl_bheap_remove *)
Remove(n) ==
  LET last == heap.size - 1 IN
  /\ n <= last
  /\ heap' = [cell |-> IF n < last THEN SiftDown(Swapped(heap.cell, n, last), last, n)
                       ELSE heap.cell,
              size |-> last]
  /\ past' = [past EXCEPT !.count[heap.cell[n]] = @ - 1, !.removed = IF @ < 2 THEN @ + 1 ELSE 2]

Next == (\E k \in Keys : Insert(k)) \/ (\E n \in 0 .. Capacity - 1 : Remove(n))

Spec == Init /\ [][Next]_vars

-----------------------------------------------------------------------------
RootIsLeast == \A i \in 0 .. heap.size - 1 : heap.cell[0] <= heap.cell[i]

(* Nothing is lost or doubled by the swaps.  The first cell is the least   *)
(* one until something is removed; a heap that was filled by insertions    *)
(* only, or has not more than two levels, stays ordered until then, and    *)
(* gives the least one again after one removal at the front: the one swap  *)
(* of sift_down is enough for that and for no more.                        *)
HeapHolds ==
  /\ past.count = Count(heap.cell, heap.size)
  /\ past.removed = 0 => RootIsLeast
  /\ past.removed = 0 /\ past.built <= 3 =>
       \A i \in 0 .. heap.size - 1 : heap.cell[Parent(i)] <= heap.cell[i]
  /\ past.removed = 1 /\ past.built <= 3 => RootIsLeast
=============================================================================
