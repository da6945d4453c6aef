----------------------------- MODULE QuickSort -----------------------------
(***************************************************************************)
(* src/bscl_sort.c: a quicksort in place around a pivot taken at random.   *)
(***************************************************************************)
EXTENDS Integers, Sequences, FiniteSets

CONSTANTS
  Keys,        \* what the items are compared by
  MaxLen       \* bound: the items

(* What Library assumes of the constants *)
SortAssumption == Keys \subseteq Int /\ MaxLen \in Nat \ {0}

VARIABLES
  sort,        \* [item, calls]: the container, and the calls still to be made,
               \* <<first, last>>, the next one in front
  original     \* history: the container before

vars == <<sort, original>>

Init ==
  /\ original \in UNION {[0 .. n - 1 -> Keys] : n \in 1 .. MaxLen}
  /\ sort = [item |-> original, calls |-> << <<0, Cardinality(DOMAIN original) - 1>> >>]

Swapped(item, x, y) == [item EXCEPT ![x] = item[y], ![y] = item[x]]

ComparedOnce(s) ==     \* mutant: the left side is not looked at again
  IF s.i < s.m /\ s.item[s.i] > s.item[s.m]
  THEN [s EXCEPT !.item = Swapped(@, s.i, s.m), !.m = s.i, !.i = @ + 1]
  ELSE IF s.i < s.m THEN [s EXCEPT !.i = @ + 1] ELSE [s EXCEPT !.j = @ - 1]

(* One comparison: i comes up to the pivot m from the left, or, when it is *)
(* there, j comes down from the right; an item on the wrong side changes   *)
(* places with the pivot.                                                  *)
Compared(s) ==
  IF s.i < s.m
  THEN IF s.item[s.i] > s.item[s.m]
       THEN [s EXCEPT !.item = Swapped(@, s.i, s.m), !.m = s.i]
       ELSE [s EXCEPT !.i = @ + 1]
  ELSE IF s.item[s.m] > s.item[s.j]
       THEN [s EXCEPT !.item = Swapped(@, s.j, s.m), !.m = s.j]
       ELSE [s EXCEPT !.j = @ - 1]

(* The while loop of bscl_qsort, until i and j meet. *)
Partition(item, first, last, m) ==
  LET rounds == (last - first + 1) * (last - first + 1)
      after[n \in 0 .. rounds] ==
        IF n = 0 THEN [item |-> item, i |-> first, j |-> last, m |-> m]
        ELSE LET s == after[n - 1] IN IF s.i < s.j THEN Compared(s) ELSE s
  IN  after[rounds]

(* A call of bscl_qsort up to its own two calls *)
Sort(first, last, m) ==
  LET p == Partition(sort.item, first, last, m)
      left == IF first < p.m THEN << <<first, p.m - 1>> >> ELSE << >>
      right == IF p.m < last THEN << <<p.m + 1, last>> >> ELSE << >>
  IN  sort' = [item |-> p.item, calls |-> left \o right \o Tail(sort.calls)]

Call ==
  /\ sort.calls # << >>
  /\ LET first == sort.calls[1][1]
         last == sort.calls[1][2]
     IN  IF first = last THEN sort' = [sort EXCEPT !.calls = Tail(@)]
         ELSE \E m \in first .. last : Sort(first, last, m)
  /\ UNCHANGED original

Next == Call

Spec == Init /\ [][Next]_vars

-----------------------------------------------------------------------------
Together(x, y) == \E c \in DOMAIN sort.calls :
                    {x, y} \subseteq sort.calls[c][1] .. sort.calls[c][2]

(* At every call, whatever the pivots: the items are those there were; two *)
(* that no call still to be made has between its ends together are in      *)
(* order, so that the container is sorted when there are no calls left;    *)
(* and no call is made of a range that ends before it begins, which the    *)
(* assertion of bscl_qsort forbids.                                        *)
SortHolds ==
  /\ \A k \in Keys : Cardinality({x \in DOMAIN original : original[x] = k})
                       = Cardinality({x \in DOMAIN sort.item : sort.item[x] = k})
  /\ \A x, y \in DOMAIN sort.item :
       x < y /\ ~Together(x, y) => sort.item[x] <= sort.item[y]
  /\ \A c \in DOMAIN sort.calls : sort.calls[c][1] <= sort.calls[c][2]
=============================================================================
