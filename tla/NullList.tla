------------------------------ MODULE NullList ------------------------------
(***************************************************************************)
(* The macros of include/bscl_list_head.h on lists that end with NULL      *)
(* instead of coming back to a head, as the hash map and the timers use    *)
(* them: here their tests against NULL matter.  The pointers are a record  *)
(* [prev, next] of functions on the nodes.                                 *)
(***************************************************************************)
EXTENDS Integers, Sequences, FiniteSets

CONSTANT NULL

(* *p = v, unless p is NULL *)
Store(f, p, v) == IF p = NULL THEN f ELSE [f EXCEPT ![p] = v]

NullInsertHalf(links, at, new) ==     \* mutant: the node before is not told
  IF at = new THEN links
  ELSE [prev |-> [links.prev EXCEPT ![new] = links.prev[at], ![at] = new],
        next |-> [links.next EXCEPT ![new] = at]]

(* bscl_list_head_insert_prev(at, new) *)
NullInsertPrev(links, at, new) ==
  IF at = new THEN links
  ELSE [prev |-> [links.prev EXCEPT ![new] = links.prev[at], ![at] = new],
        next |-> Store([links.next EXCEPT ![new] = at], links.prev[at], new)]

(* bscl_list_head_remove(x) *)
NullRemove(links, x) ==
  LET next == Store(links.next, links.prev[x], links.next[x]) IN
  [next |-> next, prev |-> Store(links.prev, next[x], links.prev[x])]

(* The nodes a walk along next meets, from x to the NULL at its end; a     *)
(* walk that is longer than there are nodes never ends.                    *)
NullWalk(links, x) ==
  LET n == Cardinality(DOMAIN links.next)
      at[i \in 1 .. n + 1] == IF i = 1 THEN x
                              ELSE IF at[i - 1] = NULL THEN NULL
                              ELSE links.next[at[i - 1]]
      len == Cardinality({i \in 1 .. n + 1 : at[i] # NULL})
  IN  [i \in 1 .. len |-> at[i]]

WalkIsFinite(links, x) == Len(NullWalk(links, x)) <= Cardinality(DOMAIN links.next)
=============================================================================
