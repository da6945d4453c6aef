------------------------------ MODULE ListHead ------------------------------
(***************************************************************************)
(* The circular doubly linked lists of include/bscl_list_head.h.  A set of *)
(* nodes with their pointers is a record [prev, next] of functions on the  *)
(* nodes.  The macros test their pointers against NULL; a node that has    *)
(* been through bscl_list_init never holds a NULL, so the tests are true.  *)
(***************************************************************************)
EXTENDS Integers, Sequences, FiniteSets

(* bscl_list_init of one node *)
ListInit(links, x) ==
  [prev |-> [links.prev EXCEPT ![x] = x], next |-> [links.next EXCEPT ![x] = x]]

(* Every node of a set alone in a list of its own. *)
Alone(nodes) == [prev |-> [x \in nodes |-> x], next |-> [x \in nodes |-> x]]

(* bscl_list_is_empty *)
ListIsEmpty(links, x) == links.next[x] = x

(* bscl_list_head_insert_prev(at, new), which is also                      *)
(* bscl_list_insert_tail(at, new).                                         *)
InsertPrev(links, at, new) ==
  LET before == links.prev[at] IN
  IF at = new THEN links
  ELSE [prev |-> [links.prev EXCEPT ![new] = before, ![at] = new],
        next |-> [links.next EXCEPT ![new] = at, ![before] = new]]

InsertTail(links, list, x) == InsertPrev(links, list, x)

(* bscl_list_head_insert_next(at, new) *)
InsertNext(links, at, new) ==
  LET after == links.next[at] IN
  IF at = new THEN links
  ELSE [prev |-> [links.prev EXCEPT ![new] = at, ![after] = new],
        next |-> [links.next EXCEPT ![new] = after, ![at] = new]]

(* Mutant: only one neighbour is told. *)
RemoveHalf(links, x) ==
  [links EXCEPT !.next[links.prev[x]] = links.next[x]]

(* bscl_list_head_remove: the neighbours are joined; the node itself keeps *)
(* its two pointers.                                                       *)
Remove(links, x) ==
  LET next == [links.next EXCEPT ![links.prev[x]] = links.next[x]] IN
  [next |-> next, prev |-> [links.prev EXCEPT ![next[x]] = links.prev[x]]]

-----------------------------------------------------------------------------
(* The nodes that a walk along next meets before it is back at the head,   *)
(* or the first Cardinality(nodes) of them when it is never back.          *)
Walk(links, head) ==
  LET n == Cardinality(DOMAIN links.next)
      at[i \in 1 .. n] == IF i = 1 THEN links.next[head]
                          ELSE links.next[at[i - 1]]
      ends == {i \in 1 .. n : at[i] = head}
      len == IF ends = {} THEN n
             ELSE (CHOOSE i \in ends : \A j \in ends : i <= j) - 1
  IN  [i \in 1 .. len |-> at[i]]

(* next and prev are each other's inverse on the ring of a head. *)
WellLinked(links, head) ==
  LET ring == {head} \union {Walk(links, head)[i] : i \in DOMAIN Walk(links, head)} IN
  \A x \in ring : /\ links.next[x] \in ring
                  /\ links.prev[links.next[x]] = x
=============================================================================
