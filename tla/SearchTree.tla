----------------------------- MODULE SearchTree -----------------------------
(***************************************************************************)
(* src/bscl_bstree.c: a binary search tree of nodes with parent pointers.  *)
(* Equal items are kept, the newer one as the left child of the older.     *)
(***************************************************************************)
EXTENDS Integers, Sequences, FiniteSets

CONSTANTS
  Keys,        \* what compare looks at, numbers
  Copies,      \* bound: the equal items in the tree
  MaxNodes,    \* bound: the items in the tree
  NULL

(* The address of a node is told by its key and a number: malloc may give  *)
(* any, and nothing but this tells nodes apart.                            *)
Nodes == Keys \X (1 .. Copies)
KeyOf(x) == x[1]

(* What Library assumes of the constants *)
TreeAssumption ==
  /\ Keys \subseteq Int /\ IsFiniteSet(Keys) /\ NULL \notin Nodes
  /\ Copies \in Nat \ {0} /\ MaxNodes \in Nat \ {0}

VARIABLES
  tree,        \* [root, left, right, parent, used]
  count        \* history: how many items of each key are in the tree

vars == <<tree, count>>

(* p->field = v, unless p is NULL *)
Store(f, p, v) == IF p = NULL THEN f ELSE [f EXCEPT ![p] = v]

(* malloc for an item of key k *)
Unused(t, k) == {n \in 1 .. Copies : <<k, n>> \notin t.used}
Fresh(t, k) == <<k, CHOOSE n \in Unused(t, k) : \A m \in Unused(t, k) : n <= m>>

(* The end of the path from x along a field: bscl_bstree_minimum with the  *)
(* left one, bscl_bstree_maximum with the right one.                       *)
Utmost(field, x) ==
  LET from[y \in Nodes] == IF field[y] = NULL THEN y ELSE from[field[y]]
  IN  IF x = NULL THEN NULL ELSE from[x]

Minimum(t, x) == Utmost(t.left, x)
Maximum(t, x) == Utmost(t.right, x)

FindLast(t, k) ==     \* mutant: goes on to the end, like an insertion
  LET from[x \in Nodes \union {NULL}] ==
        IF x # NULL /\ k < KeyOf(x) THEN from[t.left[x]]
        ELSE IF x # NULL THEN from[t.right[x]] ELSE x
  IN  from[t.root]

(* bscl_bstree_find *)
Find(t, k) ==
  LET from[x \in Nodes \union {NULL}] ==
        IF x = NULL THEN NULL
        ELSE IF k < KeyOf(x) THEN from[t.left[x]]
        ELSE IF k > KeyOf(x) THEN from[t.right[x]]
        ELSE x
  IN  from[t.root]

(* The neighbour in order: the utmost of the subtree on that side, or the  *)
(* first ancestor that is left towards the other side.                     *)
Neighbour(side, opposite, parent, x) ==
  LET up[y \in Nodes] == IF parent[y] # NULL /\ y = side[parent[y]] THEN up[parent[y]]
                         ELSE parent[y]
  IN  IF side[x] # NULL THEN Utmost(opposite, side[x]) ELSE up[x]

Successor(t, x) == Neighbour(t.right, t.left, t.parent, x)
Predecessor(t, x) == Neighbour(t.left, t.right, t.parent, x)

-----------------------------------------------------------------------------
(* bscl_bstree_new *)
NewTree(k) ==
  [root |-> <<k, 1>>, used |-> {<<k, 1>>},
   left |-> [n \in Nodes |-> NULL], right |-> [n \in Nodes |-> NULL],
   parent |-> [n \in Nodes |-> NULL]]

(* Where bscl_bstree_insert ends: at a node without a child on the side of *)
(* k, or at an equal one.                                                  *)
Place(t, k) ==
  LET from[x \in Nodes] ==
        IF k < KeyOf(x) /\ t.left[x] # NULL THEN from[t.left[x]]
        ELSE IF k > KeyOf(x) /\ t.right[x] # NULL THEN from[t.right[x]]
        ELSE x
  IN  from[t.root]

InsertEqualLoose(t, x, at) ==   \* mutant: the subtree under the equal one is dropped
  [t EXCEPT !.left = [@ EXCEPT ![x] = NULL, ![at] = x], !.right[x] = NULL, !.parent[x] = at]

(* An equal item goes between the one there is and its left subtree. *)
InsertEqual(t, x, at) ==
  [t EXCEPT !.left = [@ EXCEPT ![x] = t.left[at], ![at] = x],
            !.right[x] = NULL,
            !.parent = Store([@ EXCEPT ![x] = at], t.left[at], x)]

(* bscl_bstree_insert *)
InsertItem(t, k) ==
  LET x == Fresh(t, k)
      at == Place(t, k)
      alloc == [t EXCEPT !.used = @ \union {x}]
      leaf == [alloc EXCEPT !.left[x] = NULL, !.right[x] = NULL, !.parent[x] = at]
  IN  CASE k < KeyOf(at) -> [leaf EXCEPT !.left[at] = x]
        [] k > KeyOf(at) -> [leaf EXCEPT !.right[at] = x]
        [] OTHER -> InsertEqual(alloc, x, at)

-----------------------------------------------------------------------------
(* bscl_bstree_remove_item, with both children: the least item of the      *)
(* right subtree is taken out and given the two subtrees.                  *)
TakeOut(t, item, x) ==
  LET lifted == [t EXCEPT !.parent = Store(@, t.right[x], t.parent[x]),
                          !.left = [@ EXCEPT ![t.parent[x]] = t.right[x]],
                          !.right[x] = t.right[item]]
      apart == IF x = t.right[item] THEN t
               ELSE [lifted EXCEPT !.parent[t.right[item]] = x]
  IN  [apart EXCEPT !.left[x] = t.left[item], !.parent = Store(@, t.left[item], x)]

(* The item's place is given to x, which may be NULL; the item is freed    *)
(* (its fields, which nothing reads any more, are blanked).                *)
Replace(t, item, x) ==
  LET up == t.parent[item]
      placed == IF item = t.root THEN [t EXCEPT !.root = x]
                ELSE IF t.left[up] = item THEN [t EXCEPT !.left[up] = x]
                ELSE [t EXCEPT !.right[up] = x]
  IN  [placed EXCEPT !.used = @ \ {item},
                      !.parent = [Store(@, x, up) EXCEPT ![item] = NULL],
                      !.left[item] = NULL, !.right[item] = NULL]

RemoveItem(t, item) ==
  IF t.left[item] = NULL THEN Replace(t, item, t.right[item])
  ELSE IF t.right[item] = NULL THEN Replace(t, item, t.left[item])
  ELSE LET x == Minimum(t, t.right[item]) IN Replace(TakeOut(t, item, x), item, x)

(* bscl_bstree_remove: until none is found. *)
RemoveAll(t, k) ==
  LET after[n \in 0 .. Copies] ==
        IF n = 0 THEN t
        ELSE IF Find(after[n - 1], k) = NULL THEN after[n - 1]
        ELSE RemoveItem(after[n - 1], Find(after[n - 1], k))
  IN  after[Copies]

-----------------------------------------------------------------------------
Init ==
  \E k \in Keys : /\ tree = NewTree(k)
                  /\ count = [j \in Keys |-> IF j = k THEN 1 ELSE 0]

Insert(k) ==
  /\ tree.root # NULL /\ Cardinality(tree.used) < MaxNodes /\ Unused(tree, k) # {}
  /\ tree' = InsertItem(tree, k)
  /\ count' = [count EXCEPT ![k] = @ + 1]

Remove(k) ==
  /\ tree' = RemoveAll(tree, k)
  /\ count' = [count EXCEPT ![k] = 0]

Next == \E k \in Keys : Insert(k) \/ Remove(k)

Spec == Init /\ [][Next]_vars

-----------------------------------------------------------------------------
(* The nodes that a walk meets which begins at x and asks for a neighbour  *)
(* each time, or the first of them when it is longer than the tree.        *)
InTurn(x, step(_)) ==
  LET n == Cardinality(tree.used)
      at[i \in 1 .. n + 1] == IF i = 1 THEN x
                              ELSE IF at[i - 1] = NULL THEN NULL ELSE step(at[i - 1])
      met == {i \in 1 .. n + 1 : at[i] # NULL}
  IN  [i \in 1 .. Cardinality(met) |-> at[i]]

Up(x) == Successor(tree, x)
Down(x) == Predecessor(tree, x)
Ascending == InTurn(Minimum(tree, tree.root), Up)
Descending == InTurn(Maximum(tree, tree.root), Down)

(* A walk by bscl_bstree_successor from the minimum meets every item that  *)
(* is in the tree once, in order, and one by bscl_bstree_predecessor from  *)
(* the maximum meets the same items the other way round: insertions next   *)
(* to equal items and removals of inner nodes lose no subtree and leave no *)
(* pointer to a parent behind.                                             *)
TreeHolds ==
  LET up == Ascending
      n == Len(up)
  IN
  /\ \A k \in Keys : Cardinality({i \in 1 .. n : KeyOf(up[i]) = k}) = count[k]
  /\ {up[i] : i \in 1 .. n} = tree.used /\ n = Cardinality(tree.used)
  /\ \A i \in 1 .. n - 1 : KeyOf(up[i]) <= KeyOf(up[i + 1])
  /\ Descending = [i \in 1 .. n |-> up[n + 1 - i]]

(* What is in the tree is found, and nothing else. *)
FindHolds == \A k \in Keys : count[k] > 0 <=> Find(tree, k) # NULL
=============================================================================
