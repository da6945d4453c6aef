------------------------------ MODULE HashMap ------------------------------
(***************************************************************************)
(* src/bscl_hashmap.c: buckets, each a pointer to one item of a list that  *)
(* ends with NULL.  A lookup moves the item it has found before the one    *)
(* the bucket points at, but does not change the bucket.                   *)
(***************************************************************************)
EXTENDS NullList

CONSTANTS
  Keys,
  Copies,      \* bound: the items of one key
  MaxItems,    \* bound: the items in the map
  Hash(_),     \* the hash of a key: the index of its bucket
  Buckets      \* the indices

(* An item is told by its key and a number, and so is the value it holds.  *)
Items == Keys \X (1 .. Copies)
KeyOf(x) == x[1]

(* What Library assumes of the constants *)
MapAssumption ==
  /\ IsFiniteSet(Keys) /\ Copies \in Nat /\ MaxItems \in Nat /\ NULL \notin Items
  /\ \A k \in Keys : Hash(k) \in Buckets

VARIABLES
  map,         \* [buck, links, used]
  known        \* history: [value, moved, touched, front, cut, deleted]

vars == <<map, known>>

(* bscl_hashmap_new *)
Init ==
  /\ map = [buck |-> [b \in Buckets |-> NULL], used |-> {},
            links |-> [prev |-> [x \in Items |-> NULL], next |-> [x \in Items |-> NULL]]]
  /\ known = [value |-> [k \in Keys |-> NULL],   \* the item that was set last
              moved |-> {},                      \* the keys looked up since
              touched |-> {},                    \* the items a lookup has moved
              front |-> FALSE,                   \* an item a bucket points at was looked up
              cut |-> FALSE,                     \* such an item was removed and freed
              deleted |-> FALSE]

Chain(k) == NullWalk(map.links, map.buck[Hash(k)])

Usable == ~known.cut /\ ~known.deleted

(* bscl_hashmap_find *)
Find(k) ==
  LET hits == {i \in DOMAIN Chain(k) : KeyOf(Chain(k)[i]) = k} IN
  IF hits = {} THEN NULL ELSE Chain(k)[CHOOSE i \in hits : \A j \in hits : i <= j]

InsertBehind(links, at, new) ==   \* mutant: the new item goes behind the bucket's
  [prev |-> Store([links.prev EXCEPT ![new] = at], links.next[at], new),
   next |-> [links.next EXCEPT ![new] = links.next[at], ![at] = new]]

InsertFront(links, at, new) == NullInsertPrev(links, at, new)

(* bscl_hashmap_set *)
Set(k) ==
  LET b == Hash(k)
      unused == {n \in 1 .. Copies : <<k, n>> \notin map.used}
      x == <<k, CHOOSE n \in unused : \A m \in unused : n <= m>>
  IN
  /\ Usable /\ Cardinality(map.used) < MaxItems /\ unused # {}
  /\ map' = [map EXCEPT
       !.buck[b] = x, !.used = @ \union {x},
       !.links = IF map.buck[b] = NULL
                 THEN [prev |-> [@.prev EXCEPT ![x] = NULL], next |-> [@.next EXCEPT ![x] = NULL]]
                 ELSE InsertFront(@, map.buck[b], x)]
  /\ known' = [known EXCEPT !.value[k] = x, !.moved = @ \ {k}]

(* bscl_hashmap_get of a key whose bucket's list ends *)
Get(k) ==
  LET x == Find(k)
      front == map.buck[Hash(k)]
  IN
  /\ Usable /\ WalkIsFinite(map.links, front) /\ x # NULL
  /\ map' = [map EXCEPT !.links = InsertFront(NullRemove(@, x), front, x)]
  /\ known' = [known EXCEPT !.moved = @ \union {k}, !.touched = @ \union {x},
                            !.front = @ \/ x = front]

(* bscl_hashmap_remove: of the items with the key the first one goes.  The *)
(* bucket is not changed; when it was the bucket's, the map can no longer  *)
(* be used.                                                                *)
Remove(k) ==
  LET x == Find(k) IN
  /\ Usable /\ WalkIsFinite(map.links, map.buck[Hash(k)]) /\ x # NULL
  /\ map' = [map EXCEPT !.links = NullRemove(@, x), !.used = @ \ {x}]
  /\ known' = [known EXCEPT !.value[k] = NULL, !.moved = @ \union {k},
                            !.touched = @ \ {x}, !.cut = x = map.buck[Hash(k)]]

(* bscl_hashmap_delete: what is on the lists from the buckets on is freed. *)
Delete ==
  /\ Usable /\ \A k \in Keys : WalkIsFinite(map.links, map.buck[Hash(k)])
  /\ map' = [map EXCEPT !.used = @ \ UNION {{Chain(k)[i] : i \in DOMAIN Chain(k)} : k \in Keys}]
  /\ known' = [known EXCEPT !.deleted = TRUE]

Next == (\E k \in Keys : Set(k) \/ Get(k) \/ Remove(k)) \/ Delete

Spec == Init /\ [][Next]_vars

-----------------------------------------------------------------------------
(* Until a lookup hits an item that a bucket points at (the list may have  *)
(* a cycle from then on) or such an item is freed: every list ends and     *)
(* holds no freed item; a key that was not looked up or removed since it   *)
(* was set last is found with that value, whichever other keys of its      *)
(* bucket were looked up, moved out of reach or removed; and deleting the  *)
(* map leaves no item allocated but such as a lookup has moved.            *)
KeysKept ==
  ~known.front /\ ~known.cut =>
    IF known.deleted THEN map.used \subseteq known.touched
    ELSE \A k \in Keys :
           /\ WalkIsFinite(map.links, map.buck[Hash(k)])
           /\ \A i \in DOMAIN Chain(k) : Chain(k)[i] \in map.used
           /\ k \notin known.moved => Find(k) = known.value[k]
=============================================================================
