------------------------------- MODULE Queue -------------------------------
(***************************************************************************)
(* src/bscl_list.c, and the queue that include/bscl_queue.h makes of it:   *)
(* threads that insert, and one that pops at the tail.  A step ends where  *)
(* another thread can see the difference: at the unlocks, and at every     *)
(* read or write of shared memory that is made without the mutex.          *)
(***************************************************************************)
EXTENDS Integers, Sequences, FiniteSets

CONSTANTS
  Pushers,     \* threads that insert, each an item of its own name at a time
  Popper,      \* the thread that pops; two could take the same tail
  MaxPushes,   \* bound: the insertions of a thread
  NULL

(* An item is told by the thread that allocates it and a number; its data  *)
(* is either set by that thread or still what malloc left in it.           *)
Items == Pushers \X (1 .. MaxPushes)
Threads == Pushers \union {Popper}

(* What Library assumes of the constants *)
QueueAssumption ==
  /\ Popper \notin Pushers /\ IsFiniteSet(Pushers) /\ MaxPushes \in Nat
  /\ NULL \notin Pushers /\ NULL \notin Items

VARIABLES
  queue,       \* [head, tail, size, next, prev, holder, filled, freed]
  past,        \* history: [order, pops, early, deleted]
  threads      \* [pc, item, nth]

vars == <<queue, past, threads>>

(* bscl_list_init; past.order are the items on the list from its head,     *)
(* past.pops how often each was popped (2: more than once), past.early the *)
(* items that were popped before their data was set.                       *)
Init ==
  /\ queue = [head |-> NULL, tail |-> NULL, size |-> 0, holder |-> NULL,
              next |-> [x \in Items |-> NULL], prev |-> [x \in Items |-> NULL],
              filled |-> {}, freed |-> {}]
  /\ past = [order |-> << >>, pops |-> [x \in Items |-> 0], early |-> {}, deleted |-> "no"]
  /\ threads = [pc |-> [t \in Threads |-> "idle"], item |-> NULL,
                nth |-> [t \in Pushers |-> 0]]

At(t, pc) == threads.pc[t] = pc /\ past.deleted = "no"
MoveTo(t, pc) == threads' = [threads EXCEPT !.pc[t] = pc]

Place(s, x) == CHOOSE i \in DOMAIN s : s[i] = x
Without(s, x) == LET i == Place(s, x) IN SubSeq(s, 1, i - 1) \o SubSeq(s, i + 1, Len(s))
OnList == {past.order[i] : i \in DOMAIN past.order}

LinkedHalf(q, x, after) ==     \* mutant: the item behind is not told of it
  LET next == IF after = NULL THEN q.head ELSE q.next[after] IN
  [q EXCEPT !.head = IF after = NULL THEN x ELSE @,
            !.next = IF after = NULL THEN [@ EXCEPT ![x] = next]
                     ELSE [@ EXCEPT ![x] = next, ![after] = x],
            !.prev = [@ EXCEPT ![x] = after],
            !.tail = IF next = NULL THEN x ELSE @]

Linked(q, x, after) ==
  LET next == IF after = NULL THEN q.head ELSE q.next[after] IN
  [q EXCEPT !.head = IF after = NULL THEN x ELSE @,
            !.next = IF after = NULL THEN [@ EXCEPT ![x] = next]
                     ELSE [@ EXCEPT ![x] = next, ![after] = x],
            !.prev = IF next = NULL THEN [@ EXCEPT ![x] = after]
                     ELSE [@ EXCEPT ![x] = after, ![next] = x],
            !.tail = IF next = NULL THEN x ELSE @]

(* bscl_list_insert: the item is allocated (or not, and the call returns)  *)
(* and linked, at the head or behind an item which is on the list and will *)
(* not be popped meanwhile.                                                *)
Link(t, after) ==
  LET x == <<t, threads.nth[t] + 1>> IN
  /\ At(t, "idle") /\ threads.nth[t] < MaxPushes /\ queue.holder = NULL
  /\ after \in OnList \union {NULL} /\ (after # NULL => after # threads.item)
  /\ queue' = [Linked(queue, x, after) EXCEPT !.holder = t]
  /\ past' = [past EXCEPT !.order =
       LET i == IF after = NULL THEN 0 ELSE Place(@, after) IN
       SubSeq(@, 1, i) \o <<x>> \o SubSeq(@, i + 1, Len(@))]
  /\ threads' = [threads EXCEPT !.pc[t] = "count", !.nth[t] = @ + 1]

(* The size, and the unlock *)
Count(t) ==
  /\ At(t, "count")
  /\ queue' = [queue EXCEPT !.size = @ + 1, !.holder = NULL]
  /\ MoveTo(t, "fill") /\ UNCHANGED past

(* data and len, after the unlock; the item may be popped by then, and     *)
(* even freed.                                                             *)
Fill(t) ==
  LET x == <<t, threads.nth[t]>> IN
  /\ At(t, "fill")
  /\ queue' = [queue EXCEPT !.filled = @ \union {x}]
  /\ MoveTo(t, "idle") /\ UNCHANGED past

-----------------------------------------------------------------------------
(* bscl_queue_pop: the tail is read without the mutex; *)
PopTail ==
  /\ At(Popper, "idle") /\ queue.tail # NULL
  /\ threads' = [threads EXCEPT !.pc[Popper] = "data", !.item = queue.tail]
  /\ UNCHANGED <<queue, past>>

(* so is its data, *)
PopData ==
  /\ At(Popper, "data")
  /\ past' = [past EXCEPT !.pops[threads.item] = IF @ < 2 THEN @ + 1 ELSE 2,
                          !.early = @ \union ({threads.item} \ queue.filled)]
  /\ MoveTo(Popper, "test") /\ UNCHANGED queue

RemoveTestOne ==     \* mutant: the last item counts as none
  /\ At(Popper, "test")
  /\ threads' = IF queue.size <= 1
                THEN [threads EXCEPT !.pc[Popper] = "idle", !.item = NULL]
                ELSE [threads EXCEPT !.pc[Popper] = "unlink"]
  /\ UNCHANGED <<queue, past>>

(* and the size, by bscl_list_remove, which does nothing when it is 0: the *)
(* item that was popped stays on the list.                                 *)
RemoveTest ==
  /\ At(Popper, "test")
  /\ threads' = IF queue.size = 0
                THEN [threads EXCEPT !.pc[Popper] = "idle", !.item = NULL]
                ELSE [threads EXCEPT !.pc[Popper] = "unlink"]
  /\ UNCHANGED <<queue, past>>

Unlinked(q, x) ==
  [q EXCEPT
     !.head = IF q.prev[x] = NULL THEN q.next[x] ELSE @,
     !.next = IF q.prev[x] = NULL THEN @ ELSE [@ EXCEPT ![q.prev[x]] = q.next[x]],
     !.tail = IF q.next[x] = NULL THEN q.prev[x] ELSE @,
     !.prev = IF q.next[x] = NULL THEN @ ELSE [@ EXCEPT ![q.next[x]] = q.prev[x]]]

(* The locked part of bscl_list_remove, *)
RemoveItem ==
  /\ At(Popper, "unlink") /\ queue.holder = NULL
  /\ queue' = [Unlinked(queue, threads.item) EXCEPT !.size = @ - 1]
  /\ past' = [past EXCEPT !.order = Without(@, threads.item)]
  /\ MoveTo(Popper, "free")

(* and the rest. *)
Free ==
  /\ At(Popper, "free")
  /\ queue' = [queue EXCEPT !.freed = @ \union {threads.item}]
  /\ threads' = [threads EXCEPT !.pc[Popper] = "idle", !.item = NULL]
  /\ UNCHANGED past

(* bscl_list_delete, when no thread uses the list any more.  The loop asks *)
(* for the item before the one behind the last, that is for NULL->prev:    *)
(* only an empty list can be deleted.                                      *)
Delete ==
  /\ past.deleted = "no" /\ \A t \in Threads : threads.pc[t] = "idle"
  /\ past' = [past EXCEPT !.deleted = IF queue.head = NULL THEN "yes" ELSE "crash"]
  /\ UNCHANGED <<queue, threads>>

Next ==
  \/ \E t \in Pushers : (\E after \in Items \union {NULL} : Link(t, after)) \/ Count(t) \/ Fill(t)
  \/ PopTail \/ PopData \/ RemoveTest \/ RemoveItem \/ Free
  \/ Delete

Spec == Init /\ [][Next]_vars

-----------------------------------------------------------------------------
(* The items from x along a field *)
Along(field, x) ==
  LET at[i \in 1 .. Cardinality(Items) + 1] ==
        IF i = 1 THEN x ELSE IF at[i - 1] = NULL THEN NULL ELSE field[at[i - 1]]
  IN  [i \in 1 .. Cardinality({j \in DOMAIN at : at[j] # NULL}) |-> at[i]]

(* Whenever a thread can read the pointers, the list is, forwards and      *)
(* backwards, what was inserted and not removed; nothing on it is freed;   *)
(* its size counts its items, one of which the holder may still have to    *)
(* count.  The item that is being popped stays on the list until its pop   *)
(* removes it, as its last, although neither it nor its data is read under *)
(* the mutex.                                                              *)
QueueHolds ==
  LET n == Len(past.order)
      uncounted == Cardinality({t \in Pushers : threads.pc[t] = "count"})
  IN
  /\ Along(queue.next, queue.head) = past.order
  /\ Along(queue.prev, queue.tail) = [i \in 1 .. n |-> past.order[n + 1 - i]]
  /\ OnList \intersect queue.freed = {}
  /\ queue.size = n - uncounted
  /\ threads.pc[Popper] \in {"data", "test", "unlink"} => n > 0 /\ threads.item = past.order[n]

(* An item whose insertion had returned is popped once, and with its data; *)
(* only one that was popped before that may come again.                    *)
PopsOnce == \A x \in Items : past.pops[x] > 1 => x \in past.early
=============================================================================
