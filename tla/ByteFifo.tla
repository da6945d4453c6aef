------------------------------ MODULE ByteFifo ------------------------------
(***************************************************************************)
(* What a buffer_t promises: a bounded first-in first-out queue of bytes   *)
(* that never overwrites a byte it holds.  `out' is the last call: what it *)
(* asked for, its return value and the bytes it handed out.                *)
(***************************************************************************)
EXTENDS Integers, Sequences

CONSTANTS Capacity,  \* the bytes the queue can hold
          Elem,      \* the bytes
          MaxCall    \* the longest request of a call

VARIABLES q, out

vars == <<q, out>>

Result(call, args, ret, data) ==
  [call |-> call, args |-> args, ret |-> ret, data |-> data]

Smaller(m, n) == IF m < n THEN m ELSE n

Init == /\ q = << >>
        /\ out = Result("init", << >>, 0, << >>)

(* As many of the bytes as there is room for join the tail. *)
Append_(data) ==
  LET n == Smaller(Len(data), Capacity - Len(q)) IN
  /\ q' = q \o SubSeq(data, 1, n)
  /\ out' = Result("write", data, n, << >>)

(* Up to n bytes leave from the front, and are handed out. *)
Take(n) ==
  LET m == Smaller(n, Len(q)) IN
  /\ q' = SubSeq(q, m + 1, Len(q))
  /\ out' = Result("read", << n >>, m, SubSeq(q, 1, m))

(* Up to n bytes leave from the front, unseen. *)
Discard(n) ==
  LET m == Smaller(n, Len(q)) IN
  /\ q' = SubSeq(q, m + 1, Len(q))
  /\ out' = Result("drop", << n >>, m, << >>)

(* Up to n bytes from position begin on are handed out, and stay. *)
Peek(begin, n) ==
  LET data == SubSeq(q, begin + 1, Smaller(begin + n, Len(q))) IN
  /\ out' = Result("copy", << begin, n >>, Len(data), data)
  /\ UNCHANGED q

Flush == /\ q' = << >>
         /\ out' = Result("clean", << >>, 0, << >>)

Request == 0 .. MaxCall

Next ==
  \/ \E k \in Request : \E data \in [1 .. k -> Elem] : Append_(data)
  \/ \E n \in Request : Take(n)
  \/ \E n \in Request : Discard(n)
  \/ \E begin, n \in Request : Peek(begin, n)
  \/ Flush

Spec == Init /\ [][Next]_vars
=============================================================================
