-------------------------------- MODULE Url --------------------------------
(***************************************************************************)
(* src/bscl_url.c: the path and the query of a text like path?key=value&.. *)
(* One pass with two pointers, one to the key and one to the value; the    *)
(* path, the keys and the values are copied into arrays of PATH_MAX, the   *)
(* pairs into QUERY_NUM_MAX places, and nothing looks at these sizes.      *)
(***************************************************************************)
EXTENDS Integers, Sequences, FiniteSets, Places

CONSTANTS
  Plain,       \* characters that mean nothing here
  PathMax,     \* PATH_MAX, with the 0 behind the characters
  QueryMax,    \* QUERY_NUM_MAX
  MaxText      \* bound: the characters of a text

(* What Library assumes of the constants *)
UrlAssumption ==
  /\ {"?", "=", "&"} \intersect Plain = {} /\ MaxText \in Nat
  /\ PathMax \in Nat \ {0} /\ QueryMax \in Nat \ {0}

Texts == UNION {[1 .. n -> Plain \union {"?", "=", "&"}] : n \in 0 .. MaxText}

(* Where a pointer that is NULL points *)
NoValue == 0

VARIABLES
  url,         \* [phase, at, path, key, value, query]; key and value are positions
  text         \* what is parsed

vars == <<url, text>>

Init ==
  /\ text \in Texts
  /\ url = [phase |-> "path", at |-> 1, path |-> << >>, key |-> 1, value |-> NoValue,
            query |-> << >>]

(* The first loop: the path ends at the only question mark, which may not  *)
(* come first.  What is before it is copied.                               *)
Path ==
  LET marks == {i \in DOMAIN text : text[i] = "?"}
      i == CHOOSE j \in marks : TRUE
  IN
  /\ url.phase = "path"
  /\ url' = IF Cardinality(marks) # 1 \/ 1 \in marks THEN [url EXCEPT !.phase = "refused"]
            ELSE IF i - 1 >= PathMax THEN [url EXCEPT !.phase = "overrun"]
            ELSE [url EXCEPT !.phase = "query", !.path = SubSeq(text, 1, i - 1),
                             !.key = i + 1, !.at = i + 1]
  /\ UNCHANGED text

(* The pair between the pointers and position i does not fit: when the     *)
(* value's pointer is before the key, the size of the key is huge.         *)
Overruns(u, i) ==
  \/ u.value <= u.key
  \/ Len(u.query) >= QueryMax
  \/ u.value - u.key - 1 >= PathMax
  \/ i - u.value >= PathMax

TakePairLong(u, i) ==     \* mutant: the key takes its "=" with it
  IF u.value = NoValue THEN [u EXCEPT !.phase = "refused"]
  ELSE IF Overruns(u, i) THEN [u EXCEPT !.phase = "overrun"]
  ELSE [u EXCEPT !.query = Append(@, [key |-> SubSeq(text, u.key, u.value - 1),
                                      value |-> SubSeq(text, u.value, i - 1)]),
                 !.key = i + 1]

TakePair(u, i) ==
  IF u.value = NoValue THEN [u EXCEPT !.phase = "refused"]
  ELSE IF Overruns(u, i) THEN [u EXCEPT !.phase = "overrun"]
  ELSE [u EXCEPT !.query = Append(@, [key |-> SubSeq(text, u.key, u.value - 2),
                                      value |-> SubSeq(text, u.value, i - 1)]),
                 !.key = i + 1]

(* The second loop, one character *)
Scan ==
  /\ url.phase = "query" /\ url.at <= Len(text)
  /\ LET i == url.at
         next == [url EXCEPT !.at = i + 1]
     IN  url' = CASE text[i] = "=" -> [next EXCEPT !.value = i + 1]
                  [] text[i] = "&" -> TakePair(next, i)
                  [] OTHER -> next
  /\ UNCHANGED text

(* What is left behind the last "&" *)
End ==
  /\ url.phase = "query" /\ url.at > Len(text)
  /\ LET last == IF url.value = NoValue THEN url ELSE TakePair(url, url.at) IN
     url' = IF last.phase = "query" THEN [last EXCEPT !.phase = "done"] ELSE last
  /\ UNCHANGED text

Next == Path \/ Scan \/ End

Spec == Init /\ [][Next]_vars

-----------------------------------------------------------------------------
(* The fields of the query, told by the positions they begin at *)
At(c) == {i \in DOMAIN text : text[i] = c}
Separators == {j \in At("&") : \E m \in At("?") : m < j}
EndOf(i) == LET ends == {j \in Separators : j >= i} \union {Len(text) + 1} IN
            CHOOSE j \in ends : \A k \in ends : j <= k
Fields == InOrder({j + 1 : j \in At("?") \union Separators})
EqualsIn(i) == {j \in At("=") : i <= j /\ j < EndOf(i)}

LastEquals(i) == CHOOSE j \in EqualsIn(i) : \A k \in EqualsIn(i) : k <= j

(* A field divided at its last "=" *)
Divided(i) ==
  [key |-> SubSeq(text, i, LastEquals(i) - 1),
   value |-> SubSeq(text, LastEquals(i) + 1, EndOf(i) - 1)]

TooLong(i) ==
  /\ EqualsIn(i) # {}
  /\ LastEquals(i) - i >= PathMax \/ EndOf(i) - LastEquals(i) - 1 >= PathMax

PathText == SubSeq(text, 1, (CHOOSE q \in At("?") : TRUE) - 1)

(* No path before a single "?", or a first field of several without a "="  *)
Malformed ==
  \/ Cardinality(At("?")) # 1 \/ 1 \in At("?")
  \/ \E n \in DOMAIN Fields : n > 1 /\ EqualsIn(Fields[1]) = {}

(* A path, a key or a value too long, too many fields, or a field without  *)
(* a "=" behind one that has it: the value's pointer is still the last     *)
(* one's.                                                                  *)
Unfit ==
  \/ \E q \in At("?") : q - 1 >= PathMax
  \/ \E n \in DOMAIN Fields : n > QueryMax \/ TooLong(Fields[n])
  \/ \E m, n \in DOMAIN Fields : m < n /\ EqualsIn(Fields[m]) # {} /\ EqualsIn(Fields[n]) = {}

(* A text that is taken has the path and the pairs it says, in its order;  *)
(* a key may hold a "=" itself, its last one begins the value, and a       *)
(* single field without one is no pair.  Only a malformed text is refused, *)
(* and only one that does not fit the arrays, or has a field without a "=" *)
(* too late, makes the parser run over: every other text is taken.         *)
QueryHolds ==
  /\ url.phase = "done" =>
       /\ url.path = PathText
       /\ url.query = IF \A n \in DOMAIN Fields : EqualsIn(Fields[n]) = {} THEN << >>
                      ELSE [n \in DOMAIN Fields |-> Divided(Fields[n])]
  /\ url.phase = "refused" => Malformed
  /\ url.phase = "overrun" => Unfit
=============================================================================
