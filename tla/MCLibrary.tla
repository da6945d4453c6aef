----------------------------- MODULE MCLibrary -----------------------------
EXTENDS Library

CONSTANTS m1, m2, m3, popper, verbose, output, one, two

(* Two keys share a bucket. *)
MCHash(k) == IF k = 3 THEN 1 ELSE 0

(* Heads of one to three lines, one of them longer than the buffer, with   *)
(* and without a length, with a type that fits and one that does not; a    *)
(* body that comes with a byte too many.                                   *)
Line(n) == [size |-> n, length |-> FALSE, type |-> 0]
LengthLine == [size |-> 4, length |-> TRUE, type |-> 0]
TypeLine(n) == [size |-> 2 + n, length |-> FALSE, type |-> n]
MCAnswers ==
  [lines : {<<Line(5), LengthLine, Line(3)>>, <<Line(5), Line(3), LengthLine>>,
            <<Line(5)>>, <<Line(5), Line(15)>>, <<Line(5), LengthLine, TypeLine(1)>>,
            <<Line(5), TypeLine(2), LengthLine>>},
   body : {0, 2, 4}, extra : {0, 1}]
=============================================================================
