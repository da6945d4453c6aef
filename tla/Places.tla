------------------------------- MODULE Places -------------------------------
(***************************************************************************)
(* The positions in a text or on a command line, one after the other.      *)
(***************************************************************************)
EXTENDS Integers, FiniteSets

(* The members of a finite set of numbers, in their order *)
InOrder(S) ==
  [n \in 1 .. Cardinality(S) |-> CHOOSE i \in S : Cardinality({j \in S : j <= i}) = n]
=============================================================================
