----------------------------- MODULE MCTasklet -----------------------------
EXTENDS Tasklet

CONSTANTS t1, t2, p1, p2

(* One pender for each tasklet, or both penders for the first. *)
OwnPender(p) == IF p = p2 /\ t2 \in Tasklets THEN t2 ELSE t1
=============================================================================
