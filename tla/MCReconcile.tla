---------------------------- MODULE MCReconcile -----------------------------
(* Instances of Reconcile for TLC.                                           *)
EXTENDS Reconcile

CONSTANTS u1, u2, v1

(* The only video belongs to u1.                                             *)
JustOne == [v \in {v1} |-> u1]
=============================================================================
