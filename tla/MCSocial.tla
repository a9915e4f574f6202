------------------------------ MODULE MCSocial ------------------------------
(* Instances of Social, with the history of Removal, for TLC.                *)
EXTENDS Removal, TLC

CONSTANTS u1, v1

(* The video belongs to u1; every other user is a visitor.                   *)
OneVideo == [v \in {v1} |-> u1]

(* Requests differ in nothing but their names.                               *)
Symmetry == Permutations(Requests)
=============================================================================
