------------------------------ MODULE MCIngress ------------------------------
(* Instances of Ingress for TLC. *)
EXTENDS Ingress, TLC

Symmetry == Permutations(Attempts)
=============================================================================
