-------------------------- MODULE MCForwardingJobs --------------------------
(* Instances of ForwardingJobs for TLC. *)
EXTENDS ForwardingJobs, TLC

Symmetry == Permutations(Tokens) \cup Permutations(Workers)
=============================================================================
