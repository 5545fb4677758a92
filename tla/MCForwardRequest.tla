-------------------------- MODULE MCForwardRequest --------------------------
(* Instances of ForwardRequest for TLC. *)
EXTENDS ForwardRequest, TLC

Symmetry == Permutations(Threads) \cup Permutations(Fds)

=============================================================================
