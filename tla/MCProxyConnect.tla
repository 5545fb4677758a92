--------------------------- MODULE MCProxyConnect ---------------------------
(* Instances of ProxyConnect for TLC. *)
EXTENDS ProxyConnect, TLC

Symmetry == Permutations(Threads) \cup Permutations(Fds)

=============================================================================
