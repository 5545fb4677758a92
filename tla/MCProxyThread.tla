---------------------------- MODULE MCProxyThread ----------------------------
(* Instances of ProxyThread for TLC. *)
EXTENDS ProxyThread

=============================================================================
