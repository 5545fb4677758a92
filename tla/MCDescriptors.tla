--------------------------- MODULE MCDescriptors ---------------------------
(* Instances of Descriptors for TLC. *)
EXTENDS Descriptors, TLC

Config(ports, resolves, scanner) ==
    [ports |-> ports, resolves |-> resolves, scanner |-> scanner]

All == {"proxy", "tunnel", "socks"}

(* All services and proxy ports only, with names that resolve and that may   *)
(* not; the scanner plugin on proxy ports.                                  *)
MCConfigs ==
    {Config(p, r, FALSE) : p \in {All, {"proxy"}}, r \in BOOLEAN}
        \cup {Config({"proxy"}, TRUE, TRUE)}

MCTunnel == {Config({"tunnel"}, TRUE, FALSE)}

Symmetry == Permutations(Threads)

=============================================================================
