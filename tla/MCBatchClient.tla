--------------------------- MODULE MCBatchClient ---------------------------
(* Instances of BatchClient for TLC. *)
EXTENDS BatchClient

=============================================================================
