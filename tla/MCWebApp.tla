------------------------------ MODULE MCWebApp ------------------------------
(* Instances of WebApp for TLC: searches of the web client while data is refreshed. *)
EXTENDS WebApp

(* A search that is refused and one for coordinates, as good as any other. *)
MCForms == {{"letter", "latitude"}, Coordinates}

=============================================================================
