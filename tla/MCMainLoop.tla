----------------------------- MODULE MCMainLoop -----------------------------
(* Instances of Startup with its MainLoop for TLC. *)
EXTENDS Startup, TLC

CONSTANTS p1, p2, portA, portB

(* A daemon that is started by root and drops its privileges *)
Daemon ==
    [use     |-> "serve",
     listen  |-> "command line" :> {portA} @@ "file" :> {},
     parents |-> {"file"},
     auth    |-> "command line" :> "none" @@ "file" :> "known",
     daemon  |-> TRUE,
     uid     |-> "valid",
     root    |-> TRUE,
     pidfile |-> TRUE]

(* The same port from the file, where an unknown Auth does not count *)
Foreground ==
    [Daemon EXCEPT !.listen = "command line" :> {} @@ "file" :> {portA},
                   !.auth = "command line" :> "known" @@ "file" :> "unknown",
                   !.daemon = FALSE, !.uid = "none"]

OtherPort == [Daemon EXCEPT !.listen["file"] = {portB}, !.uid = "invalid", !.root = FALSE]

Detect == [Daemon EXCEPT !.use = "detect"]
Hash == [Daemon EXCEPT !.use = "hash", !.parents = {}, !.pidfile = FALSE]
NoParent == [Daemon EXCEPT !.parents = {}]
BadUser == [Daemon EXCEPT !.uid = "invalid"]
BadAuth == [Daemon EXCEPT !.auth = "command line" :> "none" @@ "file" :> "unknown"]

Pair(s, t) == p1 :> s @@ p2 :> t

(* The main loop of p1 runs beside a second start on its port; the other     *)
(* uses and mistakes run beside a process that serves another port or the   *)
(* same.                                                                    *)
MCScripts ==
    {Pair(Daemon, Foreground), Pair(Hash, OtherPort)}
        \cup {Pair(s, Daemon) : s \in {Detect, NoParent, BadUser, BadAuth}}

Symmetry == Permutations(Conns)

=============================================================================
