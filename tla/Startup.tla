------------------------------ MODULE Startup ------------------------------
(***************************************************************************)
(* The start of cntlm (main.c before its main loop): the command line and  *)
(* the configuration file, the listening ports, the two other uses of the  *)
(* program (-M tries out the dialects of the parent, -H prints hashes),    *)
(* the daemon, its identity and its PID file.                              *)
(*                                                                         *)
(* The program may be started more than once at a time, and a process that *)
(* has ended may be started again.  The processes meet in the ports, each  *)
(* of which one of them can have, and in the PID file.  One of them, self, *)
(* goes on with the main loop of MainLoop; the main loops of the others    *)
(* are left out.                                                           *)
(***************************************************************************)
EXTENDS MainLoop

CONSTANTS
    Processes,  \* the processes that are started with the same PID file
    self,       \* the one whose main loop is MainLoop
    None,       \* no process
    Ports,      \* the proxy ports they may be told to open
    Scripts     \* the settings of the processes that are considered

(* A setting is given on the command line, in the configuration file, in    *)
(* both or in none.                                                         *)
Source == {"command line", "file"}

Settings ==
    [use     : {"serve", "detect", "hash"},     \* the rest, -M, -H
     listen  : [Source -> SUBSET Ports],        \* -l, Listen
     parents : SUBSET Source,                   \* arguments, Proxy
     auth    : [Source -> {"none", "known", "unknown"}],  \* -a, Auth
     daemon  : BOOLEAN,                         \* no -f
     uid     : {"none", "valid", "invalid"},    \* -U
     root    : BOOLEAN,                         \* started by root
     pidfile : BOOLEAN]                         \* -P

ASSUME StartupAssumption ==
    /\ self \in Processes
    /\ None \notin Processes
    /\ Scripts \subseteq [Processes -> Settings]

VARIABLES
    script,   \* how each process is started, each time
    stage,    \* how far it has come
    root,     \* whether it has root privileges
    bound,    \* the process that has a port
    pidfile   \* the process the PID file names

process == <<script, stage, root, bound, pidfile>>
startvars == <<vars, process>>

Stage == {"off", "options", "file", "checks", "password", "fork", "identity", "pid",
          "signals", "serving", "bailout", "freed", "ended"}

StartInit ==
    /\ Init
    /\ script \in Scripts
    /\ stage = [p \in Processes |-> "off"]
    /\ root = [p \in Processes |-> FALSE]
    /\ bound = [n \in Ports |-> None]
    /\ pidfile = None

GoOn(p, s) == stage' = [stage EXCEPT ![p] = s]

BoundBy(p) == {n \in Ports : bound[n] = p}

(* listen_add(): a port another process has is left out, with a message. *)
ListenAdd(p, ports) ==
    bound' = [n \in Ports |-> IF n \in ports /\ bound[n] = None THEN p ELSE bound[n]]

(* The end of a process closes its ports.  Only self is never started again. *)
End(p) ==
    /\ GoOn(p, IF p = self THEN "ended" ELSE "off")
    /\ bound' = [n \in Ports |-> IF bound[n] = p THEN None ELSE bound[n]]

(* myexit(1): nothing is cleaned up. *)
Fail(p) ==
    /\ End(p)
    /\ UNCHANGED <<script, root, pidfile>>

-----------------------------------------------------------------------------
Start(p) ==
    /\ stage[p] = "off"
    /\ GoOn(p, "options")
    /\ root' = [root EXCEPT ![p] = script[p].root]
    /\ UNCHANGED <<script, bound, pidfile>>

(* The loop over the options opens the ports of the command line; -h, an     *)
(* option that is not valid or a file that cannot be read ends the program. *)
Options(p) ==
    /\ stage[p] = "options"
    /\ \/ /\ ListenAdd(p, script[p].listen["command line"])
          /\ GoOn(p, "file")
          /\ UNCHANGED <<script, root, pidfile>>
       \/ Fail(p)

(* The configuration file adds ports and parents. *)
File(p) ==
    /\ stage[p] = "file"
    /\ \/ /\ ListenAdd(p, script[p].listen["file"])
          /\ GoOn(p, "checks")
          /\ UNCHANGED <<script, root, pidfile>>
       \/ Fail(p)

(* CFG_DEFAULT: of a single option the command line's value counts. *)
Auth(p) ==
    LET given == script[p].auth IN
    IF given["command line"] # "none" THEN given["command line"] ELSE given["file"]

(* Mutant of Complete: any port will do, also another process's. *)
CompleteAnyPort(p) ==
    /\ script[p].use # "hash" => script[p].parents # {}
    /\ script[p].use = "serve" => \E n \in Ports : bound[n] # None
    /\ Auth(p) # "unknown"

Complete(p) ==
    /\ script[p].use # "hash" => script[p].parents # {}
    /\ script[p].use = "serve" => BoundBy(p) # {}
    /\ Auth(p) # "unknown"

Checks(p) ==
    /\ stage[p] = "checks"
    /\ IF Complete(p)
          THEN GoOn(p, "password") /\ UNCHANGED <<script, root, bound, pidfile>>
          ELSE Fail(p)

(* The password is turned into hashes, or the hashes are read, which may    *)
(* fail.  "check we really have it" compares addresses of arrays with 0 and *)
(* never finds one missing.                                                 *)
Password(p) ==
    /\ stage[p] = "password"
    /\ \/ /\ script[p].use # "serve"
          /\ GoOn(p, "bailout")
          /\ UNCHANGED <<script, root, bound, pidfile>>
       \/ /\ script[p].use = "serve"
          /\ GoOn(p, IF script[p].daemon THEN "fork" ELSE "identity")
          /\ UNCHANGED <<script, root, bound, pidfile>>
       \/ Fail(p)

(* The child goes on with the ports; the parent process ends, successfully. *)
Fork(p) ==
    /\ stage[p] = "fork"
    /\ \/ GoOn(p, "identity") /\ UNCHANGED <<script, root, bound, pidfile>>
       \/ Fail(p)

(* -U: setgid() and setuid(), which only root can do *)
Identity(p) ==
    /\ stage[p] = "identity"
    /\ \/ /\ script[p].uid = "none" \/ ~root[p]
          /\ GoOn(p, "pid")
          /\ UNCHANGED <<script, root, bound, pidfile>>
       \/ /\ script[p].uid = "valid"
          /\ root[p]
          /\ root' = [root EXCEPT ![p] = FALSE]
          /\ GoOn(p, "pid")
          /\ UNCHANGED <<script, bound, pidfile>>
       \/ script[p].uid # "none" /\ root[p] /\ Fail(p)

(* -P: an older file is overwritten. *)
PidFile(p) ==
    /\ stage[p] = "pid"
    /\ \/ /\ GoOn(p, "signals")
          /\ pidfile' = IF script[p].pidfile THEN p ELSE pidfile
          /\ UNCHANGED <<script, root, bound>>
       \/ script[p].pidfile /\ Fail(p)

Signals(p) ==
    /\ stage[p] = "signals"
    /\ GoOn(p, "serving")
    /\ UNCHANGED <<script, root, bound, pidfile>>

(* A signal before its handler is installed, or one that has no handler,    *)
(* ends the process: what it has written stays.  The main loop of self is   *)
(* spared.                                                                  *)
Killed(p) ==
    /\ stage[p] \notin {"off", "ended"}
    /\ ~(p = self /\ stage[p] = "serving")
    /\ Fail(p)

-----------------------------------------------------------------------------
(* The main loop of another process is over. *)
Leave(p) ==
    /\ stage[p] = "serving"
    /\ p # self
    /\ GoOn(p, "bailout")
    /\ UNCHANGED <<script, root, bound, pidfile>>

(* bailout: the PID file is removed, whoever has written it ... *)
Unlink(p) ==
    /\ pidfile' = IF script[p].pidfile THEN None ELSE pidfile
    /\ UNCHANGED bound

Bailout(p) ==
    /\ stage[p] = "bailout"
    /\ GoOn(p, "freed")
    /\ Unlink(p)
    /\ UNCHANGED <<script, root>>

(* ... and exit() closes the ports. *)
Ended(p) ==
    /\ stage[p] = "freed"
    /\ Fail(p)

StartStep(p) ==
    \/ Start(p) \/ Options(p) \/ File(p) \/ Checks(p) \/ Password(p) \/ Fork(p)
    \/ Identity(p) \/ PidFile(p) \/ Signals(p) \/ Killed(p)
    \/ Leave(p) \/ Bailout(p) \/ Ended(p)

-----------------------------------------------------------------------------
(* The main loop of self; its ends are those of the process. *)
Serve ==
    /\ stage[self] = "serving"
    /\ Next
    /\ CASE main = "leave" /\ main' = "freed" ->
              Unlink(self) /\ UNCHANGED <<script, stage, root>>
         [] main = "freed" /\ main' = "exited" ->
              Fail(self)
         [] OTHER ->
              UNCHANGED process

StartNext ==
    \/ Serve
    \/ \E p \in Processes : StartStep(p) /\ UNCHANGED vars

(* The fairness of MainLoop, for the process that serves *)
StartSpec ==
    /\ StartInit
    /\ [][StartNext]_startvars
    /\ WF_startvars(Serve /\ MainStep)
    /\ \A c \in Conns : WF_startvars(Serve /\ ThreadStep(c))

-----------------------------------------------------------------------------
(* Properties *)

(* Every variable has its type, and connections are only accepted by a      *)
(* process that serves.                                                     *)
StartTypeOK ==
    /\ TypeOK
    /\ script \in Scripts
    /\ stage \in [Processes -> Stage]
    /\ root \in [Processes -> BOOLEAN]
    /\ bound \in [Ports -> Processes \cup {None}]
    /\ pidfile \in Processes \cup {None}
    /\ stage[self] \notin {"serving", "ended"} => main = "test" /\ quit = 0 /\ tc = 0

(* Until bailout *)
Serving(p) == stage[p] = "serving" /\ (p = self => main \notin {"freed", "exited"})

Prepared(p) ==
    /\ script[p].parents # {}
    /\ BoundBy(p) # {}
    /\ script[p].uid = "valid" => ~root[p]

(* The processes are all to serve the same port and to write the PID file. *)
SamePort ==
    \E n \in Ports : \A p \in Processes :
        /\ script[p].use = "serve"
        /\ script[p].pidfile
        /\ UNION {script[p].listen[s] : s \in Source} = {n}

(* A process that serves has a parent, a port of its own and no root         *)
(* privileges if it was to drop them; and if the program was only started   *)
(* twice with the same port, as a script that is run twice does, the PID    *)
(* file names the process that serves as long as it does: the other start   *)
(* fails before it overwrites the file, and a process that ends removes the *)
(* file before another can get the port.                                    *)
StartedInOrder ==
    \A p \in Processes :
        Serving(p) => Prepared(p) /\ (SamePort => pidfile = p)

=============================================================================
