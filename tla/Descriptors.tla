---------------------------- MODULE Descriptors ----------------------------
(***************************************************************************)
(* The descriptors of the cntlm process and the three kinds of connection  *)
(* threads that open and close them: proxy_thread() with forward_request(),*)
(* tunnel_thread() with forward_tunnel(), and socks5_thread(); further, the *)
(* scanner plugin, for which forward_request() has a second connection.    *)
(*                                                                         *)
(* The system hands out the lowest free number, so a number that was       *)
(* closed is soon another connection's.  A thread is right only as long as *)
(* the number it holds still names the connection it opened: the variable  *)
(* file says what each number names.                                       *)
(*                                                                         *)
(* One parent is configured.  Connections are neither cached here (module  *)
(* ProxyConnect) nor retried (module ForwardRequest).                      *)
(***************************************************************************)
EXTENDS Integers

CONSTANTS
    Threads,   \* connection threads; one serves one client after the other
    Configs,   \* the configurations that are considered
    MaxFd      \* bound: the highest descriptor number

ASSUME DescriptorsAssumption ==
    /\ MaxFd \in Nat
    /\ Configs \subseteq
          [ports    : SUBSET {"proxy", "tunnel", "socks"},  \* kinds of listening ports
           resolves : BOOLEAN,  \* whether the parent's name always resolves
           scanner  : BOOLEAN]  \* scanner_plugin

VARIABLES
    file,     \* what each descriptor names
    pc,       \* where each thread stands
    service,  \* the port its client connected to
    cd,       \* the client's descriptor
    sd,       \* local sd of forward_request(), forward_tunnel(), socks5_thread()
    auth,     \* the descriptor proxy_authenticate() works on
    nc,       \* local nc of scanner_hook()
    config    \* the configuration

vars == <<file, pc, service, cd, sd, auth, nc, config>>

Numbers == 0..MaxFd
None == <<"none">>
Null == <<"null">>   \* /dev/null
Client(t) == <<"client", t>>
Parent(t) == <<"parent", t>>  \* a parent proxy, or the host itself
File == {None, Null} \cup ({"client", "parent"} \X Threads)

Label == {"out", "greeting", "address", "connect", "authenticate", "reconnect", "request", "use",
          "scanconnect", "scanauth", "scanagain", "post", "close", "closeclient"}

(* The daemon has /dev/null as descriptor 0 (and 1 and 2, never touched). *)
Init ==
    /\ file = [n \in Numbers |-> IF n = 0 THEN Null ELSE None]
    /\ pc = [t \in Threads |-> "out"]
    /\ service = [t \in Threads |-> "proxy"]
    /\ cd = [t \in Threads |-> -1]
    /\ sd = [t \in Threads |-> -1]
    /\ auth = [t \in Threads |-> -1]
    /\ nc = [t \in Threads |-> -1]
    /\ config \in Configs

Goto(t, label) == pc' = [pc EXCEPT ![t] = label]

(* socket() and accept() return the lowest number that is free. *)
Free(n) == file[n] = None
Lowest(n) == Free(n) /\ \A m \in 0..n - 1 : ~Free(m)

Open(n, f) == file' = [file EXCEPT ![n] = f]

(* close() of a number that names nothing does nothing. *)
CloseFd(n) == file' = [m \in Numbers |-> IF m = n THEN None ELSE file[m]]

-----------------------------------------------------------------------------
(* main accepts a client; the thread reads its request. *)
Accept(t) ==
    /\ pc[t] = "out"
    /\ \E n \in Numbers, s \in config.ports :
          /\ Lowest(n)
          /\ Open(n, Client(t))
          /\ cd' = [cd EXCEPT ![t] = n]
          /\ service' = [service EXCEPT ![t] = s]
          /\ Goto(t, IF s = "socks" THEN "greeting" ELSE "connect")
    /\ UNCHANGED <<sd, auth, nc, config>>

(* The dialogue of socks5_thread() with its client, who may break it off: the *)
(* scheme and the credentials, then the request and its address.             *)
Greeting(t) ==
    /\ pc[t] = "greeting"
    /\ Goto(t, "address") \/ Goto(t, "close")
    /\ UNCHANGED <<file, service, cd, sd, auth, nc, config>>

Address(t) ==
    /\ pc[t] = "address"
    /\ Goto(t, "connect") \/ Goto(t, "close")
    /\ UNCHANGED <<file, service, cd, sd, auth, nc, config>>

(* proxy_connect() returns 0 for a parent without an address, -1 for one    *)
(* that refuses.  It takes descriptor 0 for a failure, too, and leaves it   *)
(* open.                                                                    *)
ConnectReturns(t, n) ==
    \/ n = 0 /\ ~config.resolves /\ UNCHANGED file
    \/ n = -1 /\ UNCHANGED file
    \/ n \in Numbers /\ Lowest(n) /\ Open(n, Parent(t))

(* Mutant of Connect: 0 is taken for a connection. *)
ConnectTakesZero(t) ==
    /\ pc[t] = "connect"
    /\ \E n \in -1..MaxFd :
          /\ ConnectReturns(t, n)
          /\ sd' = [sd EXCEPT ![t] = n]
          /\ auth' = [auth EXCEPT ![t] = n]
          /\ Goto(t, IF n >= 0 THEN "authenticate" ELSE "close")
    /\ UNCHANGED <<service, cd, nc, config>>

Connect(t) ==
    /\ pc[t] = "connect"
    /\ \E n \in -1..MaxFd :
          /\ ConnectReturns(t, n)
          /\ sd' = [sd EXCEPT ![t] = n]
          /\ auth' = [auth EXCEPT ![t] = n]
          /\ Goto(t, IF n > 0 THEN "authenticate" ELSE "close")
    /\ UNCHANGED <<service, cd, nc, config>>

(* The host needs no parent: host_connect() and, on a tunnel or SOCKS port,  *)
(* the tunnel.  socks5_thread() takes 0 for a connection, direct_tunnel()    *)
(* does not.                                                                *)
HostConnect(t) ==
    /\ pc[t] = "connect"
    /\ service[t] \in {"tunnel", "socks"}
    /\ \E n \in -1..MaxFd :
          /\ n >= 0 => Lowest(n) /\ Open(n, Parent(t))
          /\ n < 0 => UNCHANGED file
          /\ sd' = [sd EXCEPT ![t] = n]
          /\ Goto(t, IF n > 0 \/ (n = 0 /\ service[t] = "socks") THEN "use" ELSE "close")
    /\ UNCHANGED <<service, cd, auth, nc, config>>

(* forward_request() passes the address of sd to proxy_authenticate(); the  *)
(* other two call prepare_http_connect(), which works on a copy.            *)
SetAuth(t, n) ==
    /\ auth' = [auth EXCEPT ![t] = n]
    /\ sd' = IF service[t] = "proxy" THEN [sd EXCEPT ![t] = n] ELSE sd

(* Mutant of Authenticate: no close() before the reconnect. *)
AuthenticateLeavesOpen(t) ==
    /\ pc[t] = "authenticate"
    /\ Goto(t, "close") \/ Goto(t, "request") \/ Goto(t, "reconnect")
    /\ UNCHANGED <<file, service, cd, sd, auth, nc, config>>

(* The handshake of proxy_authenticate(): it fails, or it goes well and the *)
(* parent keeps the connection or closes it, upon which it is closed here.  *)
Authenticate(t) ==
    /\ pc[t] = "authenticate"
    /\ \/ /\ Goto(t, "close")
          /\ UNCHANGED file
       \/ /\ Goto(t, "request")
          /\ UNCHANGED file
       \/ /\ CloseFd(auth[t])
          /\ Goto(t, "reconnect")
    /\ UNCHANGED <<service, cd, sd, auth, nc, config>>

(* *sd = proxy_connect(): only a negative result is a failure. *)
Reconnect(t) ==
    /\ pc[t] = "reconnect"
    /\ \E n \in -1..MaxFd :
          /\ ConnectReturns(t, n)
          /\ SetAuth(t, n)
          /\ Goto(t, IF n < 0 THEN "close" ELSE "request")
    /\ UNCHANGED <<service, cd, nc, config>>

(* The request on the authenticated connection: the parent agrees, or not.  *)
(* Nothing agrees on a descriptor that is no connection.                    *)
Request(t) ==
    /\ pc[t] = "request"
    /\ \/ /\ file[auth[t]] \notin {None, Null}
          /\ Goto(t, "use")
       \/ Goto(t, "close")
    /\ UNCHANGED <<file, service, cd, sd, auth, nc, config>>

(* tunnel(cd, sd), or the reply that forward_request() forwards *)
Use(t) ==
    /\ pc[t] = "use"
    /\ Goto(t, "close")
    /\ UNCHANGED <<file, service, cd, sd, auth, nc, config>>

(* close(sd), which socks5_thread() alone skips for 0 *)
ClosesSd(t) == service[t] # "socks" \/ sd[t] # 0

Close(t) ==
    /\ pc[t] = "close"
    /\ IF ClosesSd(t) THEN CloseFd(sd[t]) ELSE UNCHANGED file
    /\ sd' = [sd EXCEPT ![t] = -1]
    /\ auth' = [auth EXCEPT ![t] = -1]
    /\ Goto(t, "closeclient")
    /\ UNCHANGED <<service, cd, nc, config>>

(* close(cd) *)
CloseClient(t) ==
    /\ pc[t] = "closeclient"
    /\ CloseFd(cd[t])
    /\ cd' = [cd EXCEPT ![t] = -1]
    /\ Goto(t, "out")
    /\ UNCHANGED <<service, sd, auth, nc, config>>

(* The reply is a page of the ISA scanner: scanner_hook() waits for the end  *)
(* of the scan and gets the file over a connection of its own.  Without a   *)
(* connection nc is negative, and the handshake fails.                      *)
Scan(t) ==
    /\ pc[t] = "use"
    /\ config.scanner
    /\ service[t] = "proxy"
    /\ Goto(t, "scanconnect")
    /\ UNCHANGED <<file, service, cd, sd, auth, nc, config>>

SetNc(t, n) == nc' = [nc EXCEPT ![t] = n]

ScanConnect(t) ==
    /\ pc[t] = "scanconnect"
    /\ \E n \in -1..MaxFd : ConnectReturns(t, n) /\ SetNc(t, n)
    /\ Goto(t, "scanauth")
    /\ UNCHANGED <<service, cd, sd, auth, config>>

(* proxy_authenticate(&nc, ...) as in Authenticate; when it fails or meets   *)
(* no challenge, nc is closed, and nothing is posted.                       *)
ScanAuthenticate(t) ==
    /\ pc[t] = "scanauth"
    /\ \/ CloseFd(nc[t]) /\ SetNc(t, -1) /\ Goto(t, "use")
       \/ nc[t] > 0 /\ Goto(t, "post") /\ UNCHANGED <<file, nc>>
       \/ nc[t] > 0 /\ CloseFd(nc[t]) /\ Goto(t, "scanagain") /\ UNCHANGED nc
    /\ UNCHANGED <<service, cd, sd, auth, config>>

(* The reconnect of proxy_authenticate(): a failure is closed as above. *)
ScanReconnect(t) ==
    /\ pc[t] = "scanagain"
    /\ \E n \in -1..MaxFd :
          /\ ConnectReturns(t, n)
          /\ SetNc(t, n)
          /\ Goto(t, IF n < 0 THEN "use" ELSE "post")
    /\ UNCHANGED <<service, cd, sd, auth, config>>

(* Mutant of Post: the old connection is closed after it was replaced. *)
PostClosesNew(t) ==
    /\ pc[t] = "post"
    /\ \/ /\ nc[t] > 0
          /\ file[nc[t]] \notin {None, Null}
          /\ CloseFd(nc[t])
          /\ sd' = [sd EXCEPT ![t] = nc[t]]
       \/ UNCHANGED <<file, sd>>
    /\ SetNc(t, -1)
    /\ Goto(t, "use")
    /\ UNCHANGED <<service, cd, auth, config>>

(* The POST for the file: its connection takes the place of the other one,  *)
(* or it fails, upon which nobody closes nc.                                *)
Post(t) ==
    /\ pc[t] = "post"
    /\ \/ /\ nc[t] > 0
          /\ file[nc[t]] \notin {None, Null}
          /\ CloseFd(sd[t])
          /\ sd' = [sd EXCEPT ![t] = nc[t]]
       \/ UNCHANGED <<file, sd>>
    /\ SetNc(t, -1)
    /\ Goto(t, "use")
    /\ UNCHANGED <<service, cd, auth, config>>

ScanStep(t) ==
    Scan(t) \/ ScanConnect(t) \/ ScanAuthenticate(t) \/ ScanReconnect(t) \/ Post(t)

Next ==
    \E t \in Threads :
        \/ Accept(t) \/ Greeting(t) \/ Address(t)
        \/ Connect(t) \/ HostConnect(t) \/ Authenticate(t) \/ Reconnect(t)
        \/ Request(t) \/ Use(t) \/ ScanStep(t) \/ Close(t) \/ CloseClient(t)

Spec == Init /\ [][Next]_vars

-----------------------------------------------------------------------------
(* Properties *)

(* Every variable has its type, and the handshake is only tried on what may  *)
(* be a connection.                                                         *)
TypeOK ==
    /\ file \in [Numbers -> File]
    /\ pc \in [Threads -> Label]
    /\ service \in [Threads -> {"proxy", "tunnel", "socks"}]
    /\ cd \in [Threads -> -1..MaxFd]
    /\ sd \in [Threads -> -1..MaxFd]
    /\ auth \in [Threads -> -1..MaxFd]
    /\ nc \in [Threads -> -1..MaxFd]
    /\ config \in Configs
    /\ \A t \in Threads : pc[t] = "authenticate" => sd[t] > 0

(* "Auth connection "sd" and try to return negotiated CONNECT connection"   *)
(* (forward.c:717): what a thread forwards its client to is the connection  *)
(* on which the parent agreed, also after "reconnect for the caller"        *)
(* (forward.c:266).                                                         *)
TunnelIsOwn ==
    \A t \in Threads : pc[t] = "use" => sd[t] > 0 /\ file[sd[t]] = Parent(t)

(* Proxy ports only, whose threads pass their descriptor by reference, and    *)
(* names that resolve, so that no thread takes 0 for a connection            *)
ProxyPorts == config.ports = {"proxy"} /\ config.resolves

ParentIsOwn == ProxyPorts => TunnelIsOwn

ClientIsOwn ==
    ProxyPorts => \A t \in Threads : pc[t] # "out" => file[cd[t]] = Client(t)

(* On ProxyPorts, whatever the threads open and close under each other and   *)
(* also when the scanner plugin exchanges the connection for its own: what a *)
(* thread forwards its client to is the connection on which the parent      *)
(* agreed, and the number of a client's descriptor names that client for as *)
(* long as a thread serves it: no thread closes another's client.           *)
NumbersAreOwn == ParentIsOwn /\ ClientIsOwn

ParentsNotLeaked ==
    ProxyPorts /\ ~config.scanner =>
        \A n \in Numbers, t \in Threads : file[n] = Parent(t) => sd[t] = n

ClientsNotLeaked ==
    \A n \in Numbers, t \in Threads :
        file[n] = Client(t) => pc[t] # "out" /\ cd[t] = n

(* On ProxyPorts a connection to the parent is held by the thread that       *)
(* opened it, which will close it, also if it was opened in place of         *)
(* another (with the scanner plugin a failed POST leaves one open).  And     *)
(* however the threads mistake each other's numbers, and even descriptor 0   *)
(* for "no descriptor", a client's connection does not outlive the thread   *)
(* that serves it.                                                          *)
NothingLeaked == ParentsNotLeaked /\ ClientsNotLeaked

=============================================================================
