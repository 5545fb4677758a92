------------------------- MODULE Descriptors_proofs -------------------------
(***************************************************************************)
(* Proofs about Descriptors, for any number of threads and descriptors and *)
(* any set of configurations.                                              *)
(***************************************************************************)
EXTENDS Descriptors, TLAPS

Types ==
    /\ file \in [Numbers -> File]
    /\ pc \in [Threads -> Label]
    /\ service \in [Threads -> {"proxy", "tunnel", "socks"}]
    /\ cd \in [Threads -> -1..MaxFd]
    /\ sd \in [Threads -> -1..MaxFd]
    /\ auth \in [Threads -> -1..MaxFd]
    /\ nc \in [Threads -> -1..MaxFd]
    /\ config \in Configs

(* While a thread serves it has a client; until it connects it holds no      *)
(* descriptor of a parent, and it tries the handshake only on what may be    *)
(* one.                                                                     *)
HandshakeInv ==
    \A t \in Threads :
        /\ pc[t] # "out" => cd[t] # -1
        /\ pc[t] \in {"out", "greeting", "address", "connect", "closeclient"} => sd[t] = -1
        /\ pc[t] = "authenticate" => sd[t] > 0 /\ auth[t] = sd[t]

(* What a thread holds names its own client and parents, except that a       *)
(* number it has closed before a reconnect may be anybody's.                *)
Own(t) ==
    /\ pc[t] # "out" => file[cd[t]] = Client(t)
    /\ sd[t] # -1 /\ pc[t] # "reconnect" => file[sd[t]] = Parent(t)
    /\ pc[t] \in {"request", "use", "scanconnect", "scanauth", "scanagain", "post"} => sd[t] # -1
    /\ nc[t] # -1 /\ pc[t] # "scanagain" => file[nc[t]] = Parent(t) /\ nc[t] # sd[t]
    /\ nc[t] # -1 => pc[t] \in {"scanauth", "scanagain", "post"}

(* /dev/null stays where it is, so that 0 is not handed out.                 *)
OwnInv == file[0] = Null /\ \A t \in Threads : Own(t)

(* What OwnInv takes: every name resolves, and no parent closes a connection *)
(* during the handshake for a tunnel or a SOCKS client.  The threads of      *)
(* proxy ports may reconnect.                                               *)
Kept ==
    /\ config.resolves
    /\ \A t \in Threads : pc[t] = "reconnect" => service[t] = "proxy"

ProxyInv == ProxyPorts => (\A t \in Threads : service[t] = "proxy") /\ OwnInv

OwnKept == Kept /\ OwnInv => OwnInv'

(* Without the scanner plugin every connection to the parent is the one that *)
(* its thread holds, and none is left when it reconnects.                   *)
LeakInv ==
    ProxyPorts /\ ~config.scanner =>
        \A t \in Threads :
            /\ pc[t] \notin {"scanconnect", "scanauth", "scanagain", "post"}
            /\ \A n \in Numbers : file[n] = Parent(t) => sd[t] = n /\ pc[t] # "reconnect"

IInv == Types /\ HandshakeInv /\ ClientsNotLeaked /\ ProxyInv /\ LeakInv

USE DescriptorsAssumption DEF Numbers, Label, Goto

-----------------------------------------------------------------------------
(* What a descriptor names *)

LEMMA Distinct ==
    /\ None # Null
    /\ \A t : Client(t) \notin {None, Null} /\ Parent(t) \notin {None, Null}
    /\ \A t, u : Client(t) # Parent(u)
    /\ \A t, u : Client(t) = Client(u) => t = u
    /\ \A t, u : Parent(t) = Parent(u) => t = u
BY DEF None, Null, Client, Parent

LEMMA Opened ==
    ASSUME Types, NEW t \in Threads, NEW f \in {Client(t), Parent(t)},
           NEW n \in Numbers, Lowest(n), Open(n, f)
    PROVE  /\ file' \in [Numbers -> File]
           /\ file[n] = None
           /\ file'[n] = f
           /\ \A m \in Numbers : m # n => file'[m] = file[m]
<1>1. f \in File
  BY DEF File, Client, Parent
<1> QED
  BY <1>1 DEF Types, Open, Lowest, Free

LEMMA Closed ==
    ASSUME Types, NEW n \in -1..MaxFd, CloseFd(n)
    PROVE  /\ file' \in [Numbers -> File]
           /\ n \in Numbers => file'[n] = None
           /\ \A m \in Numbers : m # n => file'[m] = file[m]
BY DEF Types, CloseFd, File

(* proxy_connect() opens a connection, or leaves the descriptors alone and   *)
(* returns -1, or 0 where a name may not resolve.                           *)
LEMMA Connected ==
    ASSUME Types, NEW t \in Threads, NEW n \in -1..MaxFd, ConnectReturns(t, n)
    PROVE  /\ file' \in [Numbers -> File]
           /\ \A m \in Numbers : m # n => file'[m] = file[m]
           /\ \/ file' = file /\ (n = -1 \/ (n = 0 /\ ~config.resolves))
              \/ n \in Numbers /\ file[n] = None /\ file'[n] = Parent(t)
<1>1. CASE file' = file /\ (n = -1 \/ (n = 0 /\ ~config.resolves))
  BY <1>1 DEF Types
<1>2. CASE n \in Numbers /\ Lowest(n) /\ Open(n, Parent(t))
  BY <1>2, Opened
<1> QED
  BY <1>1, <1>2 DEF ConnectReturns

(* A step of one thread that changes no descriptor another one has keeps     *)
(* OwnInv if it keeps it for the thread itself.                             *)
LEMMA OwnStep ==
    ASSUME IInv, NEW t \in Threads, config' = config,
           \A u \in Threads \ {t} :
              /\ pc'[u] = pc[u] /\ service'[u] = service[u]
              /\ cd'[u] = cd[u] /\ sd'[u] = sd[u] /\ nc'[u] = nc[u],
           Kept /\ OwnInv =>
              /\ file'[0] = Null
              /\ \A m \in Numbers :
                    file'[m] # file[m] => file[m] \in {None, Client(t), Parent(t)}
              /\ Own(t)'
    PROVE  OwnKept
<1> SUFFICES ASSUME Kept, OwnInv, NEW u \in Threads \ {t} PROVE Own(u)'
  BY DEF OwnInv, OwnKept
<1>1. Own(u) /\ file[0] = Null
  BY DEF OwnInv
<1>2. \A m \in Numbers : file[m] \in {Client(u), Parent(u)} => file'[m] = file[m]
  BY Distinct
<1>3. /\ cd[u] \in -1..MaxFd /\ sd[u] \in -1..MaxFd /\ nc[u] \in -1..MaxFd
      /\ pc[u] # "out" => cd[u] # -1
  BY DEF IInv, Types, HandshakeInv
<1> QED
  BY <1>1, <1>2, <1>3 DEF Own

(* The threads of proxy ports are in the condition that Kept asks for.       *)
LEMMA ProxyStep ==
    ASSUME IInv, OwnKept, config' = config,
           \A t \in Threads : service'[t] = service[t] \/ service'[t] \in config.ports
    PROVE  ProxyInv'
BY DEF IInv, ProxyInv, OwnKept, Kept, ProxyPorts

-----------------------------------------------------------------------------
LEMMA InitIInv == Init => IInv /\ OwnInv
<1> SUFFICES ASSUME Init PROVE IInv /\ OwnInv
  OBVIOUS
<1>1. Types
  BY DEF Init, Types, File
<1>2. HandshakeInv /\ ClientsNotLeaked /\ ProxyInv /\ OwnInv /\ LeakInv
  BY Distinct DEF Init, HandshakeInv, ClientsNotLeaked, ProxyInv, OwnInv, Own, LeakInv
<1> QED
  BY <1>1, <1>2 DEF IInv

(* The steps that only go on: no descriptor changes. *)
LEMMA PassingIInv ==
    ASSUME IInv, NEW t \in Threads,
           Greeting(t) \/ Address(t) \/ Request(t) \/ Use(t) \/ Scan(t)
    PROVE  IInv' /\ OwnKept
<1>1. /\ UNCHANGED <<file, service, cd, sd, auth, nc, config>>
      /\ \E label \in {"address", "connect", "use", "close", "scanconnect"} :
            pc' = [pc EXCEPT ![t] = label]
      /\ pc[t] \in {"greeting", "address"} \/ pc'[t] \in {"use", "close", "scanconnect"}
      /\ pc'[t] = "connect" => pc[t] = "address"
      /\ pc'[t] = "address" => pc[t] = "greeting"
      /\ pc'[t] \in {"use", "scanconnect"} => pc[t] \in {"request", "use"}
      /\ pc'[t] = "scanconnect" => config.scanner
      /\ pc[t] \in {"greeting", "address", "request", "use"}
  BY DEF Greeting, Address, Request, Use, Scan, IInv, Types
<1>2. Types'
  BY <1>1 DEF IInv, Types
<1>3. HandshakeInv' /\ ClientsNotLeaked'
  BY <1>1 DEF IInv, Types, HandshakeInv, ClientsNotLeaked
<1>4. OwnKept
  BY <1>1 DEF IInv, Types, OwnInv, Own, OwnKept
<1>5. LeakInv'
  BY <1>1 DEF IInv, Types, LeakInv, ProxyPorts
<1>6. ProxyInv'
  BY <1>4, <1>1, ProxyStep DEF Greeting, Address, Request, Use, Scan
<1> QED
  BY <1>2, <1>3, <1>4, <1>5, <1>6 DEF IInv

LEMMA AcceptIInv ==
    ASSUME IInv, NEW t \in Threads, Accept(t) PROVE IInv' /\ OwnKept
<1>1. PICK n \in Numbers, s \in config.ports :
          /\ Lowest(n) /\ Open(n, Client(t))
          /\ cd' = [cd EXCEPT ![t] = n]
          /\ service' = [service EXCEPT ![t] = s]
          /\ pc' = [pc EXCEPT ![t] = IF s = "socks" THEN "greeting" ELSE "connect"]
  BY DEF Accept
<1>2. /\ file' \in [Numbers -> File]
      /\ file[n] = None /\ file'[n] = Client(t)
      /\ \A m \in Numbers : m # n => file'[m] = file[m]
  BY <1>1, Opened DEF IInv
<1>3. s \in {"proxy", "tunnel", "socks"} /\ (ProxyPorts => s = "proxy")
  BY DEF IInv, Types, ProxyPorts
<1>4. Types'
  BY <1>1, <1>2, <1>3 DEF Accept, IInv, Types
<1>5. HandshakeInv' /\ ClientsNotLeaked'
  BY <1>1, <1>2, Distinct DEF Accept, IInv, Types, HandshakeInv, ClientsNotLeaked
<1>6. OwnKept
  <2>1. Kept /\ OwnInv => file'[0] = Null /\ Own(t)'
    BY <1>1, <1>2, <1>3, Distinct DEF Accept, IInv, Types, HandshakeInv, OwnInv, Own, Kept
  <2> QED
    BY <2>1, <1>1, <1>2, OwnStep DEF Accept, IInv, Types
<1>7. LeakInv'
  BY <1>1, <1>2, Distinct DEF Accept, IInv, Types, LeakInv, ProxyPorts
<1>8. ProxyInv'
  BY <1>6, <1>1, ProxyStep DEF Accept
<1> QED
  BY <1>4, <1>5, <1>6, <1>7, <1>8 DEF IInv

LEMMA ConnectIInv ==
    ASSUME IInv, NEW t \in Threads, Connect(t) PROVE IInv' /\ OwnKept
<1>1. PICK n \in -1..MaxFd :
          /\ ConnectReturns(t, n)
          /\ sd' = [sd EXCEPT ![t] = n] /\ auth' = [auth EXCEPT ![t] = n]
          /\ pc' = [pc EXCEPT ![t] = IF n > 0 THEN "authenticate" ELSE "close"]
  BY DEF Connect
<1>2. /\ file' \in [Numbers -> File]
      /\ \A m \in Numbers : m # n => file'[m] = file[m]
      /\ \/ file' = file /\ (n = -1 \/ (n = 0 /\ ~config.resolves))
         \/ n \in Numbers /\ file[n] = None /\ file'[n] = Parent(t)
  BY <1>1, Connected DEF IInv
<1>3. Types'
  BY <1>1, <1>2 DEF Connect, IInv, Types
<1>4. HandshakeInv' /\ ClientsNotLeaked'
  BY <1>1, <1>2, Distinct DEF Connect, IInv, Types, HandshakeInv, ClientsNotLeaked
<1>5. OwnKept
  <2>1. Kept /\ OwnInv => file'[0] = Null /\ Own(t)'
    BY <1>1, <1>2, Distinct
    DEF Connect, IInv, Types, HandshakeInv, OwnInv, Own, Kept
  <2>2. \A m \in Numbers : file'[m] # file[m] => file[m] \in {None, Client(t), Parent(t)}
    BY <1>2
  <2> QED
    BY <2>1, <2>2, <1>1, OwnStep DEF Connect, IInv, Types
<1>6. LeakInv'
  BY <1>1, <1>2, Distinct
  DEF Connect, IInv, Types, HandshakeInv, LeakInv, ProxyInv, OwnInv, Own, ProxyPorts
<1>7. ProxyInv'
  BY <1>5, <1>1, ProxyStep DEF Connect
<1> QED
  BY <1>3, <1>4, <1>5, <1>6, <1>7 DEF IInv

LEMMA ReconnectIInv ==
    ASSUME IInv, NEW t \in Threads, Reconnect(t) PROVE IInv' /\ OwnKept
<1>1. PICK n \in -1..MaxFd :
          /\ ConnectReturns(t, n)
          /\ auth' = [auth EXCEPT ![t] = n]
          /\ sd' = IF service[t] = "proxy" THEN [sd EXCEPT ![t] = n] ELSE sd
          /\ pc' = [pc EXCEPT ![t] = IF n < 0 THEN "close" ELSE "request"]
  BY DEF Reconnect, SetAuth
<1>2. /\ file' \in [Numbers -> File]
      /\ \A m \in Numbers : m # n => file'[m] = file[m]
      /\ \/ file' = file /\ (n = -1 \/ (n = 0 /\ ~config.resolves))
         \/ n \in Numbers /\ file[n] = None /\ file'[n] = Parent(t)
  BY <1>1, Connected DEF IInv
<1>3. Types'
  BY <1>1, <1>2 DEF Reconnect, IInv, Types
<1>4. HandshakeInv' /\ ClientsNotLeaked'
  BY <1>1, <1>2, Distinct DEF Reconnect, IInv, Types, HandshakeInv, ClientsNotLeaked
<1>5. OwnKept
  <2>1. Kept /\ OwnInv => file'[0] = Null /\ Own(t)'
    <3> SUFFICES ASSUME Kept, OwnInv PROVE file'[0] = Null /\ Own(t)'
      OBVIOUS
    <3>1. /\ file[0] = Null /\ Own(t)
          /\ n # -1 => n > 0 /\ file[n] = None /\ file'[n] = Parent(t)
      BY <1>2, Distinct DEF OwnInv, Kept
    <3>2. file'[0] = Null
      BY <3>1, <1>2
    <3>3. Own(t)'
      BY <3>1, <1>1, <1>2, Distinct DEF Reconnect, IInv, Types, HandshakeInv, Own, Kept
    <3> QED
      BY <3>2, <3>3
  <2>2. \A m \in Numbers : file'[m] # file[m] => file[m] \in {None, Client(t), Parent(t)}
    BY <1>2
  <2> QED
    BY <2>1, <2>2, <1>1, OwnStep DEF Reconnect, IInv, Types
<1>6. LeakInv'
  BY <1>1, <1>2, Distinct
  DEF Reconnect, IInv, Types, HandshakeInv, LeakInv, ProxyInv, OwnInv, Own, ProxyPorts
<1>7. ProxyInv'
  BY <1>5, <1>1, ProxyStep DEF Reconnect
<1> QED
  BY <1>3, <1>4, <1>5, <1>6, <1>7 DEF IInv

LEMMA ScanConnectIInv ==
    ASSUME IInv, NEW t \in Threads, ScanConnect(t) PROVE IInv' /\ OwnKept
<1>1. PICK n \in -1..MaxFd :
          /\ ConnectReturns(t, n)
          /\ nc' = [nc EXCEPT ![t] = n]
          /\ pc' = [pc EXCEPT ![t] = "scanauth"]
  BY DEF ScanConnect, SetNc
<1>2. /\ file' \in [Numbers -> File]
      /\ \A m \in Numbers : m # n => file'[m] = file[m]
      /\ \/ file' = file /\ (n = -1 \/ (n = 0 /\ ~config.resolves))
         \/ n \in Numbers /\ file[n] = None /\ file'[n] = Parent(t)
  BY <1>1, Connected DEF IInv
<1>3. Types'
  BY <1>1, <1>2 DEF ScanConnect, IInv, Types
<1>4. HandshakeInv' /\ ClientsNotLeaked'
  BY <1>1, <1>2, Distinct DEF ScanConnect, IInv, Types, HandshakeInv, ClientsNotLeaked
<1>5. OwnKept
  <2>1. Kept /\ OwnInv => file'[0] = Null /\ Own(t)'
    BY <1>1, <1>2, Distinct
    DEF ScanConnect, IInv, Types, HandshakeInv, OwnInv, Own, Kept
  <2>2. \A m \in Numbers : file'[m] # file[m] => file[m] \in {None, Client(t), Parent(t)}
    BY <1>2
  <2> QED
    BY <2>1, <2>2, <1>1, OwnStep DEF ScanConnect, IInv, Types
<1>6. LeakInv'
  BY <1>1, <1>2, Distinct
  DEF ScanConnect, IInv, Types, HandshakeInv, LeakInv, ProxyInv, OwnInv, Own, ProxyPorts
<1>7. ProxyInv'
  BY <1>5, <1>1, ProxyStep DEF ScanConnect
<1> QED
  BY <1>3, <1>4, <1>5, <1>6, <1>7 DEF IInv

LEMMA ScanReconnectIInv ==
    ASSUME IInv, NEW t \in Threads, ScanReconnect(t) PROVE IInv' /\ OwnKept
<1>1. PICK n \in -1..MaxFd :
          /\ ConnectReturns(t, n)
          /\ nc' = [nc EXCEPT ![t] = n]
          /\ pc' = [pc EXCEPT ![t] = IF n < 0 THEN "use" ELSE "post"]
  BY DEF ScanReconnect, SetNc
<1>2. /\ file' \in [Numbers -> File]
      /\ \A m \in Numbers : m # n => file'[m] = file[m]
      /\ \/ file' = file /\ (n = -1 \/ (n = 0 /\ ~config.resolves))
         \/ n \in Numbers /\ file[n] = None /\ file'[n] = Parent(t)
  BY <1>1, Connected DEF IInv
<1>3. Types'
  BY <1>1, <1>2 DEF ScanReconnect, IInv, Types
<1>4. HandshakeInv' /\ ClientsNotLeaked'
  BY <1>1, <1>2, Distinct DEF ScanReconnect, IInv, Types, HandshakeInv, ClientsNotLeaked
<1>5. OwnKept
  <2>1. Kept /\ OwnInv => file'[0] = Null /\ Own(t)'
    BY <1>1, <1>2, Distinct
    DEF ScanReconnect, IInv, Types, HandshakeInv, OwnInv, Own, Kept
  <2>2. \A m \in Numbers : file'[m] # file[m] => file[m] \in {None, Client(t), Parent(t)}
    BY <1>2
  <2> QED
    BY <2>1, <2>2, <1>1, OwnStep DEF ScanReconnect, IInv, Types
<1>6. LeakInv'
  BY <1>1, <1>2, Distinct
  DEF ScanReconnect, IInv, Types, HandshakeInv, LeakInv, ProxyInv, OwnInv, Own, ProxyPorts
<1>7. ProxyInv'
  BY <1>5, <1>1, ProxyStep DEF ScanReconnect
<1> QED
  BY <1>3, <1>4, <1>5, <1>6, <1>7 DEF IInv

LEMMA HostConnectIInv ==
    ASSUME IInv, NEW t \in Threads, HostConnect(t) PROVE IInv' /\ OwnKept
<1>1. ~ProxyPorts
  BY DEF HostConnect, IInv, ProxyInv
<1>2. PICK n \in -1..MaxFd :
          /\ n >= 0 => Lowest(n) /\ Open(n, Parent(t))
          /\ n < 0 => UNCHANGED file
          /\ sd' = [sd EXCEPT ![t] = n]
          /\ pc' = [pc EXCEPT ![t] =
                IF n > 0 \/ (n = 0 /\ service[t] = "socks") THEN "use" ELSE "close"]
  BY DEF HostConnect
<1>3. /\ file' \in [Numbers -> File]
      /\ \A m \in Numbers : file'[m] # file[m] => file[m] = None /\ file'[m] = Parent(t)
  <2>1. CASE n >= 0
    <3>1. n \in Numbers
      BY <2>1
    <3> QED
      BY <2>1, <3>1, <1>2, Opened DEF IInv
  <2>2. CASE n < 0
    BY <2>2, <1>2 DEF IInv, Types
  <2> QED
    BY <2>1, <2>2
<1>4. Types'
  BY <1>2, <1>3 DEF HostConnect, IInv, Types
<1>5. HandshakeInv' /\ ClientsNotLeaked'
  BY <1>2, <1>3, Distinct DEF HostConnect, IInv, Types, HandshakeInv, ClientsNotLeaked
<1>6. OwnKept
  <2>1. Kept /\ OwnInv => file'[0] = Null /\ Own(t)'
    <3> SUFFICES ASSUME Kept, OwnInv PROVE file'[0] = Null /\ Own(t)'
      OBVIOUS
    <3>1. n # -1 => n \in Numbers /\ n # 0 /\ file'[n] = Parent(t)
      BY <1>2, Distinct DEF OwnInv, IInv, Types, Lowest, Free, Open
    <3>2. file'[0] = Null /\ (pc[t] # "out" => file'[cd[t]] = Client(t))
      BY <1>4, <1>3, Distinct DEF OwnInv, Own, IInv, Types, HandshakeInv
    <3>3. pc[t] = "connect" /\ nc[t] = -1
      BY DEF HostConnect, OwnInv, Own
    <3>4. sd'[t] = n /\ cd' = cd /\ nc' = nc
      BY <1>2 DEF HostConnect, IInv, Types
    <3>5. pc'[t] \in {"use", "close"} /\ (n = -1 => pc'[t] = "close")
      BY <1>2 DEF IInv, Types
    <3> QED
      BY <3>1, <3>2, <3>3, <3>4, <3>5 DEF Own
  <2> QED
    BY <2>1, <1>2, <1>3, OwnStep DEF HostConnect, IInv, Types
<1>7. ProxyInv' /\ LeakInv'
  BY <1>1 DEF HostConnect, ProxyInv, LeakInv, ProxyPorts
<1> QED
  BY <1>4, <1>5, <1>6, <1>7 DEF IInv

LEMMA AuthenticateIInv ==
    ASSUME IInv, NEW t \in Threads, Authenticate(t) PROVE IInv' /\ OwnKept
<1>1. /\ file' \in [Numbers -> File]
      /\ \A m \in Numbers : file'[m] # file[m] => m = auth[t] /\ file'[m] = None
  BY Closed DEF Authenticate, IInv, Types
<1>2. Types'
  BY <1>1 DEF Authenticate, IInv, Types
<1>3. HandshakeInv' /\ ClientsNotLeaked'
  BY <1>1, Distinct DEF Authenticate, IInv, Types, HandshakeInv, ClientsNotLeaked
<1>4. OwnKept
  <2>1. Kept /\ OwnInv =>
            /\ file'[0] = Null
            /\ \A m \in Numbers :
                  file'[m] # file[m] => file[m] \in {None, Client(t), Parent(t)}
            /\ Own(t)'
    BY <1>1, Distinct DEF Authenticate, IInv, Types, HandshakeInv, OwnInv, Own, Kept
  <2> QED
    BY <2>1, OwnStep DEF Authenticate, IInv, Types
<1>5. LeakInv'
  BY <1>1, Distinct, Closed
  DEF Authenticate, IInv, Types, HandshakeInv, LeakInv, ProxyInv, OwnInv, Own, ProxyPorts,
      CloseFd
<1>6. ProxyInv'
  BY <1>4, <1>1, ProxyStep DEF Authenticate
<1> QED
  BY <1>2, <1>3, <1>4, <1>5, <1>6 DEF IInv

LEMMA CloseIInv ==
    ASSUME IInv, NEW t \in Threads, Close(t) PROVE IInv' /\ OwnKept
<1>1. /\ file' \in [Numbers -> File]
      /\ \A m \in Numbers : m # sd[t] => file'[m] = file[m]
      /\ ClosesSd(t) /\ sd[t] # -1 => file'[sd[t]] = None
      /\ ~ClosesSd(t) => file' = file
  BY Closed DEF Close, IInv, Types, ClosesSd
<1>2. Types'
  BY <1>1 DEF Close, IInv, Types
<1>3. HandshakeInv' /\ ClientsNotLeaked'
  BY <1>1, Distinct DEF Close, IInv, Types, HandshakeInv, ClientsNotLeaked
<1>4. OwnKept
  <2>1. Kept /\ OwnInv =>
            /\ file'[0] = Null
            /\ \A m \in Numbers :
                  file'[m] # file[m] => file[m] \in {None, Client(t), Parent(t)}
            /\ Own(t)'
    BY <1>1, Distinct DEF Close, IInv, Types, HandshakeInv, OwnInv, Own, Kept, ClosesSd
  <2> QED
    BY <2>1, OwnStep DEF Close, IInv, Types
<1>5. LeakInv'
  BY <1>1, Distinct
  DEF Close, IInv, Types, HandshakeInv, LeakInv, ProxyInv, OwnInv, Own, ProxyPorts, ClosesSd
<1>6. ProxyInv'
  BY <1>4, <1>1, ProxyStep DEF Close
<1> QED
  BY <1>2, <1>3, <1>4, <1>5, <1>6 DEF IInv

LEMMA CloseClientIInv ==
    ASSUME IInv, NEW t \in Threads, CloseClient(t) PROVE IInv' /\ OwnKept
<1>1. /\ file' \in [Numbers -> File]
      /\ \A m \in Numbers : m # cd[t] => file'[m] = file[m]
      /\ cd[t] # -1 => file'[cd[t]] = None
  BY Closed DEF CloseClient, IInv, Types
<1>2. Types'
  BY <1>1 DEF CloseClient, IInv, Types
<1>3. HandshakeInv' /\ ClientsNotLeaked'
  BY <1>1, Distinct DEF CloseClient, IInv, Types, HandshakeInv, ClientsNotLeaked
<1>4. OwnKept
  <2>1. Kept /\ OwnInv =>
            /\ file'[0] = Null
            /\ \A m \in Numbers :
                  file'[m] # file[m] => file[m] \in {None, Client(t), Parent(t)}
            /\ Own(t)'
    BY <1>1, Distinct DEF CloseClient, IInv, Types, HandshakeInv, OwnInv, Own, Kept
  <2> QED
    BY <2>1, OwnStep DEF CloseClient, IInv, Types
<1>5. LeakInv'
  BY <1>1, Distinct
  DEF CloseClient, IInv, Types, HandshakeInv, LeakInv, ProxyInv, OwnInv, Own, ProxyPorts
<1>6. ProxyInv'
  BY <1>4, <1>1, ProxyStep DEF CloseClient
<1> QED
  BY <1>2, <1>3, <1>4, <1>5, <1>6 DEF IInv

LEMMA ScanAuthenticateIInv ==
    ASSUME IInv, NEW t \in Threads, ScanAuthenticate(t) PROVE IInv' /\ OwnKept
<1>1. /\ file' \in [Numbers -> File]
      /\ \A m \in Numbers : file'[m] # file[m] => m = nc[t] /\ file'[m] = None
  BY Closed DEF ScanAuthenticate, IInv, Types
<1>2. Types'
  <2>1. nc' \in [Threads -> -1..MaxFd]
    <3>1. nc' = nc \/ nc' = [nc EXCEPT ![t] = -1]
      BY DEF ScanAuthenticate, SetNc
    <3>2. -1 \in -1..MaxFd
      OBVIOUS
    <3> QED
      BY <3>1, <3>2 DEF IInv, Types
  <2>2. pc' \in [Threads -> Label]
    BY DEF ScanAuthenticate, IInv, Types
  <2> QED
    BY <2>1, <2>2, <1>1 DEF ScanAuthenticate, IInv, Types
<1>3. HandshakeInv' /\ ClientsNotLeaked'
  BY <1>1, Distinct
  DEF ScanAuthenticate, IInv, Types, HandshakeInv, ClientsNotLeaked, SetNc
<1>4. OwnKept
  <2>1. Kept /\ OwnInv =>
            /\ file'[0] = Null
            /\ \A m \in Numbers :
                  file'[m] # file[m] => file[m] \in {None, Client(t), Parent(t)}
            /\ Own(t)'
    BY <1>1, Distinct
    DEF ScanAuthenticate, IInv, Types, HandshakeInv, OwnInv, Own, Kept, SetNc
  <2> QED
    BY <2>1, OwnStep DEF ScanAuthenticate, IInv, Types, SetNc
<1>5. LeakInv'
  BY <1>1, Distinct, Closed
  DEF ScanAuthenticate, IInv, Types, HandshakeInv, LeakInv, ProxyInv, OwnInv, Own, ProxyPorts,
      CloseFd, SetNc
<1>6. ProxyInv'
  BY <1>4, <1>1, ProxyStep DEF ScanAuthenticate
<1> QED
  BY <1>2, <1>3, <1>4, <1>5, <1>6 DEF IInv

LEMMA PostIInv ==
    ASSUME IInv, NEW t \in Threads, Post(t) PROVE IInv' /\ OwnKept
<1>1. /\ file' \in [Numbers -> File]
      /\ \A m \in Numbers : file'[m] # file[m] => m = sd[t] /\ file'[m] = None
  BY Closed DEF Post, IInv, Types
<1>2. Types'
  <2>1. sd' = sd \/ sd' = [sd EXCEPT ![t] = nc[t]]
    BY DEF Post
  <2>2. nc[t] \in -1..MaxFd /\ -1 \in -1..MaxFd
    BY DEF IInv, Types
  <2>3. sd' \in [Threads -> -1..MaxFd] /\ nc' \in [Threads -> -1..MaxFd]
    BY <2>1, <2>2 DEF Post, SetNc, IInv, Types
  <2> QED
    BY <2>3, <1>1 DEF Post, IInv, Types, SetNc
<1>3. HandshakeInv' /\ ClientsNotLeaked'
  BY <1>1, Distinct DEF Post, IInv, Types, HandshakeInv, ClientsNotLeaked, SetNc
<1>4. OwnKept
  <2>1. Kept /\ OwnInv =>
            /\ file'[0] = Null
            /\ \A m \in Numbers :
                  file'[m] # file[m] => file[m] \in {None, Client(t), Parent(t)}
            /\ Own(t)'
    <3> SUFFICES ASSUME Kept, OwnInv
                 PROVE  /\ file'[0] = Null
                        /\ \A m \in Numbers :
                              file'[m] # file[m] => file[m] \in {None, Client(t), Parent(t)}
                        /\ Own(t)'
      OBVIOUS
    <3>1. /\ file[0] = Null /\ Own(t) /\ pc[t] = "post"
          /\ cd[t] \in Numbers /\ sd[t] \in Numbers
          /\ file[cd[t]] = Client(t) /\ file[sd[t]] = Parent(t)
      BY DEF Post, IInv, Types, HandshakeInv, OwnInv, Own, Kept
    <3>2. /\ file'[0] = Null
          /\ \A m \in Numbers :
                file'[m] # file[m] => file[m] \in {None, Client(t), Parent(t)}
          /\ file'[cd[t]] = Client(t)
      BY <3>1, <1>1, Distinct
    <3>3. sd'[t] # -1 /\ file'[sd'[t]] = Parent(t)
      <4>1. CASE file' = file /\ sd' = sd
        BY <4>1, <3>1
      <4>2. CASE nc[t] > 0 /\ sd' = [sd EXCEPT ![t] = nc[t]]
        <5>1. sd'[t] = nc[t] /\ nc[t] \in Numbers /\ nc[t] # sd[t] /\ file[nc[t]] = Parent(t)
          BY <4>2, <3>1 DEF IInv, Types, Own
        <5> QED
          BY <5>1, <1>1
      <4> QED
        BY <4>1, <4>2 DEF Post
    <3>4. Own(t)'
      BY <3>1, <3>2, <3>3 DEF Post, IInv, Types, Own, SetNc
    <3> QED
      BY <3>2, <3>4
  <2> QED
    BY <2>1, OwnStep DEF Post, IInv, Types, SetNc
<1>5. LeakInv'
  BY <1>1, Distinct, Closed
  DEF Post, IInv, Types, HandshakeInv, LeakInv, ProxyInv, OwnInv, Own, ProxyPorts, CloseFd,
      SetNc
<1>6. ProxyInv'
  BY <1>4, <1>1, ProxyStep DEF Post
<1> QED
  BY <1>2, <1>3, <1>4, <1>5, <1>6 DEF IInv

LEMMA StepIInv ==
    ASSUME IInv, [Next]_vars PROVE IInv' /\ OwnKept
<1>1. ASSUME NEW t \in Threads,
             Accept(t) \/ Greeting(t) \/ Address(t) \/ Connect(t) \/ HostConnect(t)
      PROVE  IInv' /\ OwnKept
  BY <1>1, AcceptIInv, PassingIInv, ConnectIInv, HostConnectIInv
<1>2. ASSUME NEW t \in Threads,
             \/ Authenticate(t) \/ Reconnect(t) \/ Request(t)
             \/ Use(t) \/ Close(t) \/ CloseClient(t)
      PROVE  IInv' /\ OwnKept
  BY <1>2, AuthenticateIInv, ReconnectIInv, PassingIInv, CloseIInv, CloseClientIInv
<1>3. ASSUME NEW t \in Threads, ScanStep(t) PROVE IInv' /\ OwnKept
  BY <1>3, PassingIInv, ScanConnectIInv, ScanAuthenticateIInv, ScanReconnectIInv, PostIInv
  DEF ScanStep
<1>4. CASE UNCHANGED vars
  BY <1>4
  DEF vars, IInv, Types, HandshakeInv, ClientsNotLeaked, ProxyInv, OwnKept, OwnInv, Own,
      LeakInv, ProxyPorts
<1> QED
  BY <1>1, <1>2, <1>3, <1>4 DEF Next

LEMMA Inductive == Spec => []IInv
BY InitIInv, StepIInv, PTL DEF Spec

-----------------------------------------------------------------------------
(* With proxy ports only and names that resolve a thread forwards its client *)
(* to the connection on which the parent agreed, and closes nobody else's.  *)
THEOREM NumbersOwn == Spec => []NumbersAreOwn
<1>1. IInv => NumbersAreOwn
  <2> SUFFICES ASSUME IInv, ProxyPorts, NEW t \in Threads
               PROVE  /\ pc[t] = "use" => sd[t] > 0 /\ file[sd[t]] = Parent(t)
                      /\ pc[t] # "out" => file[cd[t]] = Client(t)
    BY DEF NumbersAreOwn, ParentIsOwn, ClientIsOwn, TunnelIsOwn
  <2>1. Own(t) /\ file[0] = Null /\ sd[t] \in -1..MaxFd
    BY DEF IInv, ProxyInv, OwnInv, Types
  <2> QED
    BY <2>1, Distinct DEF Own
<1> QED
  BY <1>1, Inductive, PTL

(* The client's descriptor of every thread names its own client. *)
OwnClients == \A t \in Threads : pc[t] # "out" => file[cd[t]] = Client(t)

(* How far it reaches that a tunnel or a SOCKS client may be forwarded to    *)
(* another's connection (TunnelIsOwn): only after a parent has closed such a *)
(* connection during its handshake ("reconnect for the caller",             *)
(* forward.c:266), or a name did not resolve.  As long as neither happens,   *)
(* the threads of all ports work on the connections they opened, and on      *)
(* their own clients.                                                       *)
THEOREM MisledByReconnects ==
    Spec /\ []Kept => [](TunnelIsOwn /\ OwnClients)
<1>1. Spec /\ []Kept => [](IInv /\ OwnInv)
  <2>1. Init => OwnInv
    BY InitIInv
  <2>2. IInv /\ Kept /\ OwnInv /\ [Next]_vars => OwnInv'
    BY StepIInv DEF OwnKept
  <2> QED
    BY <2>1, <2>2, Inductive, PTL DEF Spec
<1>2. IInv /\ OwnInv => TunnelIsOwn /\ OwnClients
  <2> SUFFICES ASSUME IInv, OwnInv, NEW t \in Threads
               PROVE  /\ pc[t] = "use" => sd[t] > 0 /\ file[sd[t]] = Parent(t)
                      /\ pc[t] # "out" => file[cd[t]] = Client(t)
    BY DEF TunnelIsOwn, OwnClients
  <2>1. Own(t) /\ file[0] = Null /\ sd[t] \in -1..MaxFd
    BY DEF IInv, OwnInv, Types
  <2> QED
    BY <2>1, Distinct DEF Own
<1> QED
  BY <1>1, <1>2, PTL

(* No connection of a client outlives the thread that serves it, whatever    *)
(* is configured, and with proxy ports only, names that resolve and no       *)
(* scanner plugin none of a parent does.                                    *)
THEOREM NoneLeaked == Spec => []NothingLeaked
<1>1. IInv => NothingLeaked
  BY DEF IInv, NothingLeaked, ParentsNotLeaked, LeakInv
<1> QED
  BY <1>1, Inductive, PTL

(* The table of descriptors and the locals of the threads have their types.  *)
THEOREM TypeCorrect == Spec => []TypeOK
<1>1. IInv => TypeOK
  BY DEF IInv, Types, HandshakeInv, TypeOK
<1> QED
  BY <1>1, Inductive, PTL

=============================================================================
