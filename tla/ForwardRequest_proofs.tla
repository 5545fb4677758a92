------------------------ MODULE ForwardRequest_proofs ------------------------
(***************************************************************************)
(* forward_request() for any number of threads, parents and descriptors:   *)
(* it keeps the discipline of the shared pool, every step of it being a    *)
(* step of ProxyConnect or one that leaves its variables alone; a request  *)
(* is executed at most once and answered once; the cache is idle.          *)
(***************************************************************************)
EXTENDS ForwardRequest, TLAPS

LEMMA PoolUntouched ==
    ASSUME UNCHANGED pcvars PROVE UNCHANGED PC!vars
BY DEF pcvars, PC!vars, PC!pool, PC!locals

(* The steps that do something to the pool, each with the step of            *)
(* ProxyConnect it is                                                        *)
LEMMA PoolSteps ==
    ASSUME NEW t \in Threads,
           \/ PopCached(t) \/ Connect(t) \/ Connecting(t)
    PROVE  PC!Next
<1>1. CASE PopCached(t)
  BY <1>1 DEF PopCached, PC!Next
<1>2. CASE Connect(t)
  BY <1>2 DEF Connect, PC!Next, PC!Call
<1>3. CASE Connecting(t)
  BY <1>3 DEF Connecting, PC!Next, PC!Call
<1> QED
  BY <1>1, <1>2, <1>3

(* The steps that close or store a connection in some of their cases         *)
LEMMA ClosingSteps ==
    ASSUME NEW t \in Threads,
           AuthEnd(t) \/ Receive(t) \/ Bailout(t)
    PROVE  PC!Next \/ UNCHANGED pcvars
<1>1. CASE AuthEnd(t)
  BY <1>1 DEF AuthEnd, Disconnect, PC!Next
<1>2. CASE Receive(t)
  BY <1>2 DEF Receive, Retry, Disconnect, PC!Next
<1>3. CASE Bailout(t)
  BY <1>3 DEF Bailout, Disconnect, PC!Next
<1> QED
  BY <1>1, <1>2, <1>3

(* The steps that leave the pool alone                                       *)
LEMMA OtherSteps ==
    ASSUME NEW t \in Threads,
           \/ Arrive(t) \/ NextRequest(t) \/ ConnectReturned(t)
           \/ ParseRequest(t) \/ AuthSend(t) \/ AuthReply(t) \/ Reconnected(t)
           \/ AuthDone(t) \/ Send(t) \/ Reply(t) \/ While(t)
    PROVE  UNCHANGED pcvars
BY DEF Arrive, NextRequest, ConnectReturned, ParseRequest, AuthSend, AuthReply,
       Reconnected, AuthDone, Send, Reply, While

(* forward_request() uses the cache, the list of parents and its descriptor  *)
(* exactly as ProxyConnect says: handshake, retries, reconnects and every    *)
(* way out included.                                                         *)
THEOREM PoolImplemented == Spec => ImplementsPool
<1>1. Init => PC!Init
  BY DEF Init
<1>2. [Next]_vars => [PC!Next]_(PC!vars)
  <2> SUFFICES ASSUME [Next]_vars PROVE PC!Next \/ UNCHANGED PC!vars
    OBVIOUS
  <2>1. ASSUME NEW t \in Threads, InCall(t)
        PROVE  PC!Next \/ UNCHANGED PC!vars
    BY <2>1, PoolSteps, ClosingSteps, OtherSteps, PoolUntouched DEF InCall
  <2>2. ASSUME NEW t \in Threads, Arrive(t) \/ NextRequest(t)
        PROVE  UNCHANGED PC!vars
    BY <2>2, OtherSteps, PoolUntouched
  <2>3. ASSUME NEW fd \in Fds, RemoteClose(fd)
        PROVE  PC!Next
    BY <2>3 DEF RemoteClose, PC!Next
  <2>4. CASE UNCHANGED vars
    BY <2>4, PoolUntouched DEF vars
  <2> QED
    BY <2>1, <2>2, <2>3, <2>4 DEF Next
<1> QED
  BY <1>1, <1>2, PTL DEF Spec, ImplementsPool, PC!Spec

-----------------------------------------------------------------------------
(* What is proved of the pool *)
PP == INSTANCE ProxyConnect_proofs

(* PC and PP are instances of the same definitions. *)

LEMMA PoolNext == [PC!Next]_(PC!vars) <=> [PP!Next]_(PP!vars)
BY Zenon DEF PC!Pop, PP!Pop, PC!PopTo, PP!PopTo, PC!Store, PP!Store, PC!Close, PP!Close,
             PC!RemoteClose, PP!RemoteClose, PC!Enter, PP!Enter, PC!SelectFirst,
             PP!SelectFirst, PC!Pick, PP!Pick, PC!Attempt, PP!Attempt, PC!Unresolved,
             PP!Unresolved, PC!Refused, PP!Refused, PC!Connected, PP!Connected, PC!Advance,
             PP!Advance, PC!NextParent, PP!NextParent, PC!CheckMoved, PP!CheckMoved,
             PC!Invalidate, PP!Invalidate, PC!Return, PP!Return, PC!Outcome, PP!Outcome,
             PC!Call, PP!Call, PC!Goto, PP!Goto, PC!CloseAll, PP!CloseAll, PC!Before,
             PP!Before, PC!FirstOpen, PP!FirstOpen, PC!SoClosed, PP!SoClosed, PC!TouchNodes,
             PP!TouchNodes, PC!vars, PP!vars, PC!pool, PP!pool, PC!locals, PP!locals,
             PC!NotFds, PP!NotFds, PC!Next, PP!Next, PC!Parents, PP!Parents

LEMMA PoolInit == PC!Init <=> PP!Init
BY DEF PC!Init, PP!Init, PC!Parents, PP!Parents

LEMMA Pool == Spec => [](PC!TypeOK /\ PC!ExclusiveSockets)
<1>1. PP!Spec => []PP!TypeOK
  BY PoolAssumption, PP!TypeCorrect
<1>2. PP!Spec => []PP!ExclusiveSockets
  BY PoolAssumption, PP!SocketsExclusive
<1>3. PP!TypeOK => PC!TypeOK
  BY DEF PP!TypeOK, PP!Parents, PP!HeapState, PP!SockState, PP!Position, PP!NotFds,
         PC!TypeOK, PC!Parents, PC!HeapState, PC!SockState, PC!Position, PC!NotFds
<1>4. PP!ExclusiveSockets => PC!ExclusiveSockets
  BY DEF PP!ExclusiveSockets, PP!Cached, PC!ExclusiveSockets, PC!Cached
<1> QED
  BY <1>1, <1>2, <1>3, <1>4, PoolImplemented, PoolNext, PoolInit, PTL DEF ImplementsPool,
         PC!Spec, PP!Spec

(* What the calls of forward_request() and proxy_connect() make of the pool  *)
(* together: the parents that are looked up exist, no socket has two users   *)
(* and none is leaked.                                                      *)
THEOREM PoolKept == Spec => [](PC!ParentExists /\ PC!ExclusiveSockets /\ PC!NoSocketLeak)
<1>1. PP!Spec => []PP!ParentExists
  BY PoolAssumption, PP!ParentAlwaysExists
<1>2. PP!Spec => []PP!NoSocketLeak
  BY PoolAssumption, PP!SocketsNotLeaked
<1>3. PP!ParentExists => PC!ParentExists
  BY DEF PP!ParentExists, PP!Parents, PC!ParentExists, PC!Parents
<1>4. PP!NoSocketLeak => PC!NoSocketLeak
  BY DEF PP!NoSocketLeak, PP!Cached, PP!Held, PC!NoSocketLeak, PC!Cached, PC!Held
<1> QED
  BY <1>1, <1>2, <1>3, <1>4, Pool, PoolImplemented, PoolNext, PoolInit, PTL
  DEF ImplementsPool, PC!Spec, PP!Spec

(* "Each request scans the whole list until all items are tried or a working *)
(* proxy is found" (forward.c:46): if there is one thread or one parent a    *)
(* connection fails only if no parent works, be it for a request, after a    *)
(* handshake that the parent has cut short or for a retry.                   *)
THEOREM WholeListScanned ==
    ASSUME ParentCount = 1 \/ \E t : Threads = {t}
    PROVE  Spec => []ScansWholeList
<1>1. PP!Undisturbed
  BY DEF PP!Undisturbed
<1>2. PP!Spec => []PP!ScansWholeList
  BY <1>1, PoolAssumption, PP!WholeListScanned
<1>3. PP!ScansWholeList => ScansWholeList
  BY DEF PP!ScansWholeList, PP!NotFds, ScansWholeList, PC!ScansWholeList, PC!NotFds
<1> QED
  BY <1>2, <1>3, PoolImplemented, PoolNext, PoolInit, PTL DEF ImplementsPool, PC!Spec, PP!Spec

-----------------------------------------------------------------------------
(* What a thread's locals are at each label.  A request is counted once      *)
(* from its sending to its refusal, a probe likewise; a request that was     *)
(* probed is not started over; it is answered from Reply on, and only a      *)
(* probe is answered by a pretended 407.                                     *)
LocalTypes ==
    /\ pc \in [Threads -> Label]
    /\ fr \in [Threads -> Locals]
    /\ wire \in [Fds -> Wire]
    /\ kind \in [Threads -> Kinds \cup {"plain"}]
    /\ unsent \in [Threads -> BOOLEAN]
    /\ answered \in [Threads -> BOOLEAN]
    /\ copies \in [Threads -> [Copy -> Nat]]
    /\ basic \in [Threads -> BOOLEAN]
    /\ ntlmbasic \in BOOLEAN

Authenticated == {"authend", "reconnect", "reconnecting", "authdone"}
Replied == {"out", "while", "next", "bailout"}

CopiesInv(t) ==
    /\ pc[t] \in {"beginning", "connect", "connecting", "request", "auth"} =>
          copies[t]["full"] = 0 /\ copies[t]["probe"] = 0
    /\ pc[t] = "authreply" => copies[t][AuthCopy(t)] = 1
    /\ pc[t] = "authreply" /\ kind[t] \in Probed => copies[t]["full"] = 0
    /\ pc[t] \in Authenticated =>
          copies[t]["full"] = IF fr[t].code = "407" THEN 0 ELSE 1
    /\ pc[t] = "send" => copies[t]["full"] = 0
    /\ pc[t] = "receive" => copies[t]["full"] = 1
    /\ copies[t]["full"] \in {0, 1}
    /\ copies[t]["probe"] \in (IF kind[t] \in Probed THEN {0, 1} ELSE {0})

HandshakeInv(t) ==
    /\ fr[t].was_cached => fr[t].authok
    /\ pc[t] \in {"auth", "authreply"} \cup Authenticated => ~fr[t].authok /\ ~fr[t].noauth
    /\ pc[t] \in {"send", "receive"} /\ copies[t]["probe"] # 0 => ~MustRetry(t)

AnswerInv(t) ==
    /\ fr[t].rc # "null" => pc[t] \in {"while", "bailout"}
    /\ pc[t] = "while" /\ fr[t].proxy_alive => fr[t].rc = "null"
    /\ fr[t].rc = "request" => pc[t] = "bailout" /\ ~answered[t] /\ copies[t]["full"] = 0
                                /\ copies[t]["probe"] = 0
    /\ pc[t] \in {"while", "next"} => answered[t]
    /\ pc[t] = "bailout" /\ fr[t].rc = "null" => answered[t]
    /\ pc[t] \notin Replied => ~answered[t]

ProbeInv(t) ==
    kind[t] \in Probed =>
        /\ pc[t] \in Authenticated => fr[t].code = "407"
        /\ pc[t] = "reply" => fr[t].last = "full"

CallInv ==
    \A t \in Threads : CopiesInv(t) /\ HandshakeInv(t) /\ AnswerInv(t) /\ ProbeInv(t)

CallState(t) == CopiesInv(t) /\ HandshakeInv(t) /\ AnswerInv(t) /\ ProbeInv(t)

Others(t) ==
    \A u \in Threads \ {t} :
        /\ pc'[u] = pc[u] /\ fr'[u] = fr[u] /\ kind'[u] = kind[u]
        /\ answered'[u] = answered[u] /\ copies'[u] = copies[u]

(* A copy more, a copy less, none yet *)
LEMMA CountedCopies ==
    ASSUME LocalTypes, NEW t \in Threads, NEW c \in Copy, Counted(t, c)
    PROVE  /\ copies' \in [Threads -> [Copy -> Nat]]
           /\ copies'[t][c] = copies[t][c] + 1
           /\ \A d \in Copy \ {c} : copies'[t][d] = copies[t][d]
           /\ \A u \in Threads \ {t} : copies'[u] = copies[u]
BY DEF Counted, LocalTypes

LEMMA RefusedCopies ==
    ASSUME LocalTypes, NEW t \in Threads, NEW c \in Copy, copies[t][c] = 1, Refused(t, c)
    PROVE  /\ copies' \in [Threads -> [Copy -> Nat]]
           /\ copies'[t][c] = 0
           /\ \A d \in Copy \ {c} : copies'[t][d] = copies[t][d]
           /\ \A u \in Threads \ {t} : copies'[u] = copies[u]
BY DEF Refused, LocalTypes

LEMMA FreshCopies ==
    ASSUME LocalTypes, NEW t \in Threads, NewRequest(t)
    PROVE  /\ copies' \in [Threads -> [Copy -> Nat]]
           /\ copies'[t]["full"] = 0 /\ copies'[t]["probe"] = 0
           /\ \A u \in Threads \ {t} : copies'[u] = copies[u]
<1>1. copies' = [copies EXCEPT ![t] = [c \in Copy |-> 0]]
  BY DEF NewRequest
<1>2. [c \in Copy |-> 0] \in [Copy -> Nat]
  OBVIOUS
<1> QED
  BY <1>1, <1>2 DEF LocalTypes, Copy

LEMMA Moved ==
    ASSUME LocalTypes, NEW t \in Threads, NEW l \in Label, Goto(t, l)
    PROVE  /\ pc' \in [Threads -> Label] /\ pc'[t] = l
           /\ \A u \in Threads \ {t} : pc'[u] = pc[u]
BY DEF LocalTypes, Goto

LEMMA Assigned ==
    ASSUME LocalTypes, NEW t \in Threads, NEW r \in Locals, fr' = [fr EXCEPT ![t] = r]
    PROVE  /\ fr' \in [Threads -> Locals] /\ fr'[t] = r
           /\ \A u \in Threads \ {t} : fr'[u] = fr[u]
BY DEF LocalTypes

LEMMA Wired ==
    ASSUME LocalTypes, NEW t \in Threads, NEW w \in Wire, SetWire(t, w)
    PROVE  wire' \in [Fds -> Wire]
BY DEF LocalTypes, SetWire

LEMMA LocalsHere == ASSUME LocalTypes, NEW t \in Threads PROVE fr[t] \in Locals
BY DEF LocalTypes

(* Giving up is safe wherever a thread stands. *)
LEMMA Dropped ==
    ASSUME LocalTypes, NEW t \in Threads, CallState(t), Drop(t), UNCHANGED <<kind, copies>>
    PROVE  /\ pc' \in [Threads -> Label] /\ fr' \in [Threads -> Locals]
           /\ \A u \in Threads \ {t} : pc'[u] = pc[u] /\ fr'[u] = fr[u]
           /\ pc'[t] = "bailout" /\ fr'[t].proxy_alive = fr[t].proxy_alive
           /\ CallState(t)'
<1>1. fr' = [fr EXCEPT ![t] = [fr[t] EXCEPT !.rc = "drop"]]
  BY DEF Drop
<1>2. LET r == [fr[t] EXCEPT !.rc = "drop"]
      IN  /\ r \in Locals /\ r.rc = "drop" /\ r.proxy_alive = fr[t].proxy_alive
          /\ r.was_cached = fr[t].was_cached /\ r.authok = fr[t].authok
  BY LocalsHere DEF Locals
<1>3. /\ fr' \in [Threads -> Locals] /\ fr'[t].rc = "drop"
      /\ fr'[t].proxy_alive = fr[t].proxy_alive
      /\ fr'[t].was_cached = fr[t].was_cached /\ fr'[t].authok = fr[t].authok
      /\ \A u \in Threads \ {t} : fr'[u] = fr[u]
  BY <1>1, <1>2, Assigned
<1>4. /\ pc' \in [Threads -> Label] /\ pc'[t] = "bailout"
      /\ \A u \in Threads \ {t} : pc'[u] = pc[u]
  BY Moved DEF Drop, Label
<1>5. CallState(t)'
  BY <1>3, <1>4 DEF CallState, CopiesInv, HandshakeInv, AnswerInv, ProbeInv, Authenticated,
                    Replied
<1> QED
  BY <1>3, <1>4, <1>5

(* A new request of the client *)
LEMMA Requested ==
    ASSUME LocalTypes, NEW t \in Threads, NewRequest(t)
    PROVE  /\ kind' \in [Threads -> Kinds \cup {"plain"}] /\ unsent' \in [Threads -> BOOLEAN]
           /\ answered' \in [Threads -> BOOLEAN] /\ copies' \in [Threads -> [Copy -> Nat]]
           /\ basic' \in [Threads -> BOOLEAN] /\ ntlmbasic' = ntlmbasic
           /\ ~answered'[t] /\ copies'[t]["full"] = 0 /\ copies'[t]["probe"] = 0
           /\ \A u \in Threads \ {t} : /\ kind'[u] = kind[u] /\ copies'[u] = copies[u]
                                      /\ answered'[u] = answered[u]
<1>1. PICK k \in Kinds, b \in OwnCredentials :
          /\ kind' = [kind EXCEPT ![t] = k]
          /\ unsent' = [unsent EXCEPT ![t] = (k = "body")]
          /\ answered' = [answered EXCEPT ![t] = FALSE]
          /\ basic' = [basic EXCEPT ![t] = b]
          /\ ntlmbasic' = ntlmbasic
  BY DEF NewRequest
<1>2. (k = "body") \in BOOLEAN /\ b \in BOOLEAN
  BY OptionsAssumption
<1> QED
  BY <1>1, <1>2, FreshCopies DEF LocalTypes

LEMMA ArriveState ==
    ASSUME LocalTypes, NEW t \in Threads, CallState(t), Arrive(t)
    PROVE  LocalTypes' /\ Others(t) /\ CallState(t)'
<1>1. /\ pc' \in [Threads -> Label] /\ pc'[t] = "beginning"
      /\ \A u \in Threads \ {t} : pc'[u] = pc[u]
  BY Moved DEF Arrive, Label
<1>2. fr' = fr /\ wire' = wire /\ pc[t] = "out"
  BY DEF Arrive
<1>3. LocalTypes' /\ Others(t)
  BY <1>1, <1>2, Requested DEF Arrive, LocalTypes, Others
<1>4. ~answered'[t] /\ copies'[t]["full"] = 0 /\ copies'[t]["probe"] = 0
  BY Requested DEF Arrive
<1> QED
  BY <1>1, <1>2, <1>3, <1>4 DEF CallState, CopiesInv, HandshakeInv, AnswerInv, ProbeInv,
                                Authenticated, Replied

LEMMA NextRequestState ==
    ASSUME LocalTypes, NEW t \in Threads, CallState(t), NextRequest(t)
    PROVE  LocalTypes' /\ Others(t) /\ CallState(t)'
<1>1. wire' = wire /\ pc[t] = "next"
  BY DEF NextRequest
<1>2. CASE Drop(t) /\ UNCHANGED client
  BY <1>1, <1>2, Dropped DEF client, LocalTypes, Others
<1>3. CASE /\ NewRequest(t)
           /\ fr' = [fr EXCEPT ![t].rc = "request", ![t].proxy_alive = fr[t].authok]
           /\ Goto(t, "bailout")
  <2>1. LET r == [fr[t] EXCEPT !.rc = "request", !.proxy_alive = fr[t].authok]
        IN  /\ r \in Locals /\ r.rc = "request"
            /\ r.was_cached = fr[t].was_cached /\ r.authok = fr[t].authok
    BY LocalsHere DEF Locals
  <2>2. /\ fr' \in [Threads -> Locals] /\ fr'[t].rc = "request"
        /\ fr'[t].was_cached = fr[t].was_cached /\ fr'[t].authok = fr[t].authok
        /\ \A u \in Threads \ {t} : fr'[u] = fr[u]
    BY <1>3, <2>1, Assigned
  <2>3. /\ pc' \in [Threads -> Label] /\ pc'[t] = "bailout"
        /\ \A u \in Threads \ {t} : pc'[u] = pc[u]
    BY <1>3, Moved DEF Label
  <2>4. LocalTypes' /\ Others(t)
    BY <1>1, <1>3, <2>2, <2>3, Requested DEF LocalTypes, Others
  <2>5. ~answered'[t] /\ copies'[t]["full"] = 0 /\ copies'[t]["probe"] = 0
    BY <1>3, Requested
  <2> QED
    BY <2>2, <2>3, <2>4, <2>5 DEF CallState, CopiesInv, HandshakeInv, AnswerInv, ProbeInv,
                                 Authenticated, Replied
<1>4. CASE NewRequest(t) /\ Goto(t, "request") /\ fr' = fr
  <2>1. /\ pc' \in [Threads -> Label] /\ pc'[t] = "request"
        /\ \A u \in Threads \ {t} : pc'[u] = pc[u]
    BY <1>4, Moved DEF Label
  <2>2. LocalTypes' /\ Others(t)
    BY <1>1, <1>4, <2>1, Requested DEF LocalTypes, Others
  <2>3. ~answered'[t] /\ copies'[t]["full"] = 0 /\ copies'[t]["probe"] = 0
    BY <1>4, Requested
  <2> QED
    BY <1>1, <1>4, <2>1, <2>2, <2>3 DEF CallState, CopiesInv, HandshakeInv, AnswerInv,
                                       ProbeInv, Authenticated, Replied
<1> QED
  BY <1>2, <1>3, <1>4 DEF NextRequest

LEMMA BeginningType ==
    /\ Beginning \in Locals /\ Beginning.rc = "null" /\ ~Beginning.was_cached
    /\ ~Beginning.proxy_alive /\ Beginning.creds = "other" /\ Beginning.proof = "none"
BY DEF Beginning, Locals, Code

LEMMA CachedType ==
    LET r == [Beginning EXCEPT !.authok = TRUE, !.was_cached = TRUE]
    IN  /\ r \in Locals /\ r.rc = "null" /\ r.authok
        /\ ~r.proxy_alive /\ r.creds = "other" /\ r.proof = "none"
BY DEF Beginning, Locals, Code

LEMMA FreedWires == ASSUME LocalTypes, Freed PROVE wire' \in [Fds -> Wire]
BY DEF LocalTypes, Freed, Wire

LEMMA PopCachedState ==
    ASSUME LocalTypes, NEW t \in Threads, CallState(t), PopCached(t)
    PROVE  LocalTypes' /\ Others(t) /\ CallState(t)'
<1>1. /\ fr' \in [Threads -> Locals] /\ fr'[t].rc = "null"
      /\ fr'[t].was_cached => fr'[t].authok
      /\ \A u \in Threads \ {t} : fr'[u] = fr[u]
  BY BeginningType, CachedType, Assigned DEF PopCached
<1>2. /\ pc' \in [Threads -> Label] /\ pc'[t] \in {"request", "connect"}
      /\ \A u \in Threads \ {t} : pc'[u] = pc[u]
  BY Moved DEF PopCached, Label
<1>3. LocalTypes' /\ Others(t)
  BY <1>1, <1>2, FreedWires DEF PopCached, client, LocalTypes, Others
<1> QED
  BY <1>1, <1>2, <1>3 DEF PopCached, client, CallState, CopiesInv, HandshakeInv, AnswerInv,
                          ProbeInv, Authenticated, Replied

LEMMA ConnectState ==
    ASSUME LocalTypes, NEW t \in Threads, CallState(t), Connect(t)
    PROVE  LocalTypes' /\ Others(t) /\ CallState(t)'
<1>1. /\ pc' \in [Threads -> Label]
      /\ pc'[t] = IF pc[t] = "connect" THEN "connecting" ELSE "reconnecting"
      /\ \A u \in Threads \ {t} : pc'[u] = pc[u]
  BY Moved DEF Connect, Label
<1>2. LocalTypes' /\ Others(t)
  BY <1>1 DEF Connect, client, LocalTypes, Others
<1> QED
  BY <1>1, <1>2 DEF Connect, client, CallState, CopiesInv, HandshakeInv, AnswerInv,
                    ProbeInv, Authenticated, Replied

LEMMA ConnectingState ==
    ASSUME LocalTypes, NEW t \in Threads, CallState(t), Connecting(t)
    PROVE  LocalTypes' /\ Others(t) /\ CallState(t)'
<1>1. LocalTypes' /\ Others(t)
  BY FreedWires DEF Connecting, client, LocalTypes, Others
<1> QED
  BY <1>1 DEF Connecting, client, CallState, CopiesInv, HandshakeInv, MustRetry, AnswerInv,
              ProbeInv

LEMMA ConnectReturnedState ==
    ASSUME LocalTypes, NEW t \in Threads, CallState(t), ConnectReturned(t)
    PROVE  LocalTypes' /\ Others(t) /\ CallState(t)'
<1>1. /\ UNCHANGED <<wire, kind, unsent, copies, basic, ntlmbasic>> /\ pc[t] = "connecting"
      /\ answered' \in [Threads -> BOOLEAN]
      /\ \A u \in Threads \ {t} : answered'[u] = answered[u]
  BY DEF ConnectReturned, LocalTypes
<1>2. CASE Goto(t, "request") /\ UNCHANGED <<fr, answered>>
  <2>1. /\ pc' \in [Threads -> Label] /\ pc'[t] = "request"
        /\ \A u \in Threads \ {t} : pc'[u] = pc[u]
    BY <1>2, Moved DEF Label
  <2>2. LocalTypes' /\ Others(t)
    BY <1>1, <1>2, <2>1 DEF LocalTypes, Others
  <2> QED
    BY <1>1, <1>2, <2>1, <2>2 DEF CallState, CopiesInv, HandshakeInv, AnswerInv, ProbeInv,
                                 Authenticated, Replied
<1>3. CASE Drop(t)
  BY <1>1, <1>3, Dropped DEF LocalTypes, Others
<1> QED
  BY <1>2, <1>3 DEF ConnectReturned

LEMMA ParseRequestState ==
    ASSUME LocalTypes, NEW t \in Threads, CallState(t), ParseRequest(t)
    PROVE  LocalTypes' /\ Others(t) /\ CallState(t)'
<1>1. /\ UNCHANGED <<wire, kind, unsent, copies, ntlmbasic>> /\ pc[t] = "request"
      /\ answered' \in [Threads -> BOOLEAN] /\ basic' \in [Threads -> BOOLEAN]
      /\ \A u \in Threads \ {t} : answered'[u] = answered[u]
  BY DEF ParseRequest, LocalTypes
<1>2. CASE /\ fr' = [fr EXCEPT ![t].creds = IF basic[t] THEN "client" ELSE @,
                              ![t].proof = "none"]
           /\ Goto(t, IF fr[t].authok \/ fr[t].noauth THEN "send" ELSE "auth")
           /\ answered' = answered
  <2>1. PICK c \in {"other", "client"} :
            fr' = [fr EXCEPT ![t] = [fr[t] EXCEPT !.creds = c, !.proof = "none"]]
    BY <1>2 DEF LocalTypes, Locals
  <2>2. LET r == [fr[t] EXCEPT !.creds = c, !.proof = "none"]
        IN  /\ r \in Locals /\ r.rc = fr[t].rc /\ r.code = fr[t].code /\ r.last = fr[t].last
            /\ r.was_cached = fr[t].was_cached /\ r.authok = fr[t].authok
            /\ r.noauth = fr[t].noauth /\ r.proxy_alive = fr[t].proxy_alive
    BY LocalsHere DEF Locals
  <2>3. /\ fr' \in [Threads -> Locals] /\ fr'[t].rc = fr[t].rc
        /\ fr'[t].was_cached = fr[t].was_cached /\ fr'[t].authok = fr[t].authok
        /\ fr'[t].noauth = fr[t].noauth /\ fr'[t].proxy_alive = fr[t].proxy_alive
        /\ \A u \in Threads \ {t} : fr'[u] = fr[u]
    BY <2>1, <2>2, Assigned
  <2>4. /\ pc' \in [Threads -> Label]
        /\ pc'[t] = IF fr[t].authok \/ fr[t].noauth THEN "send" ELSE "auth"
        /\ \A u \in Threads \ {t} : pc'[u] = pc[u]
    BY <1>2, Moved DEF Label
  <2>5. LocalTypes' /\ Others(t)
    BY <1>1, <1>2, <2>3, <2>4 DEF LocalTypes, Others
  <2> QED
    BY <1>1, <1>2, <2>3, <2>4, <2>5 DEF CallState, CopiesInv, HandshakeInv, AnswerInv,
                                       ProbeInv, Authenticated, Replied
<1>3. CASE Drop(t)
  BY <1>1, <1>3, Dropped DEF LocalTypes, Others
<1> QED
  BY <1>2, <1>3 DEF ParseRequest

LEMMA AuthCopyType == ASSUME NEW t \in Threads PROVE AuthCopy(t) \in Copy
BY DEF AuthCopy, Copy

LEMMA AuthSendState ==
    ASSUME LocalTypes, NEW t \in Threads, CallState(t), AuthSend(t)
    PROVE  LocalTypes' /\ Others(t) /\ CallState(t)'
<1>1. UNCHANGED <<kind, unsent, answered, basic, ntlmbasic>> /\ pc[t] = "auth"
  BY DEF AuthSend
<1>2. CASE SetWire(t, "auth") /\ Counted(t, AuthCopy(t)) /\ Goto(t, "authreply") /\ fr' = fr
  <2>1. /\ pc' \in [Threads -> Label] /\ pc'[t] = "authreply"
        /\ \A u \in Threads \ {t} : pc'[u] = pc[u]
    BY <1>2, Moved DEF Label
  <2>2. wire' \in [Fds -> Wire]
    BY <1>2, Wired DEF Wire
  <2>3. copies[t]["full"] = 0 /\ copies[t]["probe"] = 0
    BY <1>1 DEF CallState, CopiesInv
  <2>4. /\ copies' \in [Threads -> [Copy -> Nat]]
        /\ copies'[t][AuthCopy(t)] = 1
        /\ \A d \in Copy \ {AuthCopy(t)} : copies'[t][d] = 0
        /\ \A u \in Threads \ {t} : copies'[u] = copies[u]
    BY <1>2, <2>3, AuthCopyType, CountedCopies DEF Copy
  <2>5. LocalTypes' /\ Others(t)
    BY <1>1, <1>2, <2>1, <2>2, <2>4 DEF LocalTypes, Others
  <2>6. /\ kind[t] \in Probed => copies'[t]["probe"] = 1 /\ copies'[t]["full"] = 0
        /\ kind[t] \notin Probed => copies'[t]["full"] = 1 /\ copies'[t]["probe"] = 0
        /\ AuthCopy(t)' = AuthCopy(t)
    BY <1>1, <2>4 DEF AuthCopy, Copy
  <2> QED
    BY <1>1, <1>2, <2>1, <2>4, <2>5, <2>6
    DEF CallState, CopiesInv, HandshakeInv, AnswerInv, ProbeInv, Authenticated, Replied
<1>3. CASE Drop(t) /\ UNCHANGED <<wire, copies>>
  BY <1>1, <1>3, Dropped DEF LocalTypes, Others
<1> QED
  BY <1>2, <1>3 DEF AuthSend

(* The locals that a reply to the handshake leaves alone *)
Unauthenticated(r, t) ==
    /\ r \in Locals /\ r.rc = fr[t].rc /\ r.proxy_alive = fr[t].proxy_alive
    /\ r.was_cached = fr[t].was_cached /\ r.authok = fr[t].authok
    /\ r.noauth = fr[t].noauth /\ r.creds = fr[t].creds

LEMMA ChallengedState ==
    ASSUME LocalTypes, NEW t \in Threads, CallState(t), AuthReply(t), Challenged(t)
    PROVE  /\ LocalTypes' /\ Others(t) /\ CallState(t)'
           /\ Unauthenticated(fr'[t], t) /\ pc'[t] \in {"authend", "authdone"}
           /\ fr'[t].proof \in {fr[t].proof, "none", fr[t].creds}
<1>1. UNCHANGED <<kind, unsent, answered, basic, ntlmbasic>> /\ pc[t] = "authreply"
  BY DEF AuthReply
<1>2. /\ pc' \in [Threads -> Label] /\ pc'[t] \in {"authend", "authdone"}
      /\ \A u \in Threads \ {t} : pc'[u] = pc[u]
  BY Moved DEF Challenged, Label
<1>3. PICK p \in {fr[t].proof, "none", fr[t].creds} :
          fr' = [fr EXCEPT ![t] = [fr[t] EXCEPT !.code = "407", !.last = "auth", !.proof = p]]
  <2>1. [fr[t] EXCEPT !.code = "407", !.last = "auth"]
          = [fr[t] EXCEPT !.code = "407", !.last = "auth", !.proof = fr[t].proof]
    BY DEF LocalTypes, Locals
  <2> QED
    BY <2>1 DEF Challenged
<1>4. LET r == [fr[t] EXCEPT !.code = "407", !.last = "auth", !.proof = p]
      IN  Unauthenticated(r, t) /\ r.code = "407" /\ r.proof = p
  BY LocalsHere DEF Locals, Code, Unauthenticated
<1>5. /\ fr' \in [Threads -> Locals] /\ Unauthenticated(fr'[t], t) /\ fr'[t].code = "407"
      /\ fr'[t].proof = p /\ \A u \in Threads \ {t} : fr'[u] = fr[u]
  BY <1>3, <1>4, Assigned DEF Unauthenticated
<1>6. wire' \in [Fds -> Wire]
  BY Wired DEF Challenged, Wire
<1>7. /\ copies' \in [Threads -> [Copy -> Nat]]
      /\ copies'[t][AuthCopy(t)] = 0
      /\ \A d \in Copy \ {AuthCopy(t)} : copies'[t][d] = copies[t][d]
      /\ \A u \in Threads \ {t} : copies'[u] = copies[u]
  BY <1>1, AuthCopyType, RefusedCopies DEF Challenged, CallState, CopiesInv
<1>8. LocalTypes' /\ Others(t)
  BY <1>1, <1>2, <1>5, <1>6, <1>7 DEF LocalTypes, Others
<1>9. copies'[t]["full"] = 0 /\ copies'[t]["probe"] = 0
  BY <1>1, <1>7 DEF CallState, CopiesInv, AuthCopy, Copy
<1> QED
  BY <1>1, <1>2, <1>5, <1>8, <1>9
  DEF Unauthenticated, CallState, CopiesInv, HandshakeInv, AnswerInv, ProbeInv,
      Authenticated, Replied

LEMMA NotChallengedState ==
    ASSUME LocalTypes, NEW t \in Threads, CallState(t), AuthReply(t), NotChallenged(t)
    PROVE  /\ LocalTypes' /\ Others(t) /\ CallState(t)'
           /\ Unauthenticated(fr'[t], t) /\ pc'[t] = "authend"
           /\ fr'[t].proof = fr[t].proof
<1>1. /\ UNCHANGED <<kind, unsent, answered, copies, basic, ntlmbasic>>
      /\ pc[t] = "authreply"
  BY DEF AuthReply, NotChallenged
<1>2. /\ pc' \in [Threads -> Label] /\ pc'[t] = "authend"
      /\ \A u \in Threads \ {t} : pc'[u] = pc[u]
  BY Moved DEF NotChallenged, Label
<1>3. PICK c \in {"ok", "error", "407"}, b \in BOOLEAN :
          /\ fr' = [fr EXCEPT ![t] = [fr[t] EXCEPT !.code = c, !.last = "auth", !.body = b]]
          /\ c = "407" <=> kind[t] \in Probed
  <2>1. CASE kind[t] \in Probed
    <3>1. fr' = [fr EXCEPT ![t] = [fr[t] EXCEPT !.code = "407", !.last = "auth"]]
      BY <2>1 DEF NotChallenged
    <3>2. /\ [fr[t] EXCEPT !.code = "407", !.last = "auth"]
               = [fr[t] EXCEPT !.code = "407", !.last = "auth", !.body = fr[t].body]
          /\ fr[t].body \in BOOLEAN
      BY DEF LocalTypes, Locals
    <3> QED
      BY <2>1, <3>1, <3>2
  <2>2. CASE kind[t] \notin Probed
    BY <2>2 DEF NotChallenged
  <2> QED
    BY <2>1, <2>2
<1>4. LET r == [fr[t] EXCEPT !.code = c, !.last = "auth", !.body = b]
      IN  Unauthenticated(r, t) /\ r.code = c /\ r.proof = fr[t].proof
  BY LocalsHere DEF Locals, Code, Unauthenticated
<1>5. /\ fr' \in [Threads -> Locals] /\ Unauthenticated(fr'[t], t) /\ fr'[t].code = c
      /\ fr'[t].proof = fr[t].proof /\ \A u \in Threads \ {t} : fr'[u] = fr[u]
  BY <1>3, <1>4, Assigned DEF Unauthenticated
<1>6. wire' \in [Fds -> Wire]
  BY Wired DEF NotChallenged, Wire
<1>7. LocalTypes' /\ Others(t)
  BY <1>1, <1>2, <1>5, <1>6 DEF LocalTypes, Others
<1>8. kind[t] \notin Probed => copies[t]["full"] = 1
  BY <1>1 DEF CallState, CopiesInv, AuthCopy
<1> QED
  BY <1>1, <1>2, <1>3, <1>5, <1>7, <1>8
  DEF Unauthenticated, CallState, CopiesInv, HandshakeInv, AnswerInv, ProbeInv,
      Authenticated, Replied

LEMMA AuthReplyState ==
    ASSUME LocalTypes, NEW t \in Threads, CallState(t), AuthReply(t)
    PROVE  LocalTypes' /\ Others(t) /\ CallState(t)'
<1>1. CASE Drop(t) /\ UNCHANGED <<wire, copies>>
  BY <1>1, Dropped DEF AuthReply, LocalTypes, Others
<1>2. CASE Challenged(t) \/ NotChallenged(t)
  BY <1>2, ChallengedState, NotChallengedState
<1> QED
  BY <1>1, <1>2 DEF AuthReply

LEMMA AuthEndState ==
    ASSUME LocalTypes, NEW t \in Threads, CallState(t), AuthEnd(t)
    PROVE  LocalTypes' /\ Others(t) /\ CallState(t)'
<1>1. /\ pc' \in [Threads -> Label] /\ pc'[t] \in {"authdone", "reconnect"}
      /\ \A u \in Threads \ {t} : pc'[u] = pc[u]
  BY Moved DEF AuthEnd, Label
<1>2. wire' \in [Fds -> Wire]
  BY Wired DEF AuthEnd, Disconnect, Wire, LocalTypes
<1>3. LocalTypes' /\ Others(t)
  BY <1>1, <1>2 DEF AuthEnd, client, LocalTypes, Others
<1> QED
  BY <1>1, <1>3 DEF AuthEnd, client, CallState, CopiesInv, HandshakeInv, AnswerInv, ProbeInv,
                    Authenticated, Replied

LEMMA ReconnectedState ==
    ASSUME LocalTypes, NEW t \in Threads, CallState(t), Reconnected(t)
    PROVE  /\ LocalTypes' /\ Others(t) /\ CallState(t)'
           /\ fr'[t].proxy_alive = fr[t].proxy_alive
           /\ fr'[t].creds \in {fr[t].creds, "other"} /\ fr'[t].proof = fr[t].proof
<1>1. UNCHANGED client /\ wire' = wire /\ pc[t] = "reconnecting"
  BY DEF Reconnected
<1>2. CASE Drop(t)
  <2>1. fr'[t] = [fr[t] EXCEPT !.rc = "drop"]
    BY <1>2 DEF Drop, LocalTypes
  <2>2. fr'[t].creds = fr[t].creds /\ fr'[t].proof = fr[t].proof
    BY <2>1 DEF LocalTypes, Locals
  <2> QED
    BY <1>1, <1>2, <2>2, Dropped DEF client, LocalTypes, Others
<1>3. CASE Goto(t, "authdone") /\ (fr' = fr \/ fr' = [fr EXCEPT ![t].creds = "other"])
  <2>1. PICK c \in {"other", fr[t].creds} :
            fr' = [fr EXCEPT ![t] = [fr[t] EXCEPT !.creds = c]]
    <3>1. [fr[t] EXCEPT !.creds = fr[t].creds] = fr[t]
      BY DEF LocalTypes, Locals
    <3>2. [fr EXCEPT ![t] = fr[t]] = fr
      BY DEF LocalTypes
    <3> QED
      BY <1>3, <3>1, <3>2
  <2>2. LET r == [fr[t] EXCEPT !.creds = c]
        IN  /\ r \in Locals /\ r.rc = fr[t].rc /\ r.proxy_alive = fr[t].proxy_alive
            /\ r.was_cached = fr[t].was_cached /\ r.authok = fr[t].authok
            /\ r.noauth = fr[t].noauth /\ r.code = fr[t].code
            /\ r.creds = c /\ r.proof = fr[t].proof
    BY LocalsHere DEF Locals
  <2>3. /\ fr' \in [Threads -> Locals] /\ fr'[t].rc = fr[t].rc
        /\ fr'[t].was_cached = fr[t].was_cached /\ fr'[t].authok = fr[t].authok
        /\ fr'[t].noauth = fr[t].noauth /\ fr'[t].code = fr[t].code
        /\ fr'[t].proxy_alive = fr[t].proxy_alive
        /\ fr'[t].creds = c /\ fr'[t].proof = fr[t].proof
        /\ \A u \in Threads \ {t} : fr'[u] = fr[u]
    BY <2>1, <2>2, Assigned
  <2>4. /\ pc' \in [Threads -> Label] /\ pc'[t] = "authdone"
        /\ \A u \in Threads \ {t} : pc'[u] = pc[u]
    BY <1>3, Moved DEF Label
  <2>5. LocalTypes' /\ Others(t)
    BY <1>1, <2>3, <2>4 DEF client, LocalTypes, Others
  <2>6. CallState(t)'
    BY <1>1, <2>3, <2>4 DEF client, CallState, CopiesInv, HandshakeInv, AnswerInv, ProbeInv,
                           Authenticated, Replied
  <2> QED
    BY <2>3, <2>5, <2>6
<1> QED
  BY <1>2, <1>3 DEF Reconnected

LEMMA AuthDoneState ==
    ASSUME LocalTypes, NEW t \in Threads, CallState(t), AuthDone(t)
    PROVE  /\ LocalTypes' /\ Others(t) /\ CallState(t)'
           /\ fr'[t].proxy_alive = fr[t].proxy_alive
           /\ fr'[t].creds = fr[t].creds /\ fr'[t].proof = fr[t].proof
<1>1. UNCHANGED client /\ wire' = wire /\ pc[t] = "authdone"
  BY DEF AuthDone
<1>2. CASE fr[t].code = "407" /\ Goto(t, "send") /\ fr' = fr
  <2>1. /\ pc' \in [Threads -> Label] /\ pc'[t] = "send"
        /\ \A u \in Threads \ {t} : pc'[u] = pc[u]
    BY <1>2, Moved DEF Label
  <2>2. LocalTypes' /\ Others(t)
    BY <1>1, <1>2, <2>1 DEF client, LocalTypes, Others
  <2>3. CallState(t)'
    BY <1>1, <1>2, <2>1 DEF client, CallState, CopiesInv, HandshakeInv, MustRetry, AnswerInv,
                           ProbeInv, Authenticated, Replied
  <2> QED
    BY <1>2, <2>2, <2>3
<1>3. CASE /\ fr[t].code # "407"
           /\ fr' = [fr EXCEPT ![t].noauth = (fr[t].code = "ok"),
                               ![t].authok = (fr[t].code = "error")]
           /\ Goto(t, "reply")
  <2>1. LET r == [fr[t] EXCEPT !.noauth = (fr[t].code = "ok"),
                               !.authok = (fr[t].code = "error")]
        IN  /\ r \in Locals /\ r.rc = fr[t].rc /\ r.proxy_alive = fr[t].proxy_alive
            /\ r.was_cached = fr[t].was_cached /\ r.code = fr[t].code
            /\ r.creds = fr[t].creds /\ r.proof = fr[t].proof
    BY LocalsHere DEF Locals
  <2>2. /\ fr' \in [Threads -> Locals] /\ fr'[t].rc = fr[t].rc
        /\ fr'[t].was_cached = fr[t].was_cached /\ fr'[t].code = fr[t].code
        /\ fr'[t].proxy_alive = fr[t].proxy_alive
        /\ fr'[t].creds = fr[t].creds /\ fr'[t].proof = fr[t].proof
        /\ \A u \in Threads \ {t} : fr'[u] = fr[u]
    <3>1. fr' = [fr EXCEPT ![t] = [fr[t] EXCEPT !.noauth = (fr[t].code = "ok"),
                                               !.authok = (fr[t].code = "error")]]
      BY <1>3
    <3> QED
      BY <2>1, <3>1, Assigned
  <2>3. /\ pc' \in [Threads -> Label] /\ pc'[t] = "reply"
        /\ \A u \in Threads \ {t} : pc'[u] = pc[u]
    BY <1>3, Moved DEF Label
  <2>4. LocalTypes' /\ Others(t)
    BY <1>1, <2>2, <2>3 DEF client, LocalTypes, Others
  <2>5. ~fr[t].was_cached /\ kind[t] \notin Probed
    BY <1>1, <1>3 DEF CallState, HandshakeInv, ProbeInv, Authenticated
  <2>6. CallState(t)'
    BY <1>1, <2>2, <2>3, <2>5 DEF client, CallState, CopiesInv, HandshakeInv, AnswerInv,
                                 ProbeInv, Authenticated, Replied
  <2> QED
    BY <2>2, <2>4, <2>6
<1> QED
  BY <1>2, <1>3 DEF AuthDone

LEMMA SendState ==
    ASSUME LocalTypes, NEW t \in Threads, CallState(t), Send(t)
    PROVE  LocalTypes' /\ Others(t) /\ CallState(t)'
<1>1. /\ UNCHANGED <<kind, answered, basic, ntlmbasic>> /\ pc[t] = "send"
      /\ unsent' \in [Threads -> BOOLEAN]
  BY DEF Send, LocalTypes
<1>2. CASE SetWire(t, "full") /\ Counted(t, "full") /\ Goto(t, "receive") /\ fr' = fr
  <2>1. /\ pc' \in [Threads -> Label] /\ pc'[t] = "receive"
        /\ \A u \in Threads \ {t} : pc'[u] = pc[u]
    BY <1>2, Moved DEF Label
  <2>2. wire' \in [Fds -> Wire]
    BY <1>2, Wired DEF Wire
  <2>3. copies[t]["full"] = 0
    BY <1>1 DEF CallState, CopiesInv
  <2>4. /\ copies' \in [Threads -> [Copy -> Nat]]
        /\ copies'[t]["full"] = 1 /\ copies'[t]["probe"] = copies[t]["probe"]
        /\ \A u \in Threads \ {t} : copies'[u] = copies[u]
    BY <1>2, <2>3, CountedCopies DEF Copy
  <2>5. LocalTypes' /\ Others(t)
    BY <1>1, <1>2, <2>1, <2>2, <2>4 DEF LocalTypes, Others
  <2> QED
    BY <1>1, <1>2, <2>1, <2>4, <2>5
    DEF CallState, CopiesInv, HandshakeInv, MustRetry, AnswerInv, ProbeInv, Authenticated,
        Replied
<1>3. CASE Drop(t) /\ UNCHANGED <<wire, unsent, copies>>
  BY <1>1, <1>3, Dropped DEF LocalTypes, Others
<1> QED
  BY <1>2, <1>3 DEF Send

LEMMA ReceiveState ==
    ASSUME LocalTypes, NEW t \in Threads, CallState(t), Receive(t)
    PROVE  /\ LocalTypes' /\ Others(t) /\ CallState(t)'
           /\ fr'[t].proxy_alive = fr[t].proxy_alive
<1>1. /\ UNCHANGED <<kind, unsent, answered, basic, ntlmbasic>> /\ pc[t] = "receive"
      /\ copies[t]["full"] = 1
  BY DEF Receive, CallState, CopiesInv
<1>2. CASE Drop(t) /\ UNCHANGED <<wire, copies>>
  BY <1>1, <1>2, Dropped DEF LocalTypes, Others
<1>3. CASE MustRetry(t) /\ Retry(t)
  <2>1. /\ pc' \in [Threads -> Label] /\ pc'[t] = "beginning"
        /\ \A u \in Threads \ {t} : pc'[u] = pc[u]
    BY <1>3, Moved DEF Retry, Label
  <2>2. wire' \in [Fds -> Wire] /\ fr' = fr
    BY <1>3, Wired DEF Retry, Disconnect, Wire
  <2>3. /\ copies' \in [Threads -> [Copy -> Nat]]
        /\ copies'[t]["full"] = 0 /\ copies'[t]["probe"] = copies[t]["probe"]
        /\ \A u \in Threads \ {t} : copies'[u] = copies[u]
    BY <1>1, <1>3, RefusedCopies DEF Retry, Copy
  <2>4. copies[t]["probe"] = 0
    BY <1>1, <1>3 DEF CallState, HandshakeInv
  <2>5. LocalTypes' /\ Others(t)
    BY <1>1, <2>1, <2>2, <2>3 DEF LocalTypes, Others
  <2> QED
    BY <1>1, <2>1, <2>2, <2>3, <2>4, <2>5
    DEF CallState, CopiesInv, HandshakeInv, AnswerInv, ProbeInv, Authenticated, Replied
<1>4. CASE \E c \in {"ok", "error", "407"}, b \in BOOLEAN :
              /\ fr' = [fr EXCEPT ![t].code = c, ![t].last = "full", ![t].body = b,
                          ![t].proof = "none",
                          ![t].authok = @ \/ (~fr[t].noauth /\ c # "407")]
              /\ SetWire(t, IF b THEN "body" ELSE "idle")
              /\ IF c = "407" THEN Refused(t, "full") ELSE UNCHANGED copies
              /\ Goto(t, "reply")
  <2>1. PICK c \in {"ok", "error", "407"}, b \in BOOLEAN :
              /\ fr' = [fr EXCEPT ![t].code = c, ![t].last = "full", ![t].body = b,
                          ![t].proof = "none",
                          ![t].authok = @ \/ (~fr[t].noauth /\ c # "407")]
              /\ SetWire(t, IF b THEN "body" ELSE "idle")
              /\ IF c = "407" THEN Refused(t, "full") ELSE UNCHANGED copies
              /\ Goto(t, "reply")
    BY <1>4
  <2>2. /\ fr' \in [Threads -> Locals] /\ fr'[t].rc = fr[t].rc /\ fr'[t].last = "full"
        /\ fr'[t].was_cached = fr[t].was_cached
        /\ fr[t].authok => fr'[t].authok
        /\ fr'[t].proxy_alive = fr[t].proxy_alive
        /\ \A u \in Threads \ {t} : fr'[u] = fr[u]
    <3>1. fr[t].authok \in BOOLEAN /\ fr[t].noauth \in BOOLEAN
      BY DEF LocalTypes, Locals
    <3>2. PICK a \in BOOLEAN :
              /\ fr[t].authok => a
              /\ fr' = [fr EXCEPT ![t] = [fr[t] EXCEPT !.code = c, !.last = "full", !.body = b,
                                                    !.proof = "none", !.authok = a]]
      BY <2>1, <3>1
    <3>3. LET r == [fr[t] EXCEPT !.code = c, !.last = "full", !.body = b, !.proof = "none",
                                 !.authok = a]
          IN  /\ r \in Locals /\ r.rc = fr[t].rc /\ r.last = "full" /\ r.authok = a
              /\ r.was_cached = fr[t].was_cached /\ r.proxy_alive = fr[t].proxy_alive
      BY LocalsHere DEF Locals, Code
    <3> QED
      BY <3>2, <3>3, Assigned
  <2>3. /\ copies' \in [Threads -> [Copy -> Nat]] /\ copies'[t]["full"] \in {0, 1}
        /\ copies'[t]["probe"] = copies[t]["probe"]
        /\ \A u \in Threads \ {t} : copies'[u] = copies[u]
    <3>1. CASE c = "407"
      BY <1>1, <2>1, <3>1, RefusedCopies DEF Copy
    <3>2. CASE c # "407"
      BY <1>1, <2>1, <3>2 DEF LocalTypes
    <3> QED
      BY <3>1, <3>2
  <2>4. /\ pc' \in [Threads -> Label] /\ pc'[t] = "reply"
        /\ \A u \in Threads \ {t} : pc'[u] = pc[u]
    BY <2>1, Moved DEF Label
  <2>5. wire' \in [Fds -> Wire]
    BY <2>1, Wired DEF Wire
  <2>6. LocalTypes' /\ Others(t)
    BY <1>1, <2>2, <2>3, <2>4, <2>5 DEF LocalTypes, Others
  <2>7. CallState(t)'
    BY <1>1, <2>2, <2>3, <2>4
    DEF CallState, CopiesInv, HandshakeInv, AnswerInv, ProbeInv, Authenticated, Replied
  <2> QED
    BY <2>2, <2>6, <2>7
<1> QED
  BY <1>2, <1>3, <1>4 DEF Receive

LEMMA ReplyState ==
    ASSUME LocalTypes, NEW t \in Threads, CallState(t), Reply(t)
    PROVE  LocalTypes' /\ Others(t) /\ CallState(t)'
<1>1. /\ UNCHANGED <<kind, unsent, copies, basic, ntlmbasic>> /\ pc[t] = "reply"
      /\ answered' \in [Threads -> BOOLEAN]
      /\ \A u \in Threads \ {t} : answered'[u] = answered[u]
  BY DEF Reply, LocalTypes
<1>2. wire' \in [Fds -> Wire]
  <2>1. wire' = wire \/ wire' = [wire EXCEPT ![sd[t]] = "idle"]
    BY DEF Reply, ReplyComplete, ReplyStopped
  <2> QED
    BY <2>1 DEF LocalTypes, Wire
<1>3. CASE ReplyComplete(t) /\ answered' = [answered EXCEPT ![t] = TRUE]
  <2>1. PICK palive \in BOOLEAN, calive \in BOOLEAN :
          fr' = [fr EXCEPT ![t].proxy_alive = palive, ![t].conn_alive = calive,
                           ![t].rc = IF palive THEN "null" ELSE "drop"]
    BY <1>3 DEF ReplyComplete
  <2>2. /\ fr' \in [Threads -> Locals]
        /\ fr'[t].rc = IF palive THEN "null" ELSE "drop"
        /\ fr'[t].proxy_alive = palive
        /\ fr'[t].was_cached = fr[t].was_cached /\ fr'[t].authok = fr[t].authok
        /\ \A u \in Threads \ {t} : fr'[u] = fr[u]
    <3>1. PICK rc \in {"null", "drop"} :
              /\ rc = IF palive THEN "null" ELSE "drop"
              /\ fr' = [fr EXCEPT ![t] = [fr[t] EXCEPT !.proxy_alive = palive,
                                           !.conn_alive = calive, !.rc = rc]]
      BY <2>1 DEF LocalTypes
    <3>2. LET r == [fr[t] EXCEPT !.proxy_alive = palive, !.conn_alive = calive, !.rc = rc]
          IN  /\ r \in Locals /\ r.rc = rc /\ r.proxy_alive = palive
              /\ r.was_cached = fr[t].was_cached /\ r.authok = fr[t].authok
      BY LocalsHere DEF Locals
    <3> QED
      BY <3>1, <3>2, Assigned
  <2>3. /\ pc' \in [Threads -> Label] /\ pc'[t] = "while" /\ answered'[t]
        /\ \A u \in Threads \ {t} : pc'[u] = pc[u]
    BY <1>3, Moved DEF ReplyComplete, LocalTypes, Label
  <2>4. LocalTypes' /\ Others(t)
    BY <1>1, <1>2, <2>2, <2>3 DEF LocalTypes, Others
  <2> QED
    BY <1>1, <2>2, <2>3, <2>4
    DEF CallState, CopiesInv, HandshakeInv, AnswerInv, ProbeInv, Authenticated, Replied
<1>4. CASE Drop(t)
  BY <1>1, <1>2, <1>4, Dropped DEF LocalTypes, Others
<1> QED
  BY <1>3, <1>4 DEF Reply, ReplyStopped

LEMMA WhileState ==
    ASSUME LocalTypes, NEW t \in Threads, CallState(t), While(t)
    PROVE  LocalTypes' /\ Others(t) /\ CallState(t)'
<1>1. UNCHANGED client /\ wire' = wire /\ pc[t] = "while"
  BY DEF While
<1>2. CASE /\ fr' = [fr EXCEPT ![t].proxy_alive = FALSE, ![t].conn_alive = FALSE,
                               ![t].code = "none", ![t].body = FALSE, ![t].last = "none"]
           /\ Goto(t, "next") /\ fr[t].proxy_alive
  <2>1. LET r == [fr[t] EXCEPT !.proxy_alive = FALSE, !.conn_alive = FALSE,
                               !.code = "none", !.body = FALSE, !.last = "none"]
        IN  /\ r \in Locals /\ r.rc = fr[t].rc
            /\ r.was_cached = fr[t].was_cached /\ r.authok = fr[t].authok
    BY LocalsHere DEF Locals, Code
  <2>2. /\ fr' \in [Threads -> Locals] /\ fr'[t].rc = fr[t].rc
        /\ fr'[t].was_cached = fr[t].was_cached /\ fr'[t].authok = fr[t].authok
        /\ \A u \in Threads \ {t} : fr'[u] = fr[u]
    <3>1. fr' = [fr EXCEPT ![t] = [fr[t] EXCEPT !.proxy_alive = FALSE, !.conn_alive = FALSE,
                                    !.code = "none", !.body = FALSE, !.last = "none"]]
      BY <1>2
    <3> QED
      BY <2>1, <3>1, Assigned
  <2>3. /\ pc' \in [Threads -> Label] /\ pc'[t] = "next"
        /\ \A u \in Threads \ {t} : pc'[u] = pc[u]
    BY <1>2, Moved DEF Label
  <2>4. LocalTypes' /\ Others(t)
    BY <1>1, <2>2, <2>3 DEF client, LocalTypes, Others
  <2> QED
    BY <1>1, <1>2, <2>2, <2>3, <2>4
    DEF client, CallState, CopiesInv, HandshakeInv, AnswerInv, ProbeInv, Authenticated, Replied
<1>3. CASE Goto(t, "bailout") /\ fr' = fr
  <2>1. /\ pc' \in [Threads -> Label] /\ pc'[t] = "bailout"
        /\ \A u \in Threads \ {t} : pc'[u] = pc[u]
    BY <1>3, Moved DEF Label
  <2>2. LocalTypes' /\ Others(t)
    BY <1>1, <1>3, <2>1 DEF client, LocalTypes, Others
  <2> QED
    BY <1>1, <1>3, <2>1, <2>2
    DEF client, CallState, CopiesInv, HandshakeInv, AnswerInv, ProbeInv, Authenticated, Replied
<1> QED
  BY <1>2, <1>3 DEF While

LEMMA BailoutState ==
    ASSUME LocalTypes, NEW t \in Threads, CallState(t), Bailout(t)
    PROVE  LocalTypes' /\ Others(t) /\ CallState(t)'
<1>1. UNCHANGED client /\ pc[t] = "bailout"
  BY DEF Bailout
<1>2. /\ fr' \in [Threads -> Locals] /\ fr'[t].rc = "null" /\ ~fr'[t].was_cached
      /\ \A u \in Threads \ {t} : fr'[u] = fr[u]
  BY BeginningType, Assigned DEF Bailout, LeaveCall
<1>3. /\ pc' \in [Threads -> Label]
      /\ pc'[t] = "out" \/ (fr[t].rc = "request" /\ pc'[t] = "beginning")
      /\ \A u \in Threads \ {t} : pc'[u] = pc[u]
  BY Moved DEF Bailout, LeaveCall, Label
<1>4. wire' \in [Fds -> Wire]
  BY Wired DEF Bailout, Disconnect, Wire, LocalTypes
<1>5. LocalTypes' /\ Others(t)
  BY <1>1, <1>2, <1>3, <1>4 DEF client, LocalTypes, Others
<1> QED
  BY <1>1, <1>2, <1>3, <1>5
  DEF client, CallState, CopiesInv, HandshakeInv, AnswerInv, ProbeInv, Authenticated, Replied

LEMMA InitCall == Init => LocalTypes /\ CallInv
<1> SUFFICES ASSUME Init PROVE LocalTypes /\ CallInv
  OBVIOUS
<1>1. LocalTypes
  BY BeginningType, OptionsAssumption DEF Init, LocalTypes, Label, Wire, Copy
<1>2. ASSUME NEW t \in Threads PROVE CallState(t)
  <2>1. /\ pc[t] = "out" /\ fr[t].rc = "null" /\ kind[t] = "plain" /\ ~answered[t]
        /\ ~fr[t].was_cached
    BY BeginningType DEF Init
  <2>2. copies[t]["full"] = 0 /\ copies[t]["probe"] = 0
    BY DEF Init, Copy
  <2> QED
    BY <2>1, <2>2 DEF CallState, CopiesInv, HandshakeInv, AnswerInv, ProbeInv, Probed,
                      Authenticated, Replied
<1> QED
  BY <1>1, <1>2 DEF CallInv, CallState

LEMMA OneOthers ==
    ASSUME LocalTypes, CallInv, NEW t \in Threads, InCall(t) \/ Arrive(t) \/ NextRequest(t)
    PROVE  LocalTypes' /\ Others(t) /\ CallState(t)'
<1>1. CallState(t)
  BY DEF CallInv, CallState
<1>2. CASE \/ Arrive(t) \/ NextRequest(t) \/ PopCached(t) \/ Connect(t) \/ Connecting(t)
           \/ ConnectReturned(t) \/ ParseRequest(t)
  BY <1>1, <1>2, ArriveState, NextRequestState, PopCachedState, ConnectState,
     ConnectingState, ConnectReturnedState, ParseRequestState
<1>3. CASE \/ AuthSend(t) \/ AuthReply(t) \/ AuthEnd(t) \/ Reconnected(t) \/ AuthDone(t)
  BY <1>1, <1>3, AuthSendState, AuthReplyState, AuthEndState, ReconnectedState, AuthDoneState
<1>4. CASE Send(t) \/ Receive(t) \/ Reply(t) \/ While(t) \/ Bailout(t)
  BY <1>1, <1>4, SendState, ReceiveState, ReplyState, WhileState, BailoutState
<1> QED
  BY <1>2, <1>3, <1>4 DEF InCall

LEMMA OneCall ==
    ASSUME LocalTypes, CallInv, NEW t \in Threads, InCall(t) \/ Arrive(t) \/ NextRequest(t)
    PROVE  LocalTypes' /\ CallInv'
<1>1. LocalTypes' /\ Others(t) /\ CallState(t)'
  BY OneOthers
<1>2. ASSUME NEW u \in Threads \ {t} PROVE CallState(u)'
  BY <1>1 DEF CallInv, Others, CallState, CopiesInv, AuthCopy, HandshakeInv, MustRetry,
              AnswerInv, ProbeInv
<1> QED
  BY <1>1, <1>2 DEF CallInv, CallState

LEMMA CallInductive == Spec => [](LocalTypes /\ CallInv)
<1>1. LocalTypes /\ CallInv /\ [Next]_vars => LocalTypes' /\ CallInv'
  <2> SUFFICES ASSUME LocalTypes, CallInv, [Next]_vars PROVE LocalTypes' /\ CallInv'
    OBVIOUS
  <2>1. ASSUME UNCHANGED <<pc, fr, wire, client>> PROVE LocalTypes' /\ CallInv'
    BY <2>1 DEF client, LocalTypes, CallInv, CopiesInv, AuthCopy, HandshakeInv, MustRetry,
                AnswerInv, ProbeInv
  <2>2. CASE \E fd \in Fds : RemoteClose(fd)
    BY <2>1, <2>2 DEF RemoteClose
  <2>3. CASE UNCHANGED vars
    BY <2>1, <2>3 DEF vars
  <2> QED
    BY <2>2, <2>3, OneCall DEF Next
<1> QED
  BY <1>1, InitCall, PTL DEF Spec

(* However handshakes and retries go, no request is in a parent's hands      *)
(* twice as the client sent it: it is sent again only after it was refused.  *)
(* What a handshake sends of it in advance (forward.c:183) may be executed,  *)
(* too, but once at most, and only of a request with a body or of HEAD.      *)
THEOREM RequestsAtMostOnce == Spec => []AtMostOnce
<1>1. LocalTypes /\ CallInv => AtMostOnce
  <2> SUFFICES ASSUME LocalTypes, CallInv, NEW t \in Threads
               PROVE  /\ copies[t]["full"] <= 1
                      /\ copies[t]["probe"] <= (IF kind[t] \in Probed THEN 1 ELSE 0)
    BY DEF AtMostOnce
  <2>1. CopiesInv(t)
    BY DEF CallInv
  <2> QED
    BY <2>1 DEF CopiesInv
<1> QED
  BY <1>1, CallInductive, PTL

(* A client gets one reply to a request, never the reply to a probe, and is  *)
(* kept only if it got one.                                                 *)
THEOREM RequestsAnsweredOnce == Spec => []OneReplyPerRequest
<1>1. CallInv => OneReplyPerRequest
  BY DEF CallInv, AnswerInv, ProbeInv, Replied, OneReplyPerRequest, ProbeNeverAnswersClient,
         NoSecondReply, KeptClientIsAnswered
<1> QED
  BY <1>1, CallInductive, PTL

(* The owner of a connection *)
OwnerType == owner \in [Fds -> Owner]

LEMMA FreedOwner == ASSUME OwnerType, Freed PROVE OwnerType'
BY DEF OwnerType, Owner, Freed

LEMMA DisconnectedOwner ==
    ASSUME OwnerType, NEW t \in Threads, Disconnect(t) PROVE OwnerType'
BY DEF OwnerType, Owner, Disconnect

LEMMA AuthenticatedOwner ==
    ASSUME OwnerType, NEW t \in Threads, NEW c, Authenticates(t, c) PROVE OwnerType'
BY DEF OwnerType, Owner, Authenticates

LEMMA OwnerInductive == Spec => []OwnerType
<1>1. Init => OwnerType
  BY DEF Init, OwnerType, Owner
<1>2. OwnerType /\ [Next]_vars => OwnerType'
  <2> SUFFICES ASSUME OwnerType, [Next]_vars PROVE OwnerType'
    OBVIOUS
  <2>1. ASSUME UNCHANGED owner PROVE OwnerType'
    BY <2>1 DEF OwnerType
  <2>2. ASSUME NEW t \in Threads, Arrive(t) PROVE OwnerType'
    BY <2>2 DEF Arrive, OwnerType, Owner
  <2>3. ASSUME NEW t \in Threads, PopCached(t) \/ Connecting(t) PROVE OwnerType'
    BY <2>3, FreedOwner DEF PopCached, Connecting
  <2>4. ASSUME NEW t \in Threads, AuthEnd(t) \/ Bailout(t) \/ Receive(t) PROVE OwnerType'
    BY <2>1, <2>4, DisconnectedOwner, AuthenticatedOwner DEF AuthEnd, Bailout, Receive, Retry
  <2>5. ASSUME NEW t \in Threads,
               \/ NextRequest(t) \/ Connect(t) \/ ConnectReturned(t) \/ ParseRequest(t)
               \/ AuthSend(t) \/ AuthReply(t) \/ Reconnected(t) \/ AuthDone(t) \/ Send(t)
               \/ Reply(t) \/ While(t)
        PROVE  OwnerType'
    BY <2>1, <2>5 DEF NextRequest, Connect, ConnectReturned, ParseRequest, AuthSend,
                      AuthReply, Reconnected, AuthDone, Send, Reply, While
  <2>6. ASSUME NEW fd \in Fds, RemoteClose(fd) PROVE OwnerType'
    BY <2>1, <2>6 DEF RemoteClose
  <2>7. CASE UNCHANGED vars
    BY <2>1, <2>7 DEF vars
  <2> QED
    BY <2>2, <2>3, <2>4, <2>5, <2>6, <2>7 DEF Next, InCall
<1> QED
  BY <1>1, <1>2, PTL DEF Spec

(* Every variable has its type.                                             *)
THEOREM CallTypesCorrect == Spec => []TypeOK
<1>1. PC!TypeOK /\ LocalTypes /\ OwnerType => TypeOK
  BY DEF LocalTypes, OwnerType, TypeOK
<1> QED
  BY <1>1, Pool, CallInductive, OwnerInductive, PTL

-----------------------------------------------------------------------------
(* What is worth keeping has nothing outstanding, and nothing comes to a     *)
(* connection that is cached, or that a thread will keep, any more.         *)
Clean(fd) == fd \in Fds => wire[fd] = "idle"

KeptClean(t) ==
    fr[t].proxy_alive => pc[t] \in {"while", "bailout"} /\ Clean(sd[t])

WireInv ==
    heap # "undefined" =>
        CachedIdle /\ \A t \in Threads : KeptClean(t) /\ (pc[t] = "next" => Clean(sd[t]))

(* Of a step of one thread: the wires it changes are its own, or it clears    *)
(* them; its pool step takes nothing from others and caches nothing new.    *)
WireFrame(t) == \A fd \in Fds : wire'[fd] \in {wire[fd], "idle"} \/ fd = sd[t]

PoolFrame(t) ==
    /\ \A u \in Threads \ {t} : sd'[u] = sd[u]
    /\ heap' # "undefined" => heap # "undefined"
    /\ heap' = "ok" =>
          /\ heap = "ok"
          /\ \A i \in DOMAIN connection_list' :
                \/ connection_list'[i] = sd[t] /\ wire'[sd[t]] = "idle"
                \/ \E j \in DOMAIN connection_list : connection_list'[i] = connection_list[j]

LEMMA PoolFrames ==
    ASSUME PC!TypeOK, NEW t \in Threads,
           PC!Pop(t) \/ PC!Close(t) \/ PC!Call(t) \/ UNCHANGED pcvars
    PROVE  PoolFrame(t)
<1>1. CASE PC!Pop(t)
  <2>1. PICK k \in 1..Len(connection_list) + 1 : PC!PopTo(t, k)
    BY <1>1 DEF PC!Pop
  <2>2. \A i \in DOMAIN connection_list' :
            \E j \in DOMAIN connection_list : connection_list'[i] = connection_list[j]
    <3>1. connection_list \in Seq(Fds)
      BY DEF PC!TypeOK
    <3>2. connection_list' = SubSeq(connection_list, k + 1, Len(connection_list))
      BY <2>1 DEF PC!PopTo
    <3>3. \A i \in DOMAIN connection_list' :
              i + k \in DOMAIN connection_list /\ connection_list'[i] = connection_list[i + k]
      BY <3>1, <3>2
    <3> QED
      BY <3>3
  <2>3. \A u \in Threads \ {t} : sd'[u] = sd[u]
    BY <2>1 DEF PC!PopTo, PC!TypeOK
  <2> QED
    BY <1>1, <2>2, <2>3 DEF PC!Pop, PC!TouchNodes, PoolFrame
<1>2. CASE PC!Close(t)
  BY <1>2 DEF PC!Close, PC!pool, PC!TypeOK, PoolFrame
<1>3. CASE PC!Call(t)
  <2>1. \A u \in Threads \ {t} : sd'[u] = sd[u]
    BY <1>3 DEF PC!Call, PC!Enter, PC!SelectFirst, PC!Pick, PC!Attempt, PC!Unresolved,
                PC!Refused, PC!Connected, PC!Advance, PC!CheckMoved, PC!Invalidate, PC!TypeOK
  <2>2. connection_list' = connection_list
    BY <1>3 DEF PC!Call, PC!Enter, PC!SelectFirst, PC!Pick, PC!Attempt,
                PC!Advance, PC!CheckMoved, PC!Invalidate, PC!pool
  <2>3. /\ heap' # "undefined" => heap # "undefined"
        /\ heap' = "ok" => heap = "ok"
    <3>1. heap' = heap \/ PC!Invalidate(t)
      BY <1>3 DEF PC!Call, PC!Enter, PC!SelectFirst, PC!Pick, PC!Attempt,
                  PC!Advance, PC!CheckMoved, PC!pool
    <3>2. PC!Invalidate(t) =>
              heap' \in {heap, "undefined"} \/ (heap = "ok" /\ heap' = "freed")
      BY DEF PC!Invalidate
    <3> QED
      BY <3>1, <3>2
  <2> QED
    BY <2>1, <2>2, <2>3 DEF PoolFrame
<1>4. CASE UNCHANGED pcvars
  BY <1>4 DEF pcvars, PoolFrame
<1> QED
  BY <1>1, <1>2, <1>3, <1>4

(* The other threads, and the cache *)
LEMMA OthersClean ==
    ASSUME PC!TypeOK, PC!ExclusiveSockets, LocalTypes, WireInv, heap # "undefined",
           NEW t \in Threads, PoolFrame(t), Others(t), WireFrame(t)
    PROVE  /\ CachedIdle'
           /\ \A u \in Threads \ {t} : (KeptClean(u) /\ (pc[u] = "next" => Clean(sd[u])))'
<1>1. CachedIdle'
  <2> SUFFICES ASSUME heap' = "ok", NEW i \in DOMAIN connection_list'
               PROVE  wire'[connection_list'[i]] = "idle"
    BY DEF CachedIdle
  <2> SUFFICES ASSUME NEW j \in DOMAIN connection_list,
                      connection_list'[i] = connection_list[j]
               PROVE  wire'[connection_list'[i]] = "idle"
    BY DEF PoolFrame
  <2>2. heap = "ok" /\ connection_list[j] \in Fds /\ wire[connection_list[j]] = "idle"
    BY DEF PoolFrame, WireInv, CachedIdle, PC!TypeOK
  <2>3. connection_list[j] # sd[t]
    BY <2>2 DEF PC!ExclusiveSockets, PC!Cached
  <2> QED
    BY <2>2, <2>3 DEF WireFrame
<1>2. ASSUME NEW u \in Threads \ {t}
      PROVE  (KeptClean(u) /\ (pc[u] = "next" => Clean(sd[u])))'
  <2>1. fr'[u] = fr[u] /\ pc'[u] = pc[u] /\ sd'[u] = sd[u]
    BY DEF Others, PoolFrame
  <2>2. Clean(sd[u]) => (Clean(sd[u]))'
    <3>1. sd[u] \in Fds => sd[u] # sd[t]
      BY DEF PC!ExclusiveSockets
    <3> QED
      BY <2>1, <3>1 DEF Clean, WireFrame
  <2>3. KeptClean(u) /\ (pc[u] = "next" => Clean(sd[u]))
    BY DEF WireInv
  <2> QED
    BY <2>1, <2>2, <2>3 DEF KeptClean
<1> QED
  BY <1>1, <1>2

(* A thread that does not find its connection worth keeping *)
LEMMA QuietClean ==
    ASSUME PC!TypeOK, PC!ExclusiveSockets, LocalTypes, WireInv, NEW t \in Threads,
           PoolFrame(t), Others(t), WireFrame(t),
           heap # "undefined" => fr'[t].proxy_alive = FALSE /\ pc'[t] # "next"
    PROVE  WireInv'
<1> SUFFICES ASSUME heap' # "undefined", heap # "undefined" PROVE WireInv'
  BY DEF WireInv, PoolFrame
<1> QED
  BY OthersClean DEF WireInv, KeptClean

(* The steps of a thread that has not found its connection worth keeping *)
QuietStep(t) ==
    \/ Arrive(t) \/ PopCached(t) \/ Connect(t) \/ Connecting(t) \/ ConnectReturned(t)
    \/ ParseRequest(t) \/ AuthSend(t) \/ AuthReply(t) \/ AuthEnd(t) \/ Reconnected(t)
    \/ AuthDone(t) \/ Send(t) \/ Receive(t)

LEMMA DropLocals ==
    ASSUME LocalTypes, NEW t \in Threads, Drop(t)
    PROVE  /\ fr'[t].proxy_alive = fr[t].proxy_alive /\ fr'[t].creds = fr[t].creds
           /\ fr'[t].proof = fr[t].proof /\ pc'[t] = "bailout"
<1>1. fr'[t] = [fr[t] EXCEPT !.rc = "drop"] /\ pc'[t] = "bailout"
  BY DEF Drop, Goto, LocalTypes
<1> QED
  BY <1>1, LocalsHere DEF Locals

(* Whose credentials a thread has in hand comes from its request, from the   *)
(* challenge they answer or from a connection they are lost with.           *)
KeepsLocals(t) ==
    /\ fr'[t].proxy_alive = fr[t].proxy_alive \/ fr'[t].proxy_alive = FALSE
    /\ \/ fr'[t].proof = fr[t].proof \/ fr'[t].proof = "none"
       \/ pc[t] = "authreply" /\ fr'[t].proof = fr[t].creds
    /\ pc'[t] \in {"auth", "authreply"} =>
          \/ pc[t] = "auth" /\ fr'[t].creds = fr[t].creds
          \/ fr'[t].creds = "client"
          \/ ~ntlmbasic

LEMMA ParsedLocals ==
    ASSUME LocalTypes, NEW t \in Threads, ParseRequest(t) PROVE KeepsLocals(t)
<1>1. CASE Drop(t)
  BY <1>1, DropLocals DEF KeepsLocals
<1>2. CASE /\ basic[t] \/ ~ntlmbasic
           /\ fr' = [fr EXCEPT ![t].creds = IF basic[t] THEN "client" ELSE @,
                               ![t].proof = "none"]
  <2>1. PICK c \in {"other", "client"} :
            /\ c = "client" \/ ~ntlmbasic
            /\ fr' = [fr EXCEPT ![t] = [fr[t] EXCEPT !.creds = c, !.proof = "none"]]
    BY <1>2 DEF LocalTypes, Locals
  <2>2. LET r == [fr[t] EXCEPT !.creds = c, !.proof = "none"]
        IN  r.proxy_alive = fr[t].proxy_alive /\ r.creds = c /\ r.proof = "none"
    BY LocalsHere DEF Locals
  <2>3. fr'[t] = [fr[t] EXCEPT !.creds = c, !.proof = "none"]
    BY <2>1 DEF LocalTypes
  <2> QED
    BY <2>1, <2>2, <2>3 DEF KeepsLocals
<1> QED
  BY <1>1, <1>2 DEF ParseRequest

LEMMA ReceivedLocals ==
    ASSUME LocalTypes, NEW t \in Threads, Receive(t) PROVE KeepsLocals(t)
<1>1. CASE Drop(t)
  BY <1>1, DropLocals DEF KeepsLocals
<1>2. CASE Retry(t)
  BY <1>2 DEF Retry, Goto, KeepsLocals, LocalTypes
<1>3. CASE /\ Goto(t, "reply")
           /\ \E c \in {"ok", "error", "407"}, b \in BOOLEAN :
                 fr' = [fr EXCEPT ![t].code = c, ![t].last = "full", ![t].body = b,
                          ![t].proof = "none",
                          ![t].authok = @ \/ (~fr[t].noauth /\ c # "407")]
  <2>1. PICK c \in {"ok", "error", "407"}, b \in BOOLEAN :
            fr' = [fr EXCEPT ![t].code = c, ![t].last = "full", ![t].body = b,
                             ![t].proof = "none",
                             ![t].authok = @ \/ (~fr[t].noauth /\ c # "407")]
    BY <1>3
  <2>2. PICK a : fr'[t] = [fr[t] EXCEPT !.code = c, !.last = "full", !.body = b,
                                        !.proof = "none", !.authok = a]
    BY <2>1 DEF LocalTypes
  <2>3. LET r == [fr[t] EXCEPT !.code = c, !.last = "full", !.body = b, !.proof = "none",
                               !.authok = a]
        IN  r.proxy_alive = fr[t].proxy_alive /\ r.proof = "none"
    BY LocalsHere DEF Locals
  <2>4. pc'[t] = "reply"
    BY <1>3 DEF Goto, LocalTypes
  <2> QED
    BY <2>2, <2>3, <2>4 DEF KeepsLocals
<1> QED
  BY <1>1, <1>2, <1>3 DEF Receive

LEMMA QuietLocals ==
    ASSUME LocalTypes, CallInv, NEW t \in Threads, QuietStep(t)
    PROVE  KeepsLocals(t)
<1>1. CallState(t)
  BY DEF CallInv, CallState
<1>2. CASE PopCached(t)
  <2>1. fr'[t].proxy_alive = FALSE /\ fr'[t].proof = "none"
    <3>1. fr'[t] = Beginning \/ fr'[t] = [Beginning EXCEPT !.authok = TRUE, !.was_cached = TRUE]
      BY <1>2 DEF PopCached, LocalTypes
    <3>2. LET r == [Beginning EXCEPT !.authok = TRUE, !.was_cached = TRUE]
          IN  /\ Beginning.proxy_alive = FALSE /\ Beginning.proof = "none"
              /\ r.proxy_alive = FALSE /\ r.proof = "none"
      BY DEF Beginning
    <3> QED
      BY <3>1, <3>2
  <2>2. pc'[t] \notin {"auth", "authreply"}
    BY <1>2 DEF PopCached, Goto, LocalTypes
  <2> QED
    BY <2>1, <2>2 DEF KeepsLocals
<1>3. CASE Arrive(t) \/ Connect(t) \/ Connecting(t) \/ AuthEnd(t)
  <2>1. fr' = fr /\ pc'[t] \notin {"auth", "authreply"}
    BY <1>3 DEF Arrive, Connect, Connecting, AuthEnd, Goto, LocalTypes
  <2> QED
    BY <2>1 DEF KeepsLocals
<1>4. CASE ConnectReturned(t) \/ Send(t)
  <2>1. Drop(t) \/ (fr' = fr /\ pc'[t] \notin {"auth", "authreply"})
    BY <1>4 DEF ConnectReturned, Send, Goto, LocalTypes
  <2> QED
    BY <2>1, DropLocals DEF KeepsLocals
<1>5. CASE AuthSend(t)
  <2>1. pc[t] = "auth" /\ (Drop(t) \/ fr' = fr)
    BY <1>5 DEF AuthSend
  <2> QED
    BY <2>1, DropLocals DEF KeepsLocals
<1>6. CASE AuthReply(t)
  <2>1. pc[t] = "authreply" /\ (Drop(t) \/ Challenged(t) \/ NotChallenged(t))
    BY <1>6 DEF AuthReply
  <2> QED
    BY <1>1, <1>6, <2>1, DropLocals, ChallengedState, NotChallengedState
    DEF KeepsLocals, Unauthenticated
<1>7. CASE Reconnected(t) \/ AuthDone(t)
  <2>1. pc'[t] \notin {"auth", "authreply"}
    BY <1>7 DEF Reconnected, AuthDone, Drop, Goto, LocalTypes
  <2> QED
    BY <1>1, <1>7, <2>1, ReconnectedState, AuthDoneState DEF KeepsLocals
<1> QED
  BY <1>2, <1>3, <1>4, <1>5, <1>6, <1>7, ParsedLocals, ReceivedLocals DEF QuietStep

LEMMA QuietSteps ==
    ASSUME PC!TypeOK, PC!ExclusiveSockets, LocalTypes, CallInv, WireInv, NEW t \in Threads,
           QuietStep(t)
    PROVE  WireInv' /\ PoolFrame(t)
<1>1. PoolFrame(t)
  <2>1. PC!Pop(t) \/ PC!Close(t) \/ PC!Call(t) \/ UNCHANGED pcvars
    BY OtherSteps DEF QuietStep, PopCached, Connect, Connecting, AuthEnd, Receive, Retry,
                      Disconnect, PC!Call
  <2> QED
    BY <2>1, PoolFrames
<1>2. Others(t)
  BY OneOthers DEF QuietStep, InCall
<1>3. WireFrame(t)
  <2>1. CASE Freed
    BY <2>1 DEF Freed, WireFrame, LocalTypes
  <2>2. CASE wire' = wire \/ \E w \in Wire : SetWire(t, w)
    BY <2>2 DEF SetWire, WireFrame, LocalTypes
  <2>3. Freed \/ wire' = wire \/ \E w \in Wire : SetWire(t, w)
    BY DEF QuietStep, Arrive, PopCached, Connect, Connecting, ConnectReturned, ParseRequest,
           AuthSend, AuthReply, Challenged, NotChallenged, AuthEnd, Disconnect, Reconnected,
           AuthDone, Send, Receive, Retry, Wire
  <2> QED
    BY <2>1, <2>2, <2>3
<1>4. pc[t] \notin {"while", "next", "bailout"} /\ pc'[t] # "next"
  <2>1. CASE \/ Arrive(t) \/ PopCached(t) \/ Connect(t) \/ Connecting(t)
             \/ ConnectReturned(t) \/ ParseRequest(t)
    BY <2>1 DEF Arrive, PopCached, Connect, Connecting, ConnectReturned, ParseRequest,
                Drop, Goto, LocalTypes
  <2>2. CASE \/ AuthSend(t) \/ AuthReply(t) \/ AuthEnd(t) \/ Reconnected(t) \/ AuthDone(t)
    BY <2>2 DEF AuthSend, AuthReply, Challenged, NotChallenged, AuthEnd, Reconnected,
                AuthDone, Drop, Goto, LocalTypes
  <2>3. CASE Send(t) \/ Receive(t)
    BY <2>3 DEF Send, Receive, Retry, Drop, Goto, LocalTypes
  <2> QED
    BY <2>1, <2>2, <2>3 DEF QuietStep
<1>5. fr'[t].proxy_alive = fr[t].proxy_alive \/ fr'[t].proxy_alive = FALSE
  BY QuietLocals DEF KeepsLocals
<1>6. heap # "undefined" => fr[t].proxy_alive = FALSE
  BY <1>4 DEF WireInv, KeptClean, LocalTypes, Locals
<1> QED
  BY <1>1, <1>2, <1>3, <1>4, <1>5, <1>6, QuietClean

LEMMA ReplyClean ==
    ASSUME PC!TypeOK, PC!ExclusiveSockets, LocalTypes, CallInv, WireInv, NEW t \in Threads,
           Reply(t)
    PROVE  WireInv'
<1>1. Others(t)
  BY ReplyState DEF CallInv, CallState
<1>2. PoolFrame(t)
  BY OtherSteps, PoolFrames
<1>3. WireFrame(t)
  BY DEF Reply, ReplyComplete, ReplyStopped, WireFrame, LocalTypes
<1>4. CASE Drop(t)
  <2>1. fr'[t].proxy_alive = fr[t].proxy_alive /\ pc'[t] # "next"
    BY <1>4 DEF Drop, Goto, LocalTypes, Locals
  <2>2. heap # "undefined" => fr[t].proxy_alive = FALSE
    BY DEF Reply, WireInv, KeptClean, LocalTypes, Locals
  <2> QED
    BY <1>1, <1>2, <1>3, <2>1, <2>2, QuietClean
<1>5. CASE ReplyComplete(t)
  <2>1. pc'[t] = "while" /\ (sd[t] \in Fds => wire'[sd[t]] = "idle") /\ sd' = sd
    BY <1>5, OtherSteps DEF ReplyComplete, Goto, LocalTypes, pcvars
  <2> SUFFICES ASSUME heap' # "undefined", heap # "undefined" PROVE WireInv'
    BY <1>2 DEF WireInv, PoolFrame
  <2> QED
    BY <1>1, <1>2, <1>3, <2>1, OthersClean DEF WireInv, KeptClean, Clean
<1> QED
  BY <1>4, <1>5 DEF Reply, ReplyStopped

LEMMA RoundClean ==
    ASSUME PC!TypeOK, PC!ExclusiveSockets, LocalTypes, CallInv, WireInv, NEW t \in Threads,
           While(t) \/ NextRequest(t)
    PROVE  WireInv'
<1>1. Others(t)
  BY WhileState, NextRequestState DEF CallInv, CallState
<1>2. PoolFrame(t)
  BY OtherSteps, PoolFrames
<1>3. wire' = wire /\ sd' = sd
  BY OtherSteps DEF While, NextRequest, pcvars
<1>4. /\ pc'[t] \in {"next", "bailout", "request"}
      /\ pc'[t] = "next" => fr[t].proxy_alive /\ fr'[t].proxy_alive = FALSE
      /\ pc'[t] = "request" => fr'[t] = fr[t] /\ pc[t] = "next"
      /\ pc'[t] = "bailout" => fr'[t].proxy_alive = fr[t].proxy_alive \/ pc[t] = "next"
  <2>1. CASE While(t)
    BY <2>1 DEF While, Goto, LocalTypes, Locals
  <2>2. CASE NextRequest(t)
    BY <2>2 DEF NextRequest, Drop, Goto, LocalTypes
  <2> QED
    BY <2>1, <2>2
<1> SUFFICES ASSUME heap' # "undefined", heap # "undefined" PROVE WireInv'
  BY <1>2 DEF WireInv, PoolFrame
<1>5. KeptClean(t) /\ (pc[t] = "next" => Clean(sd[t]))
  BY DEF WireInv
<1>6. (Clean(sd[t]))' <=> Clean(sd[t])
  BY <1>3 DEF Clean
<1>7. (KeptClean(t) /\ (pc[t] = "next" => Clean(sd[t])))'
  BY <1>4, <1>5, <1>6 DEF KeptClean
<1>8. WireFrame(t)
  BY <1>3 DEF WireFrame
<1> QED
  BY <1>1, <1>2, <1>7, <1>8, OthersClean DEF WireInv

LEMMA BailoutClean ==
    ASSUME PC!TypeOK, PC!ExclusiveSockets, LocalTypes, CallInv, WireInv, NEW t \in Threads,
           Bailout(t)
    PROVE  WireInv'
<1>1. Others(t)
  BY BailoutState DEF CallInv, CallState
<1>2. WireFrame(t)
  BY DEF Bailout, Disconnect, SetWire, WireFrame, LocalTypes
<1>3. fr'[t].proxy_alive = FALSE /\ pc'[t] # "next"
  BY DEF Bailout, LeaveCall, Beginning, Goto, LocalTypes
<1>4. PoolFrame(t)
  <2>1. CASE PC!Close(t) \/ UNCHANGED pcvars
    BY <2>1, PoolFrames
  <2>2. CASE WorthKeeping(t) /\ PC!Store(t) /\ UNCHANGED wire
    <3>1. \A u \in Threads \ {t} : sd'[u] = sd[u]
      BY <2>2 DEF PC!Store, PC!TypeOK
    <3>2. /\ heap' # "undefined" => heap # "undefined"
          /\ heap' = "ok" => heap = "ok"
      BY <2>2 DEF PC!Store, PC!TouchNodes
    <3>3. heap = "ok" => wire'[sd[t]] = "idle"
      BY <2>2 DEF WorthKeeping, IsOpen, WireInv, KeptClean, Clean
    <3>4. \A i \in DOMAIN connection_list' :
              \/ connection_list'[i] = sd[t]
              \/ i \in DOMAIN connection_list /\ connection_list'[i] = connection_list[i]
      <4>1. connection_list \in Seq(Fds) /\ connection_list' = Append(connection_list, sd[t])
        BY <2>2 DEF PC!Store, PC!TypeOK
      <4> QED
        BY <4>1
    <3> QED
      BY <3>1, <3>2, <3>3, <3>4 DEF PoolFrame
  <2> QED
    BY <2>1, <2>2 DEF Bailout, Disconnect
<1> QED
  BY <1>1, <1>2, <1>3, <1>4, QuietClean

(* Whoever takes a connection from the cache reads its own reply: nothing is *)
(* outstanding on it.                                                       *)
THEOREM CacheIsIdle == Spec => []CachedIdle
<1>1. Init => WireInv
  <2> SUFFICES ASSUME Init PROVE WireInv
    OBVIOUS
  <2>1. \A fd : Clean(fd)
    BY DEF Init, Clean
  <2>2. \A t \in Threads : fr[t].proxy_alive = FALSE
    BY DEF Init, Beginning
  <2>3. connection_list = << >>
    BY DEF Init, PC!Init
  <2> QED
    BY <2>1, <2>2, <2>3 DEF WireInv, KeptClean, CachedIdle
<1>2. /\ PC!TypeOK /\ PC!ExclusiveSockets /\ LocalTypes /\ CallInv /\ WireInv
      /\ [Next]_vars
      => WireInv'
  <2> SUFFICES ASSUME PC!TypeOK, PC!ExclusiveSockets, LocalTypes, CallInv, WireInv, [Next]_vars
               PROVE  WireInv'
    OBVIOUS
  <2>1. ASSUME NEW t \in Threads, InCall(t) \/ Arrive(t) \/ NextRequest(t) PROVE WireInv'
    BY <2>1, QuietSteps, ReplyClean, RoundClean, BailoutClean DEF InCall, QuietStep
  <2>2. ASSUME UNCHANGED <<pc, fr, wire, sd, connection_list, heap>> PROVE WireInv'
    BY <2>2 DEF WireInv, KeptClean, Clean, CachedIdle
  <2>3. CASE \E fd \in Fds : RemoteClose(fd)
    BY <2>2, <2>3 DEF RemoteClose, PC!RemoteClose, PC!pool
  <2>4. CASE UNCHANGED vars
    BY <2>2, <2>4 DEF vars, pcvars
  <2> QED
    BY <2>1, <2>3, <2>4 DEF Next
<1>3. WireInv => CachedIdle
  BY DEF WireInv, CachedIdle
<1> QED
  BY <1>1, <1>2, <1>3, Pool, CallInductive, PTL DEF Spec

-----------------------------------------------------------------------------
(* With NTLM-to-basic nothing is ever cached, a new connection is nobody's,  *)
(* and the handshake that makes one somebody's is done with the credentials *)
(* of the client whose request it is done for, even if the connection is     *)
(* then replaced and cntlm's account is stored with the new one.            *)
Positioned(t) ==
    /\ pc[t] \notin {"connecting", "reconnecting"} => at[t] \in {"idle", "holding"}
    /\ pc[t] = "out" => at[t] = "idle"

ClientsOwn(t) ==
    /\ sd[t] \in Fds => owner[sd[t]] \in {"none", t}
    /\ pc[t] \in {"auth", "authreply"} => fr[t].creds = "client"
    /\ fr[t].proof \in {"none", "client"}

CredentialsInv ==
    ntlmbasic =>
        /\ heap = "ok" /\ connection_list = << >>
        /\ \A fd \in Fds : sock[fd] = "free" => owner[fd] = "none"
        /\ \A t \in Threads : ClientsOwn(t)

LEMMA PositionedStep ==
    ASSUME PC!TypeOK, LocalTypes, NEW t \in Threads, Positioned(t),
           InCall(t) \/ Arrive(t) \/ NextRequest(t)
    PROVE  Positioned(t)'
<1> USE DEF PC!TypeOK, LocalTypes, Goto, Positioned
<1>1. CASE PopCached(t)
  BY <1>1 DEF PopCached, PC!Pop, PC!PopTo, PC!Goto
<1>2. CASE Connect(t) \/ Connecting(t)
  BY <1>2 DEF Connect, Connecting
<1>3. CASE AuthEnd(t) \/ Receive(t)
  BY <1>3 DEF AuthEnd, Receive, Retry, Disconnect, PC!Close, PC!Goto, Drop, pcvars
<1>4. CASE Bailout(t)
  BY <1>4 DEF Bailout, LeaveCall, Disconnect, PC!Close, PC!Store, PC!Goto, pcvars
<1>5. CASE Arrive(t) \/ NextRequest(t)
  BY <1>5 DEF Arrive, NextRequest, Drop, pcvars
<1>6. CASE ConnectReturned(t) \/ ParseRequest(t) \/ AuthSend(t) \/ AuthReply(t)
  BY <1>6 DEF ConnectReturned, ParseRequest, AuthSend, AuthReply, Challenged, NotChallenged,
              Drop, pcvars
<1>7. CASE Reconnected(t) \/ AuthDone(t) \/ Send(t) \/ Reply(t) \/ While(t)
  BY <1>7 DEF Reconnected, AuthDone, Send, Reply, ReplyComplete, ReplyStopped, While, Drop,
              pcvars
<1> QED
  BY <1>1, <1>2, <1>3, <1>4, <1>5, <1>6, <1>7 DEF InCall

(* What a step does with the owners of connections *)
LEMMA OthersPosition ==
    ASSUME PC!TypeOK, NEW t \in Threads, InCall(t) \/ Arrive(t) \/ NextRequest(t)
    PROVE  \A u \in Threads \ {t} : at'[u] = at[u] /\ sd'[u] = sd[u]
<1>1. CASE PC!Pop(t) \/ PC!Close(t) \/ PC!Store(t)
  BY <1>1 DEF PC!Pop, PC!PopTo, PC!Close, PC!Store, PC!Goto, PC!TypeOK
<1>2. CASE PC!Call(t)
  BY <1>2 DEF PC!Call, PC!Enter, PC!SelectFirst, PC!Pick, PC!Attempt, PC!Unresolved,
              PC!Refused, PC!Connected, PC!Advance, PC!CheckMoved, PC!Invalidate, PC!Return,
              PC!Goto, PC!TypeOK
<1>3. CASE UNCHANGED pcvars
  BY <1>3 DEF pcvars
<1>4. PC!Pop(t) \/ PC!Close(t) \/ PC!Store(t) \/ PC!Call(t) \/ UNCHANGED pcvars
  BY OtherSteps DEF InCall, PopCached, Connect, Connecting, AuthEnd, Receive, Retry, Bailout,
                    Disconnect, PC!Call
<1> QED
  BY <1>1, <1>2, <1>3, <1>4

PositionInv == \A t \in Threads : Positioned(t)

LEMMA PositionInductive == Spec => []PositionInv
<1>1. Init => PositionInv
  BY DEF Init, PC!Init, PositionInv, Positioned
<1>2. PC!TypeOK /\ LocalTypes /\ CallInv /\ PositionInv /\ [Next]_vars => PositionInv'
  <2> SUFFICES ASSUME PC!TypeOK, LocalTypes, CallInv, PositionInv, [Next]_vars
               PROVE  PositionInv'
    OBVIOUS
  <2>1. ASSUME NEW t \in Threads, InCall(t) \/ Arrive(t) \/ NextRequest(t)
        PROVE  PositionInv'
    <3>1. Positioned(t)'
      BY <2>1, PositionedStep DEF PositionInv
    <3>2. ASSUME NEW u \in Threads \ {t} PROVE Positioned(u)'
      BY <2>1, OneOthers, OthersPosition DEF Others, PositionInv, Positioned
    <3> QED
      BY <3>1, <3>2 DEF PositionInv
  <2>2. ASSUME UNCHANGED <<pc, at>> PROVE PositionInv'
    BY <2>2 DEF PositionInv, Positioned
  <2>3. CASE \E fd \in Fds : RemoteClose(fd)
    BY <2>2, <2>3 DEF RemoteClose, PC!RemoteClose, PC!locals
  <2>4. CASE UNCHANGED vars
    BY <2>2, <2>4 DEF vars, pcvars
  <2> QED
    BY <2>1, <2>3, <2>4 DEF Next
<1> QED
  BY <1>1, <1>2, Pool, CallInductive, PTL DEF Spec

(* A thread outside proxy_connect() without a connection has no descriptor.  *)
LEMMA Hands == Spec => []PP!CallInv
<1>1. PP!Init => PP!ControlInv
  BY PoolAssumption, PP!InitControl
<1>2. PP!ControlInv /\ [PP!Next]_(PP!vars) => PP!ControlInv'
  BY PoolAssumption, PP!NextControl
<1>3. PP!ControlInv => PP!CallInv
  BY DEF PP!ControlInv
<1> QED
  BY <1>1, <1>2, <1>3, PoolImplemented, PoolNext, PoolInit, PTL DEF ImplementsPool, PC!Spec

(* The cache stays empty, and a descriptor that a thread obtains is a new one *)
LEMMA NothingCached ==
    ASSUME PC!TypeOK, ntlmbasic, heap = "ok", connection_list = << >>, NEW t \in Threads,
           InCall(t) \/ Arrive(t) \/ NextRequest(t)
    PROVE  /\ heap' = "ok" /\ connection_list' = << >>
           /\ sd'[t] \in Fds /\ sd'[t] # sd[t] => sock[sd'[t]] = "free"
<1>1. CASE PC!Pop(t)
  <2>1. PICK k \in 1..Len(connection_list) + 1 : PC!PopTo(t, k)
    BY <1>1 DEF PC!Pop
  <2>2. sd'[t] = NoFd /\ connection_list' = << >>
    BY <2>1 DEF PC!PopTo, PC!TypeOK
  <2>3. heap' = "ok"
    BY <1>1 DEF PC!Pop, PC!TouchNodes
  <2> QED
    BY <2>2, <2>3, PoolAssumption
<1>2. CASE PC!Close(t)
  BY <1>2, PoolAssumption DEF PC!Close, PC!pool, PC!TypeOK
<1>3. CASE PC!Call(t)
  <2>1. heap' = "ok" /\ connection_list' = << >>
    BY <1>3 DEF PC!Call, PC!Enter, PC!SelectFirst, PC!Pick, PC!Attempt, PC!Advance,
                PC!CheckMoved, PC!Invalidate, PC!pool
  <2>2. CASE PC!Enter(t) \/ PC!SelectFirst(t) \/ PC!Pick(t) \/ PC!Advance(t)
    BY <2>1, <2>2, PoolAssumption DEF PC!Enter, PC!SelectFirst, PC!Pick, PC!Advance, PC!TypeOK
  <2>3. CASE PC!CheckMoved(t) \/ PC!Invalidate(t)
    BY <2>1, <2>3 DEF PC!CheckMoved, PC!Invalidate
  <2>4. CASE PC!Attempt(t)
    BY <2>1, <2>4, PoolAssumption
    DEF PC!Attempt, PC!Unresolved, PC!Refused, PC!Connected, PC!TypeOK
  <2> QED
    BY <1>3, <2>1, <2>2, <2>3, <2>4 DEF PC!Call
<1>4. CASE UNCHANGED pcvars
  BY <1>4 DEF pcvars
<1>5. PC!Pop(t) \/ PC!Close(t) \/ PC!Call(t) \/ UNCHANGED pcvars
  BY OtherSteps DEF InCall, PopCached, Connect, Connecting, AuthEnd, Receive, Retry, Bailout,
                    WorthKeeping, Disconnect, PC!Call
<1> QED
  BY <1>1, <1>2, <1>3, <1>4, <1>5

(* The owner of a connection changes to nobody, to the client whose request  *)
(* was authenticated on it, or with the client of a thread without one.     *)
OwnerFrame(t) ==
    \A fd \in Fds :
        \/ owner'[fd] \in {owner[fd], "none"}
        \/ fd = sd[t] /\ owner'[fd] = t /\ sd' = sd
        \/ owner[fd] = t /\ sd[t] \notin Fds

LEMMA OwnersChange ==
    ASSUME PC!TypeOK, PP!CallInv, PositionInv, CredentialsInv, OwnerType, ntlmbasic,
           NEW t \in Threads, InCall(t) \/ Arrive(t) \/ NextRequest(t)
    PROVE  /\ OwnerFrame(t)
           /\ \A fd \in Fds : sock'[fd] = "free" => owner'[fd] = "none"
<1>1. \A fd \in Fds : sock[fd] = "free" => owner[fd] = "none"
  BY DEF CredentialsInv
<1>2. CASE Freed
  BY <1>2 DEF Freed, OwnerFrame
<1>3. CASE Disconnect(t)
  BY <1>1, <1>3 DEF Disconnect, PC!Close, PC!CloseAll, OwnerFrame, OwnerType
<1>4. CASE /\ IsOpen(t) /\ UNCHANGED pcvars
           /\ \E c \in {"ok", "error", "407"} : Authenticates(t, c)
  <2>1. owner' = owner \/ owner' = [owner EXCEPT ![sd[t]] = t]
    BY <1>4 DEF Authenticates, CredentialsInv, ClientsOwn
  <2> QED
    BY <1>1, <1>4, <2>1 DEF OwnerFrame, OwnerType, IsOpen, pcvars
<1>5. CASE Arrive(t)
  <2>1. sd[t] \notin Fds
    BY <1>5 DEF Arrive, PositionInv, Positioned, PP!CallInv
  <2>2. owner' = [fd \in Fds |-> IF owner[fd] = t THEN "other" ELSE owner[fd]]
    BY <1>5 DEF Arrive
  <2>3. t # "none"
    BY ThreadsAssumption
  <2> QED
    BY <1>1, <1>5, <2>1, <2>2, <2>3 DEF Arrive, pcvars, OwnerFrame
<1>6. CASE UNCHANGED <<owner, sock>>
  BY <1>1, <1>6 DEF OwnerFrame
<1>7. \/ Freed \/ Disconnect(t) \/ Arrive(t) \/ UNCHANGED <<owner, sock>>
      \/ /\ IsOpen(t) /\ UNCHANGED pcvars
         /\ \E c \in {"ok", "error", "407"} : Authenticates(t, c)
  <2>1. CASE PopCached(t) \/ Connecting(t) \/ Arrive(t)
    BY <2>1 DEF PopCached, Connecting
  <2>2. CASE Connect(t)
    BY <2>2 DEF Connect, PC!Enter
  <2>3. CASE AuthEnd(t) \/ Bailout(t)
    BY <2>3 DEF AuthEnd, Bailout, WorthKeeping, pcvars
  <2>4. CASE Receive(t)
    BY <2>4 DEF Receive, Retry, pcvars
  <2>5. CASE \/ NextRequest(t) \/ ConnectReturned(t) \/ ParseRequest(t)
             \/ AuthSend(t) \/ AuthReply(t) \/ Reconnected(t) \/ AuthDone(t) \/ Send(t)
             \/ Reply(t) \/ While(t)
    BY <2>5 DEF NextRequest, ConnectReturned, ParseRequest, AuthSend, AuthReply, Reconnected,
                AuthDone, Send, Reply, While, pcvars
  <2> QED
    BY <2>1, <2>2, <2>3, <2>4, <2>5 DEF InCall
<1> QED
  BY <1>2, <1>3, <1>4, <1>5, <1>6, <1>7

(* The rounds of a call leave whose credentials a thread has in hand alone.  *)
LEMMA RoundLocals ==
    ASSUME LocalTypes, NEW t \in Threads,
           NextRequest(t) \/ Reply(t) \/ While(t) \/ Bailout(t)
    PROVE  /\ fr'[t].proof \in {fr[t].proof, "none"}
           /\ pc'[t] \notin {"auth", "authreply"}
<1>1. pc'[t] \notin {"auth", "authreply"}
  BY DEF NextRequest, Reply, ReplyComplete, ReplyStopped, While, Bailout, LeaveCall, Drop,
         Goto, LocalTypes
<1>2. CASE Drop(t)
  BY <1>1, <1>2, DropLocals
<1>3. CASE NextRequest(t) /\ ~Drop(t)
  <2>1. fr'[t] = fr[t] \/ fr'[t] = [fr[t] EXCEPT !.rc = "request", !.proxy_alive = fr[t].authok]
    BY <1>3 DEF NextRequest, LocalTypes
  <2>2. [fr[t] EXCEPT !.rc = "request", !.proxy_alive = fr[t].authok].proof = fr[t].proof
    BY LocalsHere DEF Locals
  <2> QED
    BY <1>1, <2>1, <2>2
<1>4. CASE ReplyComplete(t)
  <2>1. PICK p \in BOOLEAN, c \in BOOLEAN :
            fr' = [fr EXCEPT ![t].proxy_alive = p, ![t].conn_alive = c,
                             ![t].rc = IF p THEN "null" ELSE "drop"]
    BY <1>4 DEF ReplyComplete
  <2>2. fr'[t] = [fr[t] EXCEPT !.proxy_alive = p, !.conn_alive = c,
                               !.rc = IF p THEN "null" ELSE "drop"]
    BY <2>1 DEF LocalTypes
  <2>3. fr'[t].proof = fr[t].proof
    BY <2>2, LocalsHere DEF Locals
  <2> QED
    BY <1>1, <2>3
<1>5. CASE While(t)
  <2>1. \/ fr'[t] = fr[t]
        \/ fr'[t] = [fr[t] EXCEPT !.proxy_alive = FALSE, !.conn_alive = FALSE,
                                  !.code = "none", !.body = FALSE, !.last = "none"]
    BY <1>5 DEF While, LocalTypes
  <2>2. [fr[t] EXCEPT !.proxy_alive = FALSE, !.conn_alive = FALSE, !.code = "none",
                      !.body = FALSE, !.last = "none"].proof = fr[t].proof
    BY LocalsHere DEF Locals
  <2> QED
    BY <1>1, <2>1, <2>2
<1>6. CASE Bailout(t)
  BY <1>1, <1>6, BeginningType DEF Bailout, LeaveCall, LocalTypes
<1> QED
  BY <1>2, <1>3, <1>4, <1>5, <1>6 DEF Reply, ReplyStopped

LEMMA CredentialsStep ==
    ASSUME PC!TypeOK, PC!ExclusiveSockets, PP!CallInv, LocalTypes, CallInv, PositionInv,
           OwnerType, CredentialsInv, NEW t \in Threads,
           InCall(t) \/ Arrive(t) \/ NextRequest(t)
    PROVE  CredentialsInv'
<1> SUFFICES ASSUME ntlmbasic' PROVE CredentialsInv'
  BY DEF CredentialsInv
<1>1. /\ ntlmbasic /\ heap = "ok" /\ connection_list = << >>
      /\ \A fd \in Fds : sock[fd] = "free" => owner[fd] = "none"
      /\ \A u \in Threads : ClientsOwn(u)
  <2>1. ntlmbasic' = ntlmbasic
    BY DEF InCall, PopCached, Connect, Connecting, ConnectReturned, ParseRequest, AuthSend,
           AuthReply, AuthEnd, Reconnected, AuthDone, Send, Receive, Reply, While, Bailout,
           Arrive, NextRequest, NewRequest, client
  <2> QED
    BY <2>1 DEF CredentialsInv
<1>2. /\ heap' = "ok" /\ connection_list' = << >>
      /\ sd'[t] \in Fds /\ sd'[t] # sd[t] => sock[sd'[t]] = "free"
  BY <1>1, NothingCached
<1>3. /\ OwnerFrame(t)
      /\ \A fd \in Fds : sock'[fd] = "free" => owner'[fd] = "none"
  BY <1>1, OwnersChange
<1>4. ASSUME NEW u \in Threads \ {t} PROVE ClientsOwn(u)'
  <2>1. sd'[u] = sd[u] /\ fr'[u] = fr[u] /\ pc'[u] = pc[u]
    BY OthersPosition, OneOthers DEF Others
  <2>2. sd[u] \in Fds => owner'[sd[u]] \in {"none", u}
    <3>1. sd[u] \in Fds => sd[u] # sd[t]
      BY <1>1 DEF PC!ExclusiveSockets
    <3>2. t # "none" /\ (sd[u] \in Fds => owner[sd[u]] \in {"none", u})
      BY <1>1, ThreadsAssumption DEF ClientsOwn
    <3> QED
      BY <1>3, <3>1, <3>2 DEF OwnerFrame
  <2> QED
    BY <1>1, <2>1, <2>2 DEF ClientsOwn
<1>5. sd'[t] \in Fds => owner'[sd'[t]] \in {"none", t}
  <2> SUFFICES ASSUME sd'[t] \in Fds PROVE owner'[sd'[t]] \in {"none", t}
    OBVIOUS
  <2>1. CASE sd'[t] = sd[t]
    BY <1>1, <1>3, <2>1 DEF OwnerFrame, ClientsOwn
  <2>2. CASE sd'[t] # sd[t]
    <3>1. owner[sd'[t]] = "none" /\ t # "none"
      BY <1>1, <1>2, <2>2, ThreadsAssumption
    <3> QED
      BY <1>3, <2>2, <3>1 DEF OwnerFrame
  <2> QED
    BY <2>1, <2>2
<1>6. /\ pc'[t] \in {"auth", "authreply"} => fr'[t].creds = "client"
      /\ fr'[t].proof \in {"none", "client"}
  <2>1. ClientsOwn(t)
    BY <1>1
  <2>2. CASE QuietStep(t)
    BY <1>1, <2>1, <2>2, QuietLocals DEF KeepsLocals, ClientsOwn
  <2>3. CASE NextRequest(t) \/ Reply(t) \/ While(t) \/ Bailout(t)
    BY <2>1, <2>3, RoundLocals DEF ClientsOwn
  <2> QED
    BY <2>2, <2>3 DEF InCall, QuietStep
<1> QED
  BY <1>2, <1>3, <1>4, <1>5, <1>6 DEF CredentialsInv, ClientsOwn

(* With NTLM-to-basic no request travels over a connection that another     *)
(* client's credentials or cntlm's own account authenticated: connections   *)
(* are not shared (forward.c:702), a handshake answers its challenge with   *)
(* the credentials of the request it is for (forward.c:475), and after the   *)
(* handshake's reconnect, which replaces them by cntlm's account, no          *)
(* handshake follows for that request.                                      *)
THEOREM CredentialsKeptApart == Spec => []CredentialsAreOwn
<1>1. Init => CredentialsInv
  BY PoolAssumption DEF Init, PC!Init, Beginning, CredentialsInv, ClientsOwn
<1>2. /\ PC!TypeOK /\ PC!ExclusiveSockets /\ PP!CallInv /\ LocalTypes /\ CallInv
      /\ PositionInv /\ OwnerType /\ CredentialsInv /\ [Next]_vars
      => CredentialsInv'
  <2> SUFFICES ASSUME PC!TypeOK, PC!ExclusiveSockets, PP!CallInv, LocalTypes, CallInv,
                      PositionInv, OwnerType, CredentialsInv, [Next]_vars
               PROVE  CredentialsInv'
    OBVIOUS
  <2>1. CASE \E fd \in Fds : RemoteClose(fd)
    BY <2>1 DEF RemoteClose, PC!RemoteClose, PC!pool, PC!TypeOK, client, CredentialsInv,
                ClientsOwn
  <2>2. CASE UNCHANGED vars
    BY <2>2 DEF vars, pcvars, client, CredentialsInv, ClientsOwn
  <2> QED
    BY <2>1, <2>2, CredentialsStep DEF Next
<1>3. CredentialsInv => CredentialsAreOwn
  BY DEF CredentialsInv, ClientsOwn, CredentialsAreOwn
<1> QED
  BY <1>1, <1>2, <1>3, Pool, Hands, CallInductive, PositionInductive, OwnerInductive, PTL
  DEF Spec

=============================================================================
