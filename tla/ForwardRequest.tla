--------------------------- MODULE ForwardRequest ---------------------------
(***************************************************************************)
(* forward_request() and proxy_authenticate() of cntlm (forward.c): the    *)
(* life of a request from a client through a parent proxy, on a cached or  *)
(* a new connection, with the NTLM handshake, the retry on a late 407 and  *)
(* the decision to keep or to close the connection.  proxy_connect() and   *)
(* the pool come from module ProxyConnect, whose specification this module *)
(* implements.                                                             *)
(*                                                                         *)
(* What a parent or a client sends is free: every reply code, with or      *)
(* without a body, a connection closed at any time.  A reply is a code and *)
(* whether a body follows; a request is its kind and whether it carries    *)
(* credentials of its client.  Of credentials only the owner matters.      *)
(***************************************************************************)
EXTENDS Naturals, Sequences, FiniteSets

CONSTANTS
    Threads, ParentCount, Fds, NoFd, ZeroFd, Working, MaxCached,
    Kinds,      \* kinds of requests the clients send
    OwnCredentials,     \* whether requests carry Basic credentials of their client
    NtlmBasicSettings,  \* the settings of the NTLM-to-basic option that are considered
    Serialize   \* the -s option: one request per connection

ASSUME PoolAssumption ==
    /\ ParentCount \in Nat \ {0}
    /\ Working \subseteq 1..ParentCount
    /\ NoFd \notin Fds /\ ZeroFd \notin Fds /\ NoFd # ZeroFd
    /\ MaxCached \in Nat

ASSUME KindsAssumption == Kinds \subseteq {"plain", "head", "body", "connect"}

ASSUME OptionsAssumption ==
    /\ OwnCredentials \subseteq BOOLEAN
    /\ NtlmBasicSettings \subseteq BOOLEAN
    /\ Serialize \in BOOLEAN

ASSUME ThreadsAssumption == Threads \cap {"none", "other"} = {}

VARIABLES
    parent_curr, resolved, connection_list, heap, sock, peer,
    at, prev, loop, aux, sd,
    pc,        \* where each thread stands in forward_request()
    fr,        \* the locals of forward_request()
    wire,      \* what a parent still owes on each connection
    owner,     \* whose credentials authenticated each connection
    kind,      \* the request a thread works on
    unsent,    \* the client's request body was not read from the client yet
    answered,  \* the client got a reply to this request
    copies,    \* what a parent got of the request and did not refuse
    basic,     \* the request carries Basic credentials of its client
    ntlmbasic  \* NTLM-to-basic, set at the start: credentials come from the client

PC == INSTANCE ProxyConnect

pcvars == <<parent_curr, resolved, connection_list, heap, sock, peer,
            at, prev, loop, aux, sd>>
client == <<kind, unsent, answered, copies, basic, ntlmbasic>>
vars == <<pcvars, pc, fr, wire, owner, client>>

Label == {"out", "beginning", "connect", "connecting", "request",
          "auth", "authreply", "authend", "reconnect", "reconnecting",
          "authdone", "send", "receive", "reply", "while", "next", "bailout"}

Code == {"none", "ok", "error", "407"}  \* ok: below 400; error: above, not 407

(* "auth": the reply to proxy_authenticate()'s request; "full": the reply to *)
(* the request itself; "body": the rest of a reply whose headers were read.  *)
Wire == {"idle", "auth", "full", "body"}

(* A thread: the client it serves; "other": an earlier client, or cntlm's  *)
(* own account.                                                             *)
Owner == {"none", "other"} \cup Threads

(* A copy of the request as it is, or with an empty body, HEAD as a GET.    *)
Copy == {"full", "probe"}

Locals == [was_cached : BOOLEAN, noauth : BOOLEAN, authok : BOOLEAN,
           conn_alive : BOOLEAN, proxy_alive : BOOLEAN,
           code : Code,                      \* data[1]->code
           body : BOOLEAN,                   \* a body follows data[1]
           last : {"none", "auth", "full"},  \* the request data[1] answers
           creds : {"other", "client"},      \* whose tcreds are
           proof : {"none", "other", "client"}, \* whose NTLM message data[0] has
           rc : {"null", "request", "drop"}] \* rc, "drop" for -1

Beginning == [was_cached |-> FALSE, noauth |-> FALSE, authok |-> FALSE,
              conn_alive |-> FALSE, proxy_alive |-> FALSE, code |-> "none",
              body |-> FALSE, last |-> "none", creds |-> "other",
              proof |-> "none", rc |-> "null"]

(* proxy_authenticate() sends only a probe for these requests. *)
Probed == {"head", "body"}

IsOpen(t) == sd[t] \in Fds /\ sock[sd[t]] = "open"

Goto(t, label) == pc' = [pc EXCEPT ![t] = label]

SetWire(t, w) == wire' = [wire EXCEPT ![sd[t]] = w]

(* close(sd) *)
Disconnect(t) ==
    /\ PC!Close(t)
    /\ SetWire(t, "idle")
    /\ owner' = [owner EXCEPT ![sd[t]] = "none"]

(* Nothing is owed on connections that were closed. *)
Freed ==
    /\ wire' = [fd \in Fds |-> IF sock'[fd] = "free" THEN "idle" ELSE wire[fd]]
    /\ owner' = [fd \in Fds |-> IF sock'[fd] = "free" THEN "none" ELSE owner[fd]]

(* rc = -1; goto bailout *)
Drop(t) ==
    /\ fr' = [fr EXCEPT ![t].rc = "drop"]
    /\ Goto(t, "bailout")

Init ==
    /\ PC!Init
    /\ pc = [t \in Threads |-> "out"]
    /\ fr = [t \in Threads |-> Beginning]
    /\ wire = [fd \in Fds |-> "idle"]
    /\ owner = [fd \in Fds |-> "none"]
    /\ kind = [t \in Threads |-> "plain"]
    /\ unsent = [t \in Threads |-> FALSE]
    /\ answered = [t \in Threads |-> FALSE]
    /\ copies = [t \in Threads |-> [c \in Copy |-> 0]]
    /\ basic = [t \in Threads |-> FALSE]
    /\ ntlmbasic \in NtlmBasicSettings

-----------------------------------------------------------------------------
(* The client *)

NewRequest(t) ==
    \E k \in Kinds, b \in OwnCredentials :
        /\ kind' = [kind EXCEPT ![t] = k]
        /\ unsent' = [unsent EXCEPT ![t] = (k = "body")]
        /\ answered' = [answered EXCEPT ![t] = FALSE]
        /\ copies' = [copies EXCEPT ![t] = [c \in Copy |-> 0]]
        /\ basic' = [basic EXCEPT ![t] = b]
        /\ UNCHANGED ntlmbasic

(* proxy_thread() read a request to be forwarded, of a new client. *)
Arrive(t) ==
    /\ pc[t] = "out"
    /\ NewRequest(t)
    /\ owner' = [fd \in Fds |-> IF owner[fd] = t THEN "other" ELSE owner[fd]]
    /\ Goto(t, "beginning")
    /\ UNCHANGED <<pcvars, fr, wire>>

(* The next request on a kept connection: none (the client closed), one for *)
(* another host, which the caller gets back, or one for the same host.      *)
NextRequest(t) ==
    /\ pc[t] = "next"
    /\ \/ /\ Drop(t)
          /\ UNCHANGED client
       \/ /\ NewRequest(t)
          /\ fr' = [fr EXCEPT ![t].rc = "request", ![t].proxy_alive = fr[t].authok]
          /\ Goto(t, "bailout")
       \/ /\ NewRequest(t)
          /\ Goto(t, "request")
          /\ UNCHANGED fr
    /\ UNCHANGED <<pcvars, wire, owner>>

-----------------------------------------------------------------------------
(* Getting a connection *)

(* beginning: the first open cached connection, or none.  The credentials   *)
(* stored with it are not used: it counts as authenticated.                 *)
PopCached(t) ==
    /\ pc[t] = "beginning"
    /\ PC!Pop(t)
    /\ \/ /\ sd'[t] \in Fds
          /\ fr' = [fr EXCEPT ![t] =
                      [Beginning EXCEPT !.authok = TRUE, !.was_cached = TRUE]]
          /\ Goto(t, "request")
       \/ /\ sd'[t] \notin Fds
          /\ fr' = [fr EXCEPT ![t] = Beginning]
          /\ Goto(t, "connect")
    /\ Freed
    /\ UNCHANGED client

Connect(t) ==
    /\ pc[t] \in {"connect", "reconnect"}
    /\ PC!Enter(t)
    /\ Goto(t, IF pc[t] = "connect" THEN "connecting" ELSE "reconnecting")
    /\ UNCHANGED <<fr, wire, owner, client>>

(* The steps of proxy_connect() after its first one. *)
Connecting(t) ==
    /\ pc[t] \in {"connecting", "reconnecting"}
    /\ \/ PC!SelectFirst(t)
       \/ PC!Pick(t)
       \/ PC!Attempt(t)
       \/ PC!Advance(t)
       \/ PC!CheckMoved(t)
       \/ PC!Invalidate(t)
    /\ Freed
    /\ UNCHANGED <<pc, fr, client>>

(* proxy_connect() returned to forward_request(): go on or send a 502. *)
ConnectReturned(t) ==
    /\ pc[t] = "connecting"
    /\ \/ /\ at[t] = "holding"
          /\ Goto(t, "request")
          /\ UNCHANGED <<fr, answered>>
       \/ /\ at[t] = "idle"
          /\ Drop(t)
          /\ answered' = [answered EXCEPT ![t] = TRUE]
    /\ UNCHANGED <<pcvars, wire, owner, kind, unsent, copies, basic, ntlmbasic>>

(* Credentials of the client replace tcreds, whether NTLM-to-basic is on or *)
(* off; with it on, a request without any gets a 407 page.  They are taken  *)
(* out of the request, so that it has none when it is started over.         *)
ParseRequest(t) ==
    /\ pc[t] = "request"
    /\ \/ /\ basic[t] \/ ~ntlmbasic
          /\ fr' = [fr EXCEPT ![t].creds = IF basic[t] THEN "client" ELSE @,
                              ![t].proof = "none"]
          /\ Goto(t, IF fr[t].authok \/ fr[t].noauth THEN "send" ELSE "auth")
          /\ UNCHANGED answered
       \/ /\ ~basic[t] /\ ntlmbasic
          /\ Drop(t)
          /\ answered' = [answered EXCEPT ![t] = TRUE]
    /\ basic' = [basic EXCEPT ![t] = FALSE]
    /\ UNCHANGED <<pcvars, wire, owner, kind, unsent, copies, ntlmbasic>>

-----------------------------------------------------------------------------
(* proxy_authenticate() *)

Counted(t, copy) == copies' = [copies EXCEPT ![t][copy] = @ + 1]
Refused(t, copy) == copies' = [copies EXCEPT ![t][copy] = @ - 1]

(* What the handshake sends of the request: a probe has its method (GET for *)
(* HEAD) and its URL, so that a parent that wants no authentication executes *)
(* it.                                                                      *)
AuthCopy(t) == IF kind[t] \in Probed THEN "probe" ELSE "full"

(* The request with an NTLM negotiate header, without its body. *)
AuthSend(t) ==
    /\ pc[t] = "auth"
    /\ \/ /\ sd[t] \in Fds
          /\ SetWire(t, "auth")
          /\ Counted(t, AuthCopy(t))
          /\ Goto(t, "authreply")
          /\ UNCHANGED fr
       \/ /\ ~IsOpen(t)
          /\ Drop(t)
          /\ UNCHANGED <<wire, copies>>
    /\ UNCHANGED <<pcvars, owner, kind, unsent, answered, basic, ntlmbasic>>

(* Mutant of AuthReply: no pretended 407. *)
AuthReplyOfProbe(t) ==
    /\ pc[t] = "authreply"
    /\ \/ /\ ~IsOpen(t)
          /\ Drop(t)
          /\ UNCHANGED wire
       \/ /\ IsOpen(t)
          /\ \E c \in {"ok", "error", "407"} :
                fr' = [fr EXCEPT ![t].code = c, ![t].last = "auth"]
          /\ SetWire(t, "idle")
          /\ Goto(t, "authend")
    /\ UNCHANGED <<pcvars, owner, client>>

(* The parent refuses: 407 with a challenge, upon which the request gets    *)
(* the final NTLM message, or without a usable one.                         *)
Challenged(t) ==
    /\ \/ /\ \E p \in {"none", fr[t].creds} :
                fr' = [fr EXCEPT ![t].code = "407", ![t].last = "auth", ![t].proof = p]
          /\ Goto(t, "authend")
       \/ /\ fr' = [fr EXCEPT ![t].code = "407", ![t].last = "auth"]
          /\ Goto(t, "authdone")
    /\ SetWire(t, "idle")
    /\ Refused(t, AuthCopy(t))

(* The parent wants no authentication and executes what it got.  The reply  *)
(* to a probe is discarded and made to look like a 407: the request follows *)
(* in full.                                                                 *)
NotChallenged(t) ==
    /\ \/ /\ kind[t] \in Probed
          /\ fr' = [fr EXCEPT ![t].code = "407", ![t].last = "auth"]
          /\ SetWire(t, "idle")
       \/ /\ kind[t] \notin Probed
          /\ \E c \in {"ok", "error"}, b \in BOOLEAN :
                /\ fr' = [fr EXCEPT ![t].code = c, ![t].last = "auth", ![t].body = b]
                /\ SetWire(t, IF b THEN "body" ELSE "idle")
    /\ Goto(t, "authend")
    /\ UNCHANGED copies

AuthReply(t) ==
    /\ pc[t] = "authreply"
    /\ \/ /\ ~IsOpen(t)
          /\ Drop(t)
          /\ UNCHANGED <<wire, copies>>
       \/ /\ IsOpen(t)
          /\ Challenged(t) \/ NotChallenged(t)
    /\ UNCHANGED <<pcvars, owner, kind, unsent, answered, basic, ntlmbasic>>

(* Reconnect for the caller if the parent closed the connection. *)
AuthEnd(t) ==
    /\ pc[t] = "authend"
    /\ \/ /\ IsOpen(t)
          /\ Goto(t, "authdone")
          /\ UNCHANGED <<pcvars, wire, owner>>
       \/ /\ ~IsOpen(t)
          /\ Disconnect(t)
          /\ Goto(t, "reconnect")
    /\ UNCHANGED <<fr, client>>

(* Only a negative descriptor is taken as a failure: 0 is not.  A new       *)
(* connection overwrites tcreds with cntlm's account.                       *)
Reconnected(t) ==
    /\ pc[t] = "reconnecting"
    /\ \/ /\ at[t] = "idle" /\ sd[t] = NoFd
          /\ Drop(t)
       \/ /\ at[t] = "idle" /\ sd[t] = ZeroFd
          /\ Goto(t, "authdone")
          /\ UNCHANGED fr
       \/ /\ at[t] = "holding"
          /\ fr' = [fr EXCEPT ![t].creds = "other"]
          /\ Goto(t, "authdone")
    /\ UNCHANGED <<pcvars, wire, owner, client>>

(* Back in forward_request(): go on with the real request after a 407, else *)
(* take the shortcut and forward the reply.                                 *)
AuthDone(t) ==
    /\ pc[t] = "authdone"
    /\ \/ /\ fr[t].code = "407"
          /\ Goto(t, "send")
          /\ UNCHANGED fr
       \/ /\ fr[t].code # "407"
          /\ fr' = [fr EXCEPT ![t].noauth = (fr[t].code = "ok"),
                              ![t].authok = (fr[t].code = "error")]
          /\ Goto(t, "reply")
    /\ UNCHANGED <<pcvars, wire, owner, client>>

-----------------------------------------------------------------------------
(* The request and its reply *)

(* Headers, then the body read from the client; if that was read before,    *)
(* the thread waits until the client gives up.                              *)
Send(t) ==
    /\ pc[t] = "send"
    /\ \/ /\ sd[t] \in Fds
          /\ kind[t] = "body" => unsent[t]
          /\ SetWire(t, "full")
          /\ Counted(t, "full")
          /\ unsent' = [unsent EXCEPT ![t] = FALSE]
          /\ Goto(t, "receive")
          /\ UNCHANGED fr
       \/ /\ ~IsOpen(t) \/ kind[t] = "body"
          /\ Drop(t)
          /\ UNCHANGED <<wire, unsent, copies>>
    /\ UNCHANGED <<pcvars, owner, kind, answered, basic, ntlmbasic>>

(* Mutant of MustRetry: every 407 starts the request over. *)
MustRetryAlways(t) == TRUE

(* The parent's reply; a late 407 on a connection thought to need no        *)
(* authentication starts the request over on another connection.            *)
MustRetry(t) == fr[t].was_cached \/ fr[t].noauth

Retry(t) ==
    /\ Disconnect(t)
    /\ Refused(t, "full")
    /\ Goto(t, "beginning")
    /\ UNCHANGED fr

(* Mutant of Receive: a cached connection that was closed is retried, too. *)
ReceiveRetriesClosed(t) ==
    /\ pc[t] = "receive"
    /\ ~IsOpen(t)
    /\ Disconnect(t)
    /\ Goto(t, "beginning")
    /\ UNCHANGED <<fr, client>>

(* The reply shows that the connection is authenticated now.  The owner is  *)
(* recorded with NTLM-to-basic only: without it connections are shared.     *)
Authenticates(t, code) ==
    owner' = IF ~ntlmbasic \/ code = "407" \/ fr[t].proof = "none" THEN owner
             ELSE [owner EXCEPT ![sd[t]] =
                     IF fr[t].proof = "client" THEN t ELSE "other"]

Receive(t) ==
    /\ pc[t] = "receive"
    /\ \/ /\ ~IsOpen(t)
          /\ Drop(t)
          /\ UNCHANGED <<pcvars, wire, owner, copies>>
       \/ /\ IsOpen(t)
          /\ MustRetry(t)
          /\ Retry(t)
       \/ /\ IsOpen(t)
          /\ \E c \in {"ok", "error", "407"}, b \in BOOLEAN :
                /\ c = "407" => ~MustRetry(t)
                /\ fr' = [fr EXCEPT ![t].code = c, ![t].last = "full", ![t].body = b,
                            ![t].proof = "none",
                            ![t].authok = @ \/ (~fr[t].noauth /\ c # "407")]
                /\ SetWire(t, IF b THEN "body" ELSE "idle")
                /\ IF c = "407" THEN Refused(t, "full") ELSE UNCHANGED copies
                /\ Authenticates(t, c)
          /\ Goto(t, "reply")
          /\ UNCHANGED pcvars
    /\ UNCHANGED <<kind, unsent, answered, basic, ntlmbasic>>

(* Forward the reply.  It stops when the client is gone, when the body ends *)
(* early, and after an agreed CONNECT, whose tunnel uses up the connection. *)
ReplyComplete(t) ==
    /\ ~fr[t].body \/ (IsOpen(t) /\ wire[sd[t]] = "body")
    /\ \E palive, calive \in BOOLEAN :
          fr' = [fr EXCEPT ![t].proxy_alive = palive, ![t].conn_alive = calive,
                           ![t].rc = IF palive THEN "null" ELSE "drop"]
    /\ wire' = IF sd[t] \in Fds THEN [wire EXCEPT ![sd[t]] = "idle"] ELSE wire
    /\ Goto(t, "while")

ReplyStopped(t) ==
    /\ \/ kind[t] = "connect" /\ fr[t].code = "ok"
       \/ fr[t].body /\ ~IsOpen(t)
    /\ Drop(t)
    /\ UNCHANGED wire

Reply(t) ==
    /\ pc[t] = "reply"
    /\ \/ /\ ReplyComplete(t) \/ ReplyStopped(t)
          /\ answered' = [answered EXCEPT ![t] = TRUE]
       \/ /\ Drop(t)
          /\ UNCHANGED <<wire, answered>>
    /\ UNCHANGED <<pcvars, owner, kind, unsent, copies, basic, ntlmbasic>>

(* Mutant of While: proxy_alive is left over from the last round. *)
WhileKeepsAlive(t) ==
    /\ pc[t] = "while"
    /\ IF fr[t].conn_alive /\ fr[t].proxy_alive /\ IsOpen(t)
          THEN Goto(t, "next")
          ELSE Goto(t, "bailout")
    /\ UNCHANGED <<pcvars, fr, wire, owner, client>>

(* Another round on this connection resets proxy_alive and conn_alive. *)
While(t) ==
    /\ pc[t] = "while"
    /\ \/ /\ fr[t].conn_alive /\ fr[t].proxy_alive /\ IsOpen(t) /\ ~Serialize
          /\ fr' = [fr EXCEPT ![t].proxy_alive = FALSE, ![t].conn_alive = FALSE,
                              ![t].code = "none", ![t].body = FALSE, ![t].last = "none"]
          /\ Goto(t, "next")
       \/ /\ Goto(t, "bailout")
          /\ UNCHANGED fr
    /\ UNCHANGED <<pcvars, wire, owner, client>>

-----------------------------------------------------------------------------
(* Mutant of WorthKeeping: NTLM-to-basic makes no difference. *)
WorthKeepingAnyway(t) ==
    fr[t].proxy_alive /\ fr[t].authok /\ IsOpen(t)

(* Keep the connection or close it.  A request for another host goes back   *)
(* to proxy_thread(), which forwards it again or serves it directly.        *)
WorthKeeping(t) ==
    fr[t].proxy_alive /\ fr[t].authok /\ ~ntlmbasic /\ IsOpen(t)

LeaveCall(t) ==
    /\ Goto(t, "out") \/ (fr[t].rc = "request" /\ Goto(t, "beginning"))
    /\ fr' = [fr EXCEPT ![t] = Beginning]

(* Mutant of Bailout: no close(sd). *)
BailoutLeavesOpen(t) ==
    /\ pc[t] = "bailout"
    /\ at' = [at EXCEPT ![t] = "idle"]
    /\ sd' = [sd EXCEPT ![t] = NoFd]
    /\ LeaveCall(t)
    /\ UNCHANGED <<parent_curr, resolved, connection_list, heap, sock, peer,
                   prev, loop, aux, wire, owner, client>>

Bailout(t) ==
    /\ pc[t] = "bailout"
    /\ \/ /\ WorthKeeping(t)
          /\ PC!Store(t)
          /\ UNCHANGED <<wire, owner>>
       \/ /\ ~WorthKeeping(t)
          /\ at[t] = "holding"
          /\ Disconnect(t)
       \/ /\ ~WorthKeeping(t)
          /\ at[t] # "holding"
          /\ UNCHANGED <<pcvars, wire, owner>>
    /\ LeaveCall(t)
    /\ UNCHANGED client

(* The parent closes a connection, with or without a reply outstanding. *)
RemoteClose(fd) ==
    /\ PC!RemoteClose(fd)
    /\ UNCHANGED <<pc, fr, wire, owner, client>>

InCall(t) ==
    \/ PopCached(t) \/ Connect(t) \/ Connecting(t) \/ ConnectReturned(t)
    \/ ParseRequest(t)
    \/ AuthSend(t) \/ AuthReply(t) \/ AuthEnd(t) \/ Reconnected(t) \/ AuthDone(t)
    \/ Send(t) \/ Receive(t) \/ Reply(t) \/ While(t) \/ Bailout(t)

Next ==
    \/ \E t \in Threads : InCall(t) \/ Arrive(t) \/ NextRequest(t)
    \/ \E fd \in Fds : RemoteClose(fd)

Spec == Init /\ [][Next]_vars

(***************************************************************************)
(* Fairness: a thread that can go on is scheduled (a parent or a client    *)
(* that is read from answers or closes sooner or later).  Nothing is        *)
(* assumed of how long an idle connection stays open.                      *)
(***************************************************************************)
FairSpec ==
    /\ Spec
    /\ \A t \in Threads : WF_vars(InCall(t))

-----------------------------------------------------------------------------
(* Properties *)

(* Every variable has its type; in particular the parent that is selected   *)
(* is one of the list, whatever way the calls take through it.              *)
TypeOK ==
    /\ PC!TypeOK
    /\ pc \in [Threads -> Label]
    /\ fr \in [Threads -> Locals]
    /\ wire \in [Fds -> Wire]
    /\ owner \in [Fds -> Owner]
    /\ kind \in [Threads -> Kinds \cup {"plain"}]
    /\ unsent \in [Threads -> BOOLEAN]
    /\ answered \in [Threads -> BOOLEAN]
    /\ copies \in [Threads -> [Copy -> Nat]]
    /\ basic \in [Threads -> BOOLEAN]
    /\ ntlmbasic \in BOOLEAN

(* forward_request() keeps exactly the discipline of the shared pool that   *)
(* ProxyConnect describes, so its exclusive sockets and absence of leaks    *)
(* hold here: close, retry and reconnect included.                          *)
ImplementsPool == PC!Spec

(* A cached connection has no reply outstanding and none half read: the     *)
(* next request that pops it reads its own reply and not a rest of another  *)
(* client's.                                                                *)
CachedIdle ==
    heap = "ok" =>
        \A i \in DOMAIN connection_list : wire[connection_list[i]] = "idle"

(* A request is never in a parent's hands twice as the client sent it:      *)
(* neither the handshake nor a retry repeats what a parent may have         *)
(* executed.  Only a request with a body and HEAD may be executed once more *)
(* before, as the handshake's probe, and that not more than once, however   *)
(* often the request is started over: the code sends such a probe           *)
(* (forward.c:183) and then "the second request in full" (forward.c:164).   *)
AtMostOnce ==
    \A t \in Threads :
        /\ copies[t]["full"] <= 1
        /\ copies[t]["probe"] <= (IF kind[t] \in Probed THEN 1 ELSE 0)

ProbeNeverAnswersClient ==
    \A t \in Threads :
        pc[t] = "reply" /\ kind[t] \in Probed => fr[t].last = "full"

NoSecondReply ==
    \A t \in Threads :
        pc[t] \notin {"out", "while", "next", "bailout"} => ~answered[t]

KeptClientIsAnswered ==
    \A t \in Threads : pc[t] = "bailout" /\ fr[t].rc = "null" => answered[t]

(* A client gets exactly one reply to a request, and its own.  The error of   *)
(* "sending the client a reply to our PROBE, not the real request"           *)
(* (forward.c:168) does not happen; nothing was forwarded before a retry, no *)
(* error page follows a reply; and a client whose connection stays open     *)
(* after the call was answered, as every path that gives up without a reply *)
(* returns -1, upon which proxy_thread() closes the connection.             *)
OneReplyPerRequest ==
    ProbeNeverAnswersClient /\ NoSecondReply /\ KeptClientIsAnswered

(* With NTLM-to-basic, where clients have accounts of their own, a client's *)
(* requests only go over connections that nobody or the client itself        *)
(* authenticated: whatever is cached, retried, reconnected or closed, no     *)
(* request travels under another client's account or cntlm's own.  (With it  *)
(* off a client's credentials are used as well, and the connection is then   *)
(* cached and shared, forward.c:475 and 702.)                                *)
CredentialsAreOwn ==
    ntlmbasic =>
        \A t \in Threads : sd[t] \in Fds => owner[sd[t]] \in {"none", t}

(* "Each request scans the whole list until all items are tried or a        *)
(* working proxy is found" (forward.c:46): for a thread alone, with its      *)
(* handshakes, reconnects and retries, a connection fails only if no parent  *)
(* works.                                                                   *)
ScansWholeList == PC!ScansWholeList

(* The call of forward_request() for a request ends: neither the failover,  *)
(* nor the handshake, nor the retries go on for ever.                       *)
CallEnds ==
    \A t \in Threads :
        pc[t] = "beginning" ~> pc[t] \in {"out", "next"} \/ heap = "undefined"

=============================================================================
