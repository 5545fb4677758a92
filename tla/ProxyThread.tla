---------------------------- MODULE ProxyThread ----------------------------
(***************************************************************************)
(* A connection of a client to cntlm: proxy_thread() (main.c) and the      *)
(* requests it serves without a parent, direct_request() and               *)
(* www_authenticate() (direct.c), with the heads and bodies http.c copies  *)
(* between client and server.  forward_request() is here only what         *)
(* proxy_thread() sees of it; ForwardRequest has the rest.                 *)
(*                                                                         *)
(* A head and a body are one item of a stream each.  A reply is a code,    *)
(* how its head announces the end of its body, and whether the connection  *)
(* is closed after it.  Servers answer a request once they have it with    *)
(* its body, once and in full unless they close.  They announce a body by  *)
(* its length, as chunked, or by its type or the end of the connection     *)
(* ("eof"); or by none of these and just close after it ("bare").          *)
(***************************************************************************)
EXTENDS Naturals, Sequences

CONSTANTS
    Hosts,
    NoProxy,     \* the hosts of the NoProxy list
    Kinds,       \* kinds of requests the client sends
    Framings,    \* how a reply announces its body
    MaxRequests, \* bound: requests of the client
    Serialize    \* the -s option

ASSUME ConstantsAssumption ==
    /\ NoProxy \subseteq Hosts
    /\ Kinds \subseteq {"get", "head", "post", "connect"}
    /\ Framings \subseteq {"none", "length", "chunked", "eof", "bare"}
    /\ MaxRequests \in Nat
    /\ Serialize \in BOOLEAN

VARIABLES
    reqs,       \* the client's requests, in the order they were sent
    gone,       \* the client closed its connection
    cstream,    \* what can be read from cd
    cgot,       \* what was written to cd
    sd, host,   \* the connection to a server and whose it is
    up, down,   \* what the server, and the thread, can read from it
    pc,
    cur,        \* data[0]: the number of the request, 0 before the first
    reply,      \* data[1]
    ret, keep_alive, conn_alive

client == <<reqs, gone>>
server == <<sd, host, up, down>>
locals == <<cur, reply, ret, keep_alive, conn_alive>>
vars == <<client, cstream, cgot, server, pc, locals>>

(* "401" is one that offers NTLM, "refused" the parent's answer to a CONNECT *)
(* it does not agree to; any other is passed on like a success.              *)
Reply == [code : {"ok", "401", "refused"}, framing : Framings \cup {"none"},
          close : BOOLEAN, probe : BOOLEAN]

(* data[1]->empty *)
NoReply == [code |-> "ok", framing |-> "none", close |-> FALSE, probe |-> FALSE]

Refusal == [code |-> "refused", framing |-> "none", close |-> FALSE, probe |-> FALSE]

Request == [kind : Kinds, host : Hosts, keep : BOOLEAN]

Numbers == 1 .. MaxRequests

Item(n, part) == [of |-> n, part |-> part]

Sent(n, part, r) == [of |-> n, part |-> part, reply |-> r]

ToServer(n, part, auth) == [of |-> n, part |-> part, auth |-> auth]

Page == Sent(cur, "page", NoReply)

Init ==
    /\ reqs = <<>> /\ gone = FALSE
    /\ cstream = <<>> /\ cgot = <<>>
    /\ sd = "none" /\ host = "none" /\ up = <<>> /\ down = <<>>
    /\ pc = "read"
    /\ cur = 0 /\ reply = NoReply
    /\ ret = "null" /\ keep_alive = FALSE /\ conn_alive = FALSE

(* so_closed(): the end, and nothing left to read before it *)
ClientClosed == gone /\ cstream = <<>>
ServerClosed == sd = "eof" /\ down = <<>>

Goto(label) == pc' = label

Write(item) == cgot' = Append(cgot, item)

(* rc = -1; goto bailout *)
Drop == ret' = "drop" /\ Goto("bailout")

(* Mutant of PageAndDrop: rc stays as it was. *)
PageAndGoOn == Write(Page) /\ UNCHANGED ret /\ Goto("bailout")

(* The same with a page of cntlm's own before it. *)
PageAndDrop == Write(Page) /\ Drop

(* headers_recv() gets a head, or fails: the end, or not a head. *)
HeadReady(stream) == stream # <<>> /\ Head(stream).part = "head"
HeadFails(stream, eof) ==
    IF stream = <<>> THEN eof ELSE Head(stream).part # "head"

(* The body that no header announces *)
Unannounced(r) == r.framing = "bare" /\ ~r.close

(* Mutant of HasBody: a chunked reply is taken for one without a body. *)
HasBodyNotChunked(kind, r) ==
    IF kind = "head" \/ r.framing = "chunked" \/ Unannounced(r) THEN "none"
    ELSE IF r.framing = "bare" THEN "eof" ELSE r.framing

(* http_has_body() of a reply: how its body ends.  One that no header       *)
(* announces is not expected, unless the head says the server will close.   *)
HasBody(kind, r) ==
    IF kind = "head" \/ Unannounced(r) THEN "none"
    ELSE IF r.framing = "bare" THEN "eof" ELSE r.framing

Kind(n) == reqs[n].kind

(* CONNECT(data[0]) && data[1]->code == 200: a tunnel *)
Agreed(kind, r) == kind = "connect" /\ r.code = "ok"

Last == cgot[Len(cgot)]

(* noproxy_match(): one of the list's patterns matches. *)
NoProxyMatch(h) == h \in NoProxy

-----------------------------------------------------------------------------
(* The client *)

(* What the client has been told of its CONNECT last *)
Told(n, r) == cgot # <<>> /\ Last = Sent(n, "head", r)

(* The next request, pipelined or not; one with a body may be cut short.    *)
(* What follows a CONNECT waits for the answer to it.                       *)
ClientRequest ==
    /\ ~gone /\ pc # "end"
    /\ Len(reqs) < MaxRequests
    /\ reqs # <<>> /\ Kind(Len(reqs)) = "connect" => Told(Len(reqs), Refusal)
    /\ \E r \in Request, whole \in BOOLEAN :
        /\ whole \/ r.kind = "post"
        /\ reqs' = Append(reqs, r)
        /\ gone' = ~whole
        /\ cstream' = cstream \o <<Item(Len(reqs'), "head")>>
                      \o IF r.kind = "post" /\ whole
                         THEN <<Item(Len(reqs'), "body")>> ELSE <<>>
    /\ UNCHANGED <<cgot, server, pc, locals>>

(* Something for the other end of a tunnel; bound: one piece at a time, and *)
(* none after an answer.                                                    *)
ClientData ==
    /\ ~gone /\ pc # "end"
    /\ reqs # <<>> /\ Kind(Len(reqs)) = "connect" /\ Told(Len(reqs), NoReply)
    /\ cstream = <<>> /\ up = <<>> /\ down = <<>>
    /\ cstream' = <<Item(Len(reqs), "body")>>
    /\ UNCHANGED <<client, cgot, server, pc, locals>>

ClientClose ==
    /\ ~gone /\ pc # "end"
    /\ gone' = TRUE
    /\ UNCHANGED <<reqs, cstream, cgot, server, pc, locals>>

-----------------------------------------------------------------------------
(* The server *)

(* A request is complete with its body; the probe has none. *)
Wanted(item) ==
    IF Kind(item.of) = "post" /\ item.auth # "probe"
    THEN <<item, ToServer(item.of, "body", "none")>> ELSE <<item>>

ServerReply ==
    /\ sd = "open" /\ up # <<>> /\ Head(up).part = "head"
    /\ LET item == Head(up)
           n == Len(Wanted(item))
       IN  /\ Len(up) >= n /\ SubSeq(up, 1, n) = Wanted(item)
           /\ up' = SubSeq(up, n + 1, Len(up))
           /\ \E r \in Reply, cut \in BOOLEAN :
               LET body == IF Kind(item.of) = "head" THEN "none" ELSE r.framing
               IN  /\ r.code # "refused"
                   /\ r.probe = (item.auth = "probe")
                   /\ cut => body # "none"
                   /\ down' = down \o <<Sent(item.of, "head", r)>>
                              \o IF body = "none" \/ cut THEN <<>>
                                 ELSE <<Sent(item.of, "body", r)>>
                   /\ sd' = IF cut \/ r.close \/ body \in {"eof", "bare"} THEN "eof" ELSE sd
    /\ UNCHANGED <<client, cstream, cgot, host, pc, locals>>

(* The other end of a tunnel answers what it gets. *)
ServerData ==
    /\ sd = "open" /\ pc = "tunnel" /\ up # <<>>
    /\ up' = Tail(up)
    /\ down' = Append(down, Sent(Head(up).of, "body", NoReply))
    /\ UNCHANGED <<client, cstream, cgot, sd, host, pc, locals>>

ServerClose ==
    /\ sd = "open"
    /\ sd' = "eof"
    /\ UNCHANGED <<client, cstream, cgot, host, up, down, pc, locals>>

-----------------------------------------------------------------------------
(* proxy_thread() *)

(* A request at the beginning of a round *)
Read ==
    /\ pc = "read"
    /\ \/ /\ HeadReady(cstream)
          /\ cur' = Head(cstream).of
          /\ cstream' = Tail(cstream)
          /\ Goto("decide")
       \/ /\ HeadFails(cstream, gone)
          /\ Goto("end")
          /\ UNCHANGED <<cur, cstream>>
    /\ UNCHANGED <<client, cgot, server, reply, ret, keep_alive, conn_alive>>

(* Mutant of Decide: the list names the hosts behind a parent. *)
DecideSwapped ==
    /\ pc = "decide"
    /\ keep_alive' = reqs[cur].keep
    /\ ret' = "null"
    /\ conn_alive' = FALSE
    /\ reply' = NoReply
    /\ Goto(IF NoProxyMatch(reqs[cur].host) THEN "forward" ELSE "connect")
    /\ UNCHANGED <<client, cstream, cgot, server, cur>>

(* keep_alive is that of the request at hand; noproxy_match() chooses. *)
Decide ==
    /\ pc = "decide"
    /\ keep_alive' = reqs[cur].keep
    /\ ret' = "null"
    /\ conn_alive' = FALSE
    /\ reply' = NoReply
    /\ Goto(IF NoProxyMatch(reqs[cur].host) THEN "connect" ELSE "forward")
    /\ UNCHANGED <<client, cstream, cgot, server, cur>>

(* A reply of the parent's with its body, as proxy_thread() sees it *)
ParentReply(kind) == IF kind = "connect" THEN {NoReply, Refusal} ELSE {NoReply}

(* forward_request() answers the request or gives up.  It drops the client  *)
(* of a tunnel when the tunnel ends; the refusal of one is a reply like     *)
(* others.                                                                  *)
Forward ==
    /\ pc = "forward"
    /\ \/ /\ ret' = "drop" /\ Goto("returned")
          /\ UNCHANGED cgot \/ Write(Page)
          /\ UNCHANGED cstream
       \/ /\ IF Kind(cur) = "post"
             THEN cstream # <<>> /\ cstream' = Tail(cstream)
             ELSE UNCHANGED cstream
          /\ \E r \in ParentReply(Kind(cur)) :
                /\ Write(Sent(cur, "head", r))
                /\ \/ ret' = "drop" /\ Goto("returned")
                   \/ ~Agreed(Kind(cur), r) /\ UNCHANGED ret /\ Goto("returned")
                   \/ /\ ~Agreed(Kind(cur), r) /\ ~Serialize
                      /\ UNCHANGED ret /\ Goto("forward_next")
    /\ UNCHANGED <<client, server, cur, reply, keep_alive, conn_alive>>

(* Mutant of SameHost: the new request is not looked at. *)
SameHostAlways(n) == TRUE

(* The next request is for the host of the last one. *)
SameHost(n) == reqs[n].host = reqs[cur].host

(* then it reads the next one, and returns one for another host. *)
ForwardNext ==
    /\ pc = "forward_next"
    /\ \/ /\ HeadReady(cstream)
          /\ cur' = Head(cstream).of
          /\ cstream' = Tail(cstream)
          /\ IF SameHost(cur')
             THEN Goto("forward") /\ UNCHANGED ret
             ELSE Goto("returned") /\ ret' = "request"
       \/ /\ HeadFails(cstream, gone)
          /\ ret' = "drop" /\ Goto("returned")
          /\ UNCHANGED <<cur, cstream>>
    /\ UNCHANGED <<client, cgot, server, reply, keep_alive, conn_alive>>

(* A returned request is decided on; otherwise a new round or the end. *)
Returned ==
    /\ pc = "returned"
    /\ Goto(IF ret = "request" THEN "decide"
            ELSE IF keep_alive /\ ret # "drop" /\ ~Serialize THEN "read" ELSE "end")
    /\ UNCHANGED <<client, cstream, cgot, server, locals>>

-----------------------------------------------------------------------------
(* direct_request() *)

(* host_connect(): a new connection *)
Connected(n) ==
    /\ sd' = "open" /\ host' = reqs[n].host
    /\ up' = <<>> /\ down' = <<>>

(* so_resolv() or so_connect() failed: sd is no descriptor. *)
NotConnected ==
    /\ sd' = "none" /\ host' = "none"
    /\ up' = <<>> /\ down' = <<>>

Begin(n) == Goto(IF Kind(n) = "connect" THEN "established" ELSE "send")

Connect ==
    /\ pc = "connect"
    /\ \/ /\ Connected(cur)
          /\ Begin(cur)
          /\ UNCHANGED <<cgot, ret>>
       \/ /\ NotConnected
          /\ PageAndDrop
    /\ UNCHANGED <<client, cstream, cur, reply, keep_alive, conn_alive>>

(* CONNECT is answered by cntlm itself. *)
Established ==
    /\ pc = "established"
    /\ IF ClientClosed
       THEN Drop /\ UNCHANGED cgot
       ELSE /\ Write(Sent(cur, "head", NoReply))
            /\ Goto("tunnel")
            /\ UNCHANGED ret
    /\ UNCHANGED <<client, cstream, server, cur, reply, keep_alive, conn_alive>>

(* What the client takes the bytes for that arrive in its tunnel *)
Data(item) == Sent(cur, "body", NoReply)

(* tunnel(): the client first if both have something; any end ends it. *)
Tunnel ==
    /\ pc = "tunnel"
    /\ \/ /\ cstream # <<>>
          /\ cstream' = Tail(cstream)
          /\ up' = Append(up, ToServer(cur, "body", "none"))
          /\ UNCHANGED <<cgot, down, ret, pc>>
       \/ /\ cstream = <<>> /\ ~gone /\ down # <<>>
          /\ Write(Data(Head(down)))
          /\ down' = Tail(down)
          /\ UNCHANGED <<cstream, up, ret, pc>>
       \/ /\ ClientClosed \/ (cstream = <<>> /\ ServerClosed)
          /\ Drop
          /\ UNCHANGED <<cstream, cgot, up, down>>
    /\ UNCHANGED <<client, sd, host, cur, reply, keep_alive, conn_alive>>

(* headers_send() to the server *)
SendHead ==
    /\ pc = "send"
    /\ IF ServerClosed
       THEN Drop /\ UNCHANGED up
       ELSE /\ up' = Append(up, ToServer(cur, "head", "none"))
            /\ Goto("send_body")
            /\ UNCHANGED ret
    /\ UNCHANGED <<client, cstream, cgot, sd, host, down, cur, reply, keep_alive, conn_alive>>

(* http_body_send(), first loop: the client may stop, or the server. *)
SendBody ==
    /\ pc = "send_body"
    /\ \/ /\ Kind(cur) # "post"
          /\ Goto("receive")
          /\ UNCHANGED <<cstream, up, ret>>
       \/ /\ Kind(cur) = "post" /\ cstream # <<>>
          /\ cstream' = Tail(cstream)
          /\ IF ServerClosed
             THEN Drop /\ UNCHANGED up
             ELSE /\ up' = Append(up, ToServer(cur, Head(cstream).part, "none"))
                  /\ Goto("receive")
                  /\ UNCHANGED ret
       \/ /\ Kind(cur) = "post" /\ ClientClosed
          /\ Drop
          /\ UNCHANGED <<cstream, up>>
    /\ UNCHANGED <<client, cgot, sd, host, down, cur, reply, keep_alive, conn_alive>>

(* headers_recv() from the server; no page if it fails *)
Receive ==
    /\ pc = "receive"
    /\ \/ /\ HeadReady(down)
          /\ reply' = Head(down).reply
          /\ down' = Tail(down)
          /\ Goto(IF reply'.code = "401" THEN "unauthorized" ELSE "respond")
          /\ UNCHANGED ret
       \/ /\ HeadFails(down, sd = "eof")
          /\ Drop
          /\ UNCHANGED <<reply, down>>
    /\ UNCHANGED <<client, cstream, cgot, sd, host, up, cur, keep_alive, conn_alive>>

(* The server closes after its 401: reconnect before www_authenticate(). *)
Unauthorized ==
    /\ pc = "unauthorized"
    /\ \/ /\ ~reply.close
          /\ Goto("auth_drop")
          /\ UNCHANGED <<cgot, server, ret>>
       \/ /\ reply.close
          /\ \/ /\ Connected(cur)
                /\ Goto("auth_drop")
                /\ UNCHANGED <<cgot, ret>>
             \/ NotConnected /\ PageAndDrop
    /\ UNCHANGED <<client, cstream, cur, reply, keep_alive, conn_alive>>

-----------------------------------------------------------------------------
(* www_authenticate() *)

(* http_body_drop(): http_has_body(NULL, response) does not know the        *)
(* request.  After HEAD it waits for a body that does not come, until the   *)
(* server closes.                                                           *)
BodyToDrop == HasBody("null", reply)

Dropped(label) ==
    \/ /\ BodyToDrop = "none"
       /\ Goto(label)
       /\ UNCHANGED <<cgot, down, ret>>
    \/ /\ BodyToDrop \in {"length", "chunked"} /\ down # <<>>
       /\ down' = Tail(down)
       /\ Goto(label)
       /\ UNCHANGED <<cgot, ret>>
    \/ /\ BodyToDrop \in {"length", "chunked"} /\ ServerClosed
       /\ PageAndDrop
       /\ UNCHANGED down
    \/ /\ BodyToDrop = "eof" /\ sd = "eof"
       /\ down' = <<>>
       /\ Goto(label)
       /\ UNCHANGED <<cgot, ret>>

(* The error page of the first reply *)
AuthDrop ==
    /\ pc = "auth_drop"
    /\ Dropped("auth_probe")
    /\ UNCHANGED <<client, cstream, sd, host, up, cur, reply, keep_alive, conn_alive>>

(* headers_send() of a message, or the error page *)
AuthSend(auth, label) ==
    /\ IF ServerClosed
       THEN PageAndDrop /\ UNCHANGED up
       ELSE /\ up' = Append(up, ToServer(cur, "head", auth))
            /\ Goto(label)
            /\ UNCHANGED <<cgot, ret>>
    /\ UNCHANGED <<client, cstream, sd, host, down, cur, reply, keep_alive, conn_alive>>

(* The request without its body, and with an NTLM message *)
AuthProbe == pc = "auth_probe" /\ AuthSend("probe", "auth_receive")

(* headers_recv(): the codes that are expected, or the error page *)
AuthRead(expected, label) ==
    /\ \/ /\ HeadReady(down)
          /\ reply' = Head(down).reply
          /\ down' = Tail(down)
          /\ IF reply'.code \in expected
             THEN Goto(label) /\ UNCHANGED <<cgot, ret>>
             ELSE PageAndDrop
       \/ /\ HeadFails(down, sd = "eof")
          /\ PageAndDrop
          /\ UNCHANGED <<reply, down>>
    /\ UNCHANGED <<client, cstream, sd, host, up, cur, keep_alive, conn_alive>>

(* Mutant of AuthReceive: any reply to the probe is taken for a challenge's. *)
AuthReceiveAnyCode ==
    /\ pc = "auth_receive"
    /\ \/ AuthRead({"401"}, "auth_challenge")
       \/ HeadReady(down) /\ Head(down).reply.code # "401" /\ AuthRead({"ok"}, "respond")

(* The reply to it must be another 401, *)
AuthReceive == pc = "auth_receive" /\ AuthRead({"401"}, "auth_challenge")

(* whose body is dropped. *)
AuthChallenge ==
    /\ pc = "auth_challenge"
    /\ Dropped("auth_answer")
    /\ UNCHANGED <<client, cstream, sd, host, up, cur, reply, keep_alive, conn_alive>>

(* The request again, its body is not; the challenge may be of no use. *)
AuthAnswer ==
    /\ pc = "auth_answer"
    /\ \/ AuthSend("answer", "auth_final")
       \/ /\ PageAndDrop
          /\ UNCHANGED <<client, cstream, server, cur, reply, keep_alive, conn_alive>>

(* Mutant of AuthFinal: after a 401 the authentication is started over. *)
AuthFinalAgain ==
    /\ pc = "auth_final"
    /\ \/ AuthRead({"ok"}, "respond")
       \/ HeadReady(down) /\ Head(down).reply.code = "401" /\ AuthRead({"401"}, "auth_drop")

(* The reply to the request; after one more 401 the client gets a 401 page. *)
AuthFinal == pc = "auth_final" /\ AuthRead({"ok"}, "respond")

-----------------------------------------------------------------------------
(* direct_request(), second loop: the reply *)

(* A body that ends with the connection, or a server that closes, ends it all. *)
Respond ==
    /\ pc = "respond"
    /\ conn_alive' = (~reply.close /\ HasBody(Kind(cur), reply) # "eof")
    /\ IF ClientClosed
       THEN Drop /\ UNCHANGED cgot
       ELSE /\ Write(Sent(cur, "head", reply))
            /\ ret' = IF conn_alive' THEN ret ELSE "drop"
            /\ Goto("body")
    /\ UNCHANGED <<client, cstream, server, cur, reply, keep_alive>>

(* data_send() or chunked_data_send(): the body arrives whole, is copied     *)
(* until the server closes, or ends too early; then the client is dropped. *)
BodySend(body) ==
    \/ /\ body = "eof" /\ ServerClosed
       /\ Goto("while")
       /\ UNCHANGED <<cgot, down, ret>>
    \/ /\ down # <<>>
       /\ down' = Tail(down)
       /\ IF ClientClosed
          THEN Drop /\ UNCHANGED cgot
          ELSE /\ Write(Head(down))
               /\ Goto(IF body = "eof" THEN "body" ELSE "while")
               /\ UNCHANGED ret
    \/ /\ body # "eof" /\ ServerClosed
       /\ Drop
       /\ UNCHANGED <<cgot, down>>

(* http_body_send() from the server *)
Body ==
    /\ pc = "body"
    /\ LET body == HasBody(Kind(cur), reply)
       IN  IF body = "none"
           THEN Goto("while") /\ UNCHANGED <<cgot, down, ret>>
           ELSE BodySend(body)
    /\ UNCHANGED <<client, cstream, sd, host, up, cur, reply, keep_alive, conn_alive>>

(* while (conn_alive && !so_closed(sd) && !so_closed(cd) && !serialize) *)
While ==
    /\ pc = "while"
    /\ Goto(IF conn_alive /\ ~ServerClosed /\ ~ClientClosed /\ ~Serialize
            THEN "next" ELSE "bailout")
    /\ UNCHANGED <<client, cstream, cgot, server, locals>>

(* The next request: here, or back to proxy_thread() if for another host *)
NextRequest ==
    /\ pc = "next"
    /\ conn_alive' = FALSE /\ reply' = NoReply
    /\ \/ /\ HeadReady(cstream)
          /\ cur' = Head(cstream).of
          /\ cstream' = Tail(cstream)
          /\ IF SameHost(cur')
             THEN Begin(cur') /\ UNCHANGED ret
             ELSE ret' = "request" /\ Goto("bailout")
       \/ /\ HeadFails(cstream, gone)
          /\ Drop
          /\ UNCHANGED <<cur, cstream>>
    /\ UNCHANGED <<client, cgot, server, keep_alive>>

(* close(sd) *)
Bailout ==
    /\ pc = "bailout"
    /\ NotConnected
    /\ Goto("returned")
    /\ UNCHANGED <<client, cstream, cgot, locals>>

-----------------------------------------------------------------------------
Thread ==
    \/ Read \/ Decide \/ Forward \/ ForwardNext \/ Returned
    \/ Connect \/ Established \/ Tunnel
    \/ SendHead \/ SendBody \/ Receive \/ Unauthorized
    \/ AuthDrop \/ AuthProbe \/ AuthReceive \/ AuthChallenge \/ AuthAnswer \/ AuthFinal
    \/ Respond \/ Body \/ While \/ NextRequest \/ Bailout

Server == ServerReply \/ ServerData \/ ServerClose

Next == ClientRequest \/ ClientData \/ ClientClose \/ Server \/ Thread

Spec == Init /\ [][Next]_vars

(* The thread runs; a server answers or closes the connection some day. *)
(* Clients need not do anything.                                        *)
FairSpec == Spec /\ WF_vars(Thread) /\ WF_vars(Server)

-----------------------------------------------------------------------------
Label == {"read", "decide", "forward", "forward_next", "returned", "end",
          "connect", "established", "tunnel", "send", "send_body", "receive",
          "unauthorized", "auth_drop", "auth_probe", "auth_receive",
          "auth_challenge", "auth_answer", "auth_final",
          "respond", "body", "while", "next", "bailout"}

(* Types of the streams and of the locals of proxy_thread() and            *)
(* direct_request().                                                       *)
TypeOK ==
    /\ reqs \in Seq(Request) /\ Len(reqs) <= MaxRequests
    /\ gone \in BOOLEAN
    /\ cstream \in Seq([of : Numbers, part : {"head", "body"}])
    /\ cgot \in Seq([of : Numbers, part : {"head", "body", "page"}, reply : Reply])
    /\ sd \in {"none", "open", "eof"}
    /\ host \in NoProxy \cup {"none"}
    /\ up \in Seq([of : Numbers, part : {"head", "body"},
                   auth : {"none", "probe", "answer"}])
    /\ down \in Seq([of : Numbers, part : {"head", "body"}, reply : Reply])
    /\ pc \in Label
    /\ cur \in 0 .. Len(reqs)
    /\ reply \in Reply
    /\ ret \in {"null", "request", "drop"}
    /\ keep_alive \in BOOLEAN /\ conn_alive \in BOOLEAN

(* What is left of a reply that announced its body nowhere *)
Stray ==
    /\ sd = "eof" /\ Len(down) = 1
    /\ down[1].part = "body" /\ Unannounced(down[1].reply)

(* Whatever is read next is what is there: a head where headers_recv() is  *)
(* called, a body where http_body_send() or http_body_drop() is, both of   *)
(* the request at hand, and the probe's reply where www_authenticate()     *)
(* wants it.  One body too much or too little and every later exchange on  *)
(* the connection is out of step.  The one body that may lie there unread  *)
(* is one that no header of its reply announced, the last thing that ever  *)
(* comes from its server: http_has_body() overlooks it, and then nothing   *)
(* but a tunnel takes it.                                                  *)
FramesInStep ==
    /\ pc \in {"read", "next", "forward_next"} /\ cstream # <<>> =>
           Head(cstream) = Item(cur + 1, "head")
    /\ pc \in {"send_body", "forward"} /\ Kind(cur) = "post" /\ cstream # <<>> =>
           Head(cstream) = Item(cur, "body")
    /\ pc \in {"receive", "auth_receive", "auth_final"} /\ down # <<>> /\ ~Stray =>
           /\ Head(down).part = "head" /\ Head(down).of = cur
           /\ Head(down).reply.probe = (pc = "auth_receive")
    /\ pc \in {"body", "auth_drop", "auth_challenge"} /\ down # <<>> =>
           Head(down) = Sent(cur, "body", reply)
    /\ pc \in {"next", "established"} => down = <<>> \/ Stray

(* No header of the reply says that it has a body, although it may have     *)
(* one: the client does not get it.                                         *)
Cut(item) ==
    item.part = "head" /\ Kind(item.of) # "head" /\ Unannounced(item.reply)

(* The client needs no more to know where an answer ends. *)
Whole(item) ==
    item.part = "head" /\ Kind(item.of) # "head" => item.reply.framing = "none"

(* b is the body of a, if it owes one, or the answer to the next request. *)
Follows(a, b) ==
    IF b.part = "body"
    THEN /\ b.of = a.of /\ Kind(b.of) # "head" /\ ~Cut(a)
         /\ Whole(a) \/ b.reply = a.reply
    ELSE (Whole(a) \/ Cut(a)) /\ b.of = a.of + 1

(* What the client has read so far is a reply, or a page instead of one,   *)
(* to each of its first requests in the order it sent them, through every  *)
(* change between direct_request() and forward_request(); never the reply  *)
(* to www_authenticate()'s probe; and each with its whole body before the  *)
(* next one begins, or with none if its head announces none.               *)
RepliesAreOwn ==
    /\ \A i \in DOMAIN cgot : ~cgot[i].reply.probe
    /\ cgot # <<>> => cgot[1].of = 1 /\ cgot[1].part # "body"
    /\ \A i \in DOMAIN cgot \ {1} : Follows(cgot[i - 1], cgot[i])

(* Only the end of the connection tells where this answer ends. *)
Final(item) ==
    \/ item.part = "page"
    \/ Agreed(Kind(item.of), item.reply)
    \/ Kind(item.of) # "head" /\ item.reply.framing \in {"eof", "bare"} /\ ~Cut(item)

(* Through every way a request can go, with pipelining, authentication,    *)
(* pages and servers that close: what the client gets and when it ends is  *)
(* what OrderedServer allows.  No answer comes before its request or after *)
(* one that must be the last.                                              *)
Ordered ==
    INSTANCE OrderedServer WITH
        sent     <- Len(reqs),
        answered <- IF cgot = <<>> THEN 0 ELSE Last.of,
        answer   <- CASE cgot = <<>>      -> "whole"
                      [] cgot # <<>> /\ Final(Last) -> "final"
                      [] cgot # <<>> /\ ~Final(Last) ->
                             IF Cut(Last) THEN "cut"
                             ELSE IF Whole(Last) THEN "whole" ELSE "begun",
        closed   <- pc = "end"

ImplementsOrdered == Ordered!Spec

(* A request is sent to the server it names and to no other, although a    *)
(* connection serves one request after the other, and goes without a       *)
(* parent exactly if its host is on the NoProxy list.                      *)
RequestsReachTheirHost ==
    /\ \A i \in DOMAIN up : reqs[up[i].of].host = host
    /\ pc \in {"forward", "forward_next"} => reqs[cur].host \notin NoProxy
    /\ sd # "none" /\ ret # "request" => reqs[cur].host = host

Answered(n) == \E i \in DOMAIN cgot : cgot[i].of = n /\ cgot[i].part # "body"

(* Every request the thread has read is answered or its client sees the    *)
(* connection closed: the 401 dialogue comes to an end, and no step waits  *)
(* for a body that nobody owes without the server giving up in the end.    *)
EveryRequestEnds ==
    \A n \in Numbers : cur = n ~> Answered(n) \/ pc = "end"

=============================================================================
