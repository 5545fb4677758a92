------------------------ MODULE ProxyThread_proofs ------------------------
(***************************************************************************)
(* Proofs about ProxyThread, for any hosts, kinds of requests and framings *)
(* and any number of requests, pipelined or not.                           *)
(***************************************************************************)
EXTENDS ProxyThread, SequenceTheorems, TLAPS

Served == {"established", "tunnel", "send", "send_body", "receive",
           "unauthorized", "auth_drop", "auth_probe", "auth_receive",
           "auth_challenge", "auth_answer", "auth_final",
           "respond", "body", "while", "next"}

(* cur is to be answered without a parent. *)
Direct == pc \in Served \cup {"connect"} \/ (pc = "bailout" /\ ret # "request")

(* cur has not been answered. *)
Open ==
    \/ pc \in {"decide", "connect", "forward", "established", "send", "send_body",
               "receive", "unauthorized", "auth_drop", "auth_probe", "auth_receive",
               "auth_challenge", "auth_answer", "auth_final", "respond"}
    \/ pc \in {"bailout", "returned"} /\ ret = "request"

(* There is still something to be read from or written to the client. *)
Alive == pc \notin {"end", "tunnel"} /\ ret # "drop"

ControlInv ==
    /\ pc \notin {"read", "end"} => cur # 0
    /\ ret = "request" => pc \in {"bailout", "returned", "decide"}
    /\ ret = "drop" => pc \in {"body", "while", "bailout", "returned", "end"}
    /\ pc \in {"body", "while"} => (ret = "drop" <=> ~conn_alive)
    /\ pc = "body" /\ conn_alive => HasBody(Kind(cur), reply) # "eof"
    /\ pc \in {"established", "tunnel"} => Kind(cur) = "connect"
    /\ pc \in Served \ {"established", "tunnel"} => Kind(cur) # "connect"

HostInv ==
    /\ \A i \in DOMAIN cstream : cstream[i].of <= Len(reqs)
    /\ sd = "none" => pc \notin Served /\ host = "none" /\ up = <<>>
    /\ sd # "none" => pc \in Served \cup {"bailout"}
    /\ Direct => reqs[cur].host \in NoProxy
    /\ Direct /\ sd # "none" => host = reqs[cur].host
    /\ pc \in {"forward", "forward_next"} => reqs[cur].host \notin NoProxy
    /\ \A i \in DOMAIN up : up[i].of <= Len(reqs) /\ reqs[up[i].of].host = host

-----------------------------------------------------------------------------
(* What the client sends *)
Bodied(n) == Kind(n) = "post"

(* What comes after an item if these are the requests *)
AfterIn(requests, item) ==
    IF item.part = "head" /\ requests[item.of].kind = "post"
    THEN Item(item.of, "body") ELSE Item(item.of + 1, "head")

After(item) == AfterIn(reqs, item)

Unread ==
    \/ pc \in {"decide", "connect", "forward", "established", "send", "send_body"}
    \/ pc \in {"bailout", "returned"} /\ ret = "request"

First == IF Unread /\ Bodied(cur) THEN Item(cur, "body") ELSE Item(cur + 1, "head")

ClientInv ==
    Alive =>
        /\ cstream # <<>> => cstream[1] = First
        /\ \A i \in DOMAIN cstream \ {1} : cstream[i] = After(cstream[i - 1])
        /\ ~gone => (IF cstream = <<>> THEN First ELSE After(cstream[Len(cstream)]))
                        = Item(Len(reqs) + 1, "head")

-----------------------------------------------------------------------------
(* What is under way between the thread and the server *)
HasBodyItem(r) ==
    Kind(cur) # "head" /\ r.framing # "none" /\ (r.framing = "bare" => sd = "eof")

(* Nothing that anyone waits for *)
Nothing == down = <<>> \/ Stray

Quiet == up = <<>> /\ Nothing

Asked(auth) ==
    LET head == ToServer(cur, "head", auth)
    IN  Nothing /\ (up = <<head>> \/ up = Wanted(head))

Replied(auth) ==
    up = <<>> /\ \E r \in Reply :
        /\ r.probe = (auth = "probe")
        /\ \/ down = <<Sent(cur, "head", r)>>
           \/ down = <<Sent(cur, "head", r), Sent(cur, "body", r)>> /\ HasBodyItem(r)

Rest ==
    /\ up = <<>>
    /\ \/ down = <<>>
       \/ down = <<Sent(cur, "body", reply)>> /\ HasBodyItem(reply)

ServerInv ==
    /\ pc \in {"established", "send", "auth_probe", "auth_answer", "while", "next"} => Quiet
    /\ pc = "send_body" /\ Kind(cur) = "post" =>
          up = <<ToServer(cur, "head", "none")>> /\ Nothing
    /\ pc \in {"send_body", "receive"} => Asked("none") \/ Replied("none")
    /\ pc = "auth_receive" => Asked("probe") \/ Replied("probe")
    /\ pc = "auth_final" => Asked("answer") \/ Replied("answer")
    /\ pc \in {"unauthorized", "auth_drop", "auth_challenge", "respond", "body"} => Rest
    /\ pc \in {"respond", "body"} => ~reply.probe
    /\ pc = "tunnel" => \A i \in DOMAIN up : up[i].of = cur /\ up[i].part = "body"

-----------------------------------------------------------------------------
(* What the client got *)
Reached(n) == IF n = 0 THEN cgot = <<>> ELSE cgot # <<>> /\ Last.of = n
Complete == cgot # <<>> => Whole(Last) \/ Cut(Last)

AnswerInv ==
    /\ \A i \in DOMAIN cgot : cgot[i].of <= Len(reqs)
    /\ Alive /\ Open => Reached(cur - 1) /\ Complete
    /\ Alive /\ ~Open /\ pc # "body" => Reached(cur) /\ Complete
    /\ pc = "tunnel" => Reached(cur) /\ Last.reply = NoReply
    /\ pc = "body" => /\ Reached(cur)
                      /\ Last = Sent(cur, "head", reply) \/ Last.part = "body"

(* After an answer that must be the last the thread is not going to read     *)
(* another request.                                                          *)
FinalInv ==
    /\ cgot # <<>> /\ Final(Last) => ~Alive
    /\ pc = "body" => cgot # <<>> /\ Last.reply = reply

-----------------------------------------------------------------------------
(* Types, the course of a round, and the host of the connection *)

Base == TypeOK /\ ControlInv /\ HostInv

LEMMA InitBase == Init => Base
<1> SUFFICES ASSUME Init PROVE Base
  OBVIOUS
<1>1. TypeOK
  <2>1. NoReply \in Reply
    BY DEF NoReply, Reply
  <2>2. \A S : <<>> \in Seq(S)
    OBVIOUS
  <2>3. cstream \in Seq([of : Numbers, part : {"head", "body"}])
        /\ cgot \in Seq([of : Numbers, part : {"head", "body", "page"}, reply : Reply])
        /\ up \in Seq([of : Numbers, part : {"head", "body"}, auth : {"none", "probe", "answer"}])
        /\ down \in Seq([of : Numbers, part : {"head", "body"}, reply : Reply])
    BY <2>2 DEF Init
  <2>4. reqs \in Seq(Request) /\ Len(reqs) = 0 /\ cur \in 0 .. Len(reqs)
    BY <2>2 DEF Init
  <2>5. Len(reqs) <= MaxRequests
    BY <2>4, ConstantsAssumption
  <2>6. pc \in Label /\ ret \in {"null", "request", "drop"}
    BY DEF Init, Label
  <2> QED
    BY <2>1, <2>3, <2>4, <2>5, <2>6 DEF Init, TypeOK
<1>2. ControlInv /\ HostInv
  BY DEF Init, ControlInv, HostInv, Direct, Served
<1> QED
  BY <1>1, <1>2 DEF Base

LEMMA TailType ==
    ASSUME NEW S, NEW s \in Seq(S), s # <<>>
    PROVE  /\ Tail(s) \in Seq(S) /\ Head(s) \in S /\ Head(s) = s[1] /\ 1 \in DOMAIN s
           /\ \A i \in DOMAIN Tail(s) : i + 1 \in DOMAIN s /\ Tail(s)[i] = s[i + 1]
OBVIOUS

LEMMA AppendType ==
    ASSUME NEW S, NEW s \in Seq(S), NEW e \in S
    PROVE  /\ Append(s, e) \in Seq(S) /\ Append(s, e) # <<>>
           /\ Len(Append(s, e)) = Len(s) + 1
           /\ \A i \in DOMAIN s : Append(s, e)[i] = s[i]
           /\ Append(s, e)[Len(s) + 1] = e
           /\ DOMAIN Append(s, e) = DOMAIN s \cup {Len(s) + 1}
OBVIOUS

LEMMA Concats ==
    ASSUME NEW S, NEW s \in Seq(S), NEW a \in S, NEW b \in S
    PROVE  /\ s \o <<a>> \o <<>> = Append(s, a)
           /\ s \o <<a>> \o <<b>> = Append(Append(s, a), b)
<1>1. s \o <<a>> = Append(s, a)
  OBVIOUS
<1>2. Append(s, a) \in Seq(S)
  OBVIOUS
<1>3. Append(s, a) \o <<>> = Append(s, a)
  BY <1>2
<1>4. Append(s, a) \o <<b>> = Append(Append(s, a), b)
  BY <1>2
<1> QED
  BY <1>1, <1>3, <1>4

(* The elements of the streams *)
Items == [of : Numbers, part : {"head", "body"}]
Gots == [of : Numbers, part : {"head", "body", "page"}, reply : Reply]
Ups == [of : Numbers, part : {"head", "body"}, auth : {"none", "probe", "answer"}]
Downs == [of : Numbers, part : {"head", "body"}, reply : Reply]

StreamTypes ==
    /\ cstream \in Seq(Items) /\ cgot \in Seq(Gots)
    /\ up \in Seq(Ups) /\ down \in Seq(Downs)

PlainTypes ==
    /\ reqs \in Seq(Request) /\ Len(reqs) <= MaxRequests
    /\ gone \in BOOLEAN
    /\ sd \in {"none", "open", "eof"}
    /\ host \in NoProxy \cup {"none"}
    /\ pc \in Label
    /\ cur \in 0 .. Len(reqs)
    /\ reply \in Reply
    /\ ret \in {"null", "request", "drop"}
    /\ keep_alive \in BOOLEAN /\ conn_alive \in BOOLEAN

LEMMA Typed == TypeOK <=> StreamTypes /\ PlainTypes
BY DEF TypeOK, StreamTypes, PlainTypes, Items, Gots, Ups, Downs

(* What a step of the thread does to a stream *)
Took(s, t) == t = s \/ (s # <<>> /\ t = Tail(s))
Put(S, s, t) == t = s \/ \E e \in S : t = Append(s, e)

LEMMA PutType == ASSUME NEW S, NEW s \in Seq(S), NEW t, Put(S, s, t) PROVE t \in Seq(S)
<1>1. CASE t = s
  BY <1>1
<1>2. ASSUME NEW e \in S, t = Append(s, e) PROVE t \in Seq(S)
  BY <1>2
<1> QED
  BY <1>1, <1>2 DEF Put

LEMMA StreamStep ==
    ASSUME Base, Took(cstream, cstream'), Put(Gots, cgot, cgot'),
           Put(Ups, up, up') \/ up' = <<>>, Took(down, down') \/ down' = <<>>
    PROVE  StreamTypes'
<1>1. StreamTypes
  BY Typed DEF Base
<1>2. \A S : <<>> \in Seq(S)
  OBVIOUS
<1>3. cstream' \in Seq(Items)
  BY <1>1, TailType DEF StreamTypes, Took
<1>4. cgot' \in Seq(Gots)
  BY <1>1, PutType DEF StreamTypes
<1>5. up' \in Seq(Ups)
  BY <1>1, <1>2, PutType DEF StreamTypes
<1>6. down' \in Seq(Downs)
  BY <1>1, <1>2, TailType DEF StreamTypes, Took
<1> QED
  BY <1>3, <1>4, <1>5, <1>6 DEF StreamTypes

LEMMA Written ==
    ASSUME Base, cur # 0
    PROVE  /\ NoReply \in Reply /\ Page \in Gots
           /\ \A r \in Reply, p \in {"head", "body"} : Sent(cur, p, r) \in Gots
           /\ \A p \in {"head", "body"}, a \in {"none", "probe", "answer"} :
                 ToServer(cur, p, a) \in Ups
           /\ down # <<>> => /\ Head(down) \in Downs /\ Head(down) \in Gots
                             /\ Head(down).reply \in Reply
           /\ cstream # <<>> => /\ Head(cstream) \in Items /\ Head(cstream).of \in 1 .. Len(reqs)
                             /\ Head(cstream).part \in {"head", "body"}
           /\ cur \in Numbers /\ reply \in Reply
<1>1. cur \in Numbers /\ reply \in Reply
  <2>1. reqs \in Seq(Request) /\ Len(reqs) <= MaxRequests /\ cur \in 0 .. Len(reqs)
        /\ reply \in Reply
    BY DEF Base, TypeOK
  <2>2. Len(reqs) \in Nat
    BY <2>1
  <2> QED
    BY <2>1, <2>2, ConstantsAssumption DEF Numbers
<1>2. NoReply \in Reply
  BY DEF NoReply, Reply
<1>3. down # <<>> => Head(down) \in Downs
  BY Typed, TailType DEF Base, StreamTypes
<1>4. cstream # <<>> => /\ Head(cstream) \in Items /\ Head(cstream) = cstream[1]
                        /\ 1 \in DOMAIN cstream
  BY Typed, TailType DEF Base, StreamTypes
<1>5. cstream # <<>> => Head(cstream).of \in 1 .. Len(reqs)
  BY <1>4 DEF Base, HostInv, Items, Numbers, TypeOK
<1> QED
  BY <1>1, <1>2, <1>3, <1>4, <1>5 DEF Items, Gots, Ups, Downs, Page, Sent, ToServer

LEMMA ParentReplies ==
    /\ \A kind : \A r \in ParentReply(kind) : r \in Reply /\ ~r.probe /\ r.framing = "none"
    /\ \A n : Sent(n, "head", NoReply).reply = NoReply
<1>1. NoReply \in Reply /\ ~NoReply.probe /\ NoReply.framing = "none"
  BY DEF NoReply, Reply
<1>2. Refusal \in Reply /\ ~Refusal.probe /\ Refusal.framing = "none"
  BY DEF Refusal, Reply
<1> QED
  BY <1>1, <1>2 DEF ParentReply, Sent

(* The requests under way to the server *)
UpHosts == \A i \in DOMAIN up : up[i].of <= Len(reqs) /\ reqs[up[i].of].host = host

LEMMA UpStep ==
    ASSUME Base, UNCHANGED reqs,
           \/ UNCHANGED <<up, host>>
           \/ up' = <<>>
           \/ /\ UNCHANGED host /\ cur # 0 /\ host = reqs[cur].host
              /\ \E p \in {"head", "body"}, a \in {"none", "probe", "answer"} :
                    up' = Append(up, ToServer(cur, p, a))
    PROVE  UpHosts'
<1>0. up \in Seq(Ups) /\ UpHosts /\ cur <= Len(reqs)
  BY Typed DEF Base, StreamTypes, UpHosts, HostInv, PlainTypes
<1>1. CASE UNCHANGED <<up, host>>
  BY <1>0, <1>1 DEF UpHosts
<1>2. CASE up' = <<>>
  BY <1>2 DEF UpHosts
<1>3. ASSUME UNCHANGED host, cur # 0, host = reqs[cur].host,
             NEW p \in {"head", "body"}, NEW a \in {"none", "probe", "answer"},
             up' = Append(up, ToServer(cur, p, a))
      PROVE  UpHosts'
  <2>1. ToServer(cur, p, a) \in Ups /\ ToServer(cur, p, a).of = cur
    BY <1>3, Written DEF ToServer
  <2> QED
    BY <1>0, <1>3, <2>1, AppendType DEF UpHosts
<1> QED
  BY <1>1, <1>2, <1>3


UnreadHosts == \A i \in DOMAIN cstream : cstream[i].of <= Len(reqs)

LEMMA CstreamStep ==
    ASSUME Base, UNCHANGED reqs, Took(cstream, cstream')
    PROVE  UnreadHosts'
<1>1. cstream \in Seq(Items) /\ UnreadHosts
  BY Typed DEF Base, StreamTypes, HostInv, UnreadHosts
<1>2. CASE cstream' = cstream
  BY <1>1, <1>2 DEF UnreadHosts
<1>3. CASE cstream # <<>> /\ cstream' = Tail(cstream)
  BY <1>1, <1>3, TailType DEF UnreadHosts
<1> QED
  BY <1>2, <1>3 DEF Took

LEMMA ReadBase == ASSUME Base, Read PROVE Base'
<1>1. CASE HeadReady(cstream) /\ cur' = Head(cstream).of /\ cstream' = Tail(cstream)
           /\ Goto("decide")
  <2>1. cstream \in Seq(Items) /\ cstream # <<>>
    BY <1>1 DEF HeadReady, Base, TypeOK, Items
  <2>2. /\ Tail(cstream) \in Seq(Items) /\ Head(cstream) \in Items
        /\ Head(cstream) = cstream[1] /\ 1 \in DOMAIN cstream
        /\ \A i \in DOMAIN Tail(cstream) :
              i + 1 \in DOMAIN cstream /\ Tail(cstream)[i] = cstream[i + 1]
    BY <2>1, TailType
  <2>3. cur' \in 1 .. Len(reqs)
    BY <1>1, <2>2 DEF Base, HostInv, Items, Numbers, TypeOK
  <2>4. TypeOK'
    BY <1>1, <2>2, <2>3 DEF Read, Base, TypeOK, Items, client, server, Goto, Label
  <2>5. ControlInv'
    BY <1>1, <2>3 DEF Read, Base, ControlInv, Goto, Served, client, Kind
  <2>6. HostInv'
    BY <1>1, <2>2 DEF Read, Base, HostInv, Direct, Goto, Served, client, server
  <2> QED
    BY <2>4, <2>5, <2>6 DEF Base
<1>2. CASE Goto("end") /\ UNCHANGED <<cur, cstream>>
  BY <1>2 DEF Read, Base, TypeOK, ControlInv, HostInv, Direct, Served, Goto, client, server,
     Label, Kind
<1> QED
  BY <1>1, <1>2 DEF Read

LEMMA DecideBase == ASSUME Base, Decide PROVE Base'
<1>1. cur # 0
  BY DEF Base, ControlInv, Decide
<1>2. StreamTypes'
  <2>1. Took(cstream, cstream')
    BY DEF Took, Decide, client, server, Goto
  <2>2. Put(Gots, cgot, cgot')
    BY <1>1, Written DEF Put, Decide, client, server, Goto
  <2>3. Put(Ups, up, up') \/ up' = <<>>
    BY <1>1, Written DEF Put, Decide, client, server, Goto
  <2>4. Took(down, down') \/ down' = <<>>
    BY DEF Took, Decide, client, server, Goto
  <2> QED
    BY <2>1, <2>2, <2>3, <2>4, StreamStep
<1>3. PlainTypes'
  <2>1. reqs \in Seq(Request) /\ cur \in 1 .. Len(reqs)
    BY <1>1 DEF Base, TypeOK
  <2>2. reqs[cur] \in Request
    BY <2>1
  <2>3. reqs[cur].keep \in BOOLEAN
    BY <2>2 DEF Request
  <2> QED
    BY <1>1, <2>3, Written DEF PlainTypes, TypeOK, Label, Base, Decide, client, server, Goto
<1>4. ControlInv'
  BY <1>1, Written DEF Base, TypeOK, ControlInv, HostInv, Served, Kind, HasBody,
                       Unannounced, Decide, client, server, Goto, NoProxyMatch
<1>5. UpHosts'
  BY <1>1, UpStep, Written DEF Base, HostInv, Direct, Served, Decide, client, server, Goto,
                               NoProxyMatch
<1>6. UnreadHosts'
  <2>1. Took(cstream, cstream') /\ UNCHANGED reqs
    BY DEF Took, Decide, client, server, Goto
  <2> QED
    BY <2>1, CstreamStep
<1>7. HostInv'
  BY <1>1, <1>5, <1>6, Written DEF UpHosts, UnreadHosts, Base, TypeOK, HostInv, ControlInv,
         Direct, Served, Decide, client, server, Goto, NoProxyMatch
<1> QED
  BY <1>2, <1>3, <1>4, <1>7 DEF Base, TypeOK, StreamTypes, PlainTypes, Items, Gots, Ups,
         Downs

LEMMA ForwardBase == ASSUME Base, Forward PROVE Base'
<1>1. cur # 0
  BY DEF Base, ControlInv, Forward
<1>2. StreamTypes'
  <2>1. Took(cstream, cstream')
    BY DEF Took, Forward, client, server, Goto, Write
  <2>2. Put(Gots, cgot, cgot')
    <3>1. Page \in Gots /\ \A r \in ParentReply(Kind(cur)) : Sent(cur, "head", r) \in Gots
      BY <1>1, Written, ParentReplies
    <3> QED
      BY <3>1 DEF Put, Forward, Write
  <2>3. Put(Ups, up, up') \/ up' = <<>>
    BY <1>1, Written DEF Put, Forward, client, server, Goto, Write
  <2>4. Took(down, down') \/ down' = <<>>
    BY DEF Took, Forward, client, server, Goto, Write
  <2> QED
    BY <2>1, <2>2, <2>3, <2>4, StreamStep
<1>3. PlainTypes'
  BY <1>1, Written DEF PlainTypes, TypeOK, Request, Label, Base, HostInv, Direct, Served,
                       Forward, client, server, Goto, Write, Kind
<1>4. ControlInv'
  BY <1>1, Written DEF Base, TypeOK, ControlInv, HostInv, Served, Kind, HasBody,
                       Unannounced, Forward, client, server, Goto, Write
<1>5. UpHosts'
  BY <1>1, UpStep, Written DEF Base, HostInv, Direct, Served, Forward, client, server, Goto,
                               Write, Kind
<1>6. UnreadHosts'
  <2>1. Took(cstream, cstream') /\ UNCHANGED reqs
    BY DEF Took, Forward, client, server, Goto, Write
  <2> QED
    BY <2>1, CstreamStep
<1>7. HostInv'
  BY <1>1, <1>5, <1>6, Written DEF UpHosts, UnreadHosts, Base, TypeOK, HostInv, ControlInv,
         Direct, Served, Forward, client, server, Goto, Write, Kind
<1> QED
  BY <1>2, <1>3, <1>4, <1>7 DEF Base, TypeOK, StreamTypes, PlainTypes, Items, Gots, Ups,
         Downs

LEMMA ForwardNextBase == ASSUME Base, ForwardNext PROVE Base'
<1>1. cur # 0
  BY DEF Base, ControlInv, ForwardNext
<1>2. StreamTypes'
  <2>1. Took(cstream, cstream')
    BY DEF Took, ForwardNext, client, server, Goto, HeadReady, HeadFails
  <2>2. Put(Gots, cgot, cgot')
    BY <1>1, Written DEF Put, ForwardNext, client, server, Goto, HeadReady, HeadFails
  <2>3. Put(Ups, up, up') \/ up' = <<>>
    BY <1>1, Written DEF Put, ForwardNext, client, server, Goto, HeadReady, HeadFails
  <2>4. Took(down, down') \/ down' = <<>>
    BY DEF Took, ForwardNext, client, server, Goto, HeadReady, HeadFails
  <2> QED
    BY <2>1, <2>2, <2>3, <2>4, StreamStep
<1>3. PlainTypes'
  BY <1>1, Written DEF PlainTypes, TypeOK, Request, Label, Base, HostInv, Direct, Served,
                       ForwardNext, client, server, Goto, SameHost, HeadReady, HeadFails
<1>4. ControlInv'
  BY <1>1, Written DEF Base, TypeOK, ControlInv, HostInv, Served, Kind, HasBody, Unannounced,
                       ForwardNext, client, server, Goto, SameHost, HeadReady, HeadFails
<1>5. UpHosts'
  BY <1>1, UpStep, Written DEF Base, HostInv, Direct, Served, ForwardNext, client, server,
                               Goto, SameHost, HeadReady, HeadFails
<1>6. UnreadHosts'
  <2>1. Took(cstream, cstream') /\ UNCHANGED reqs
    BY DEF Took, ForwardNext, client, server, Goto, HeadReady, HeadFails
  <2> QED
    BY <2>1, CstreamStep
<1>7. HostInv'
  BY <1>1, <1>5, <1>6, Written DEF UpHosts, UnreadHosts, Base, TypeOK, HostInv, ControlInv,
         Direct, Served, ForwardNext, client, server, Goto, SameHost, HeadReady, HeadFails
<1> QED
  BY <1>2, <1>3, <1>4, <1>7 DEF Base, TypeOK, StreamTypes, PlainTypes, Items, Gots, Ups,
         Downs

LEMMA ReturnedBase == ASSUME Base, Returned PROVE Base'
<1>1. cur # 0
  BY DEF Base, ControlInv, Returned
<1>2. StreamTypes'
  <2>1. Took(cstream, cstream')
    BY DEF Took, Returned, client, server, locals, Goto
  <2>2. Put(Gots, cgot, cgot')
    BY <1>1, Written DEF Put, Returned, client, server, locals, Goto
  <2>3. Put(Ups, up, up') \/ up' = <<>>
    BY <1>1, Written DEF Put, Returned, client, server, locals, Goto
  <2>4. Took(down, down') \/ down' = <<>>
    BY DEF Took, Returned, client, server, locals, Goto
  <2> QED
    BY <2>1, <2>2, <2>3, <2>4, StreamStep
<1>3. PlainTypes'
  BY <1>1, Written DEF PlainTypes, TypeOK, Request, Label, Base, HostInv, Direct, Served,
                       Returned, client, server, locals, Goto
<1>4. ControlInv'
  BY <1>1, Written DEF Base, TypeOK, ControlInv, HostInv, Served, Kind, HasBody,
                       Unannounced, Returned, client, server, locals, Goto
<1>5. UpHosts'
  BY <1>1, UpStep, Written DEF Base, HostInv, Direct, Served, Returned, client, server,
                               locals, Goto
<1>6. UnreadHosts'
  <2>1. Took(cstream, cstream') /\ UNCHANGED reqs
    BY DEF Took, Returned, client, server, locals, Goto
  <2> QED
    BY <2>1, CstreamStep
<1>7. HostInv'
  BY <1>1, <1>5, <1>6, Written DEF UpHosts, UnreadHosts, Base, TypeOK, HostInv, ControlInv,
         Direct, Served, Returned, client, server, locals, Goto
<1> QED
  BY <1>2, <1>3, <1>4, <1>7 DEF Base, TypeOK, StreamTypes, PlainTypes, Items, Gots, Ups,
         Downs

LEMMA ConnectBase == ASSUME Base, Connect PROVE Base'
<1>1. cur # 0
  BY DEF Base, ControlInv, Connect
<1>2. StreamTypes'
  <2>1. Took(cstream, cstream')
    BY DEF Took, Connect, client, Goto, Write, Drop, PageAndDrop, Connected, NotConnected,
           Begin
  <2>2. Put(Gots, cgot, cgot')
    BY <1>1, Written DEF Put, Connect, client, Goto, Write, Drop, PageAndDrop, Connected,
                         NotConnected, Begin
  <2>3. Put(Ups, up, up') \/ up' = <<>>
    BY <1>1, Written DEF Put, Connect, client, Goto, Write, Drop, PageAndDrop, Connected,
                         NotConnected, Begin
  <2>4. Took(down, down') \/ down' = <<>>
    BY DEF Took, Connect, client, Goto, Write, Drop, PageAndDrop, Connected, NotConnected,
           Begin
  <2> QED
    BY <2>1, <2>2, <2>3, <2>4, StreamStep
<1>3. PlainTypes'
  BY <1>1, Written DEF PlainTypes, TypeOK, Request, Label, Base, HostInv, Direct, Served,
                       Connect, client, Goto, Write, Drop, PageAndDrop, Connected,
                       NotConnected, Begin, Kind
<1>4. ControlInv'
  BY <1>1, Written DEF Base, TypeOK, ControlInv, HostInv, Served, Kind, HasBody,
                       Unannounced, Connect, client, Goto, Write, Drop, PageAndDrop,
                       Connected, NotConnected, Begin
<1>5. UpHosts'
  BY <1>1, UpStep, Written DEF Base, HostInv, Direct, Served, Connect, client, Goto, Write,
                               Drop, PageAndDrop, Connected, NotConnected, Begin, Kind
<1>6. UnreadHosts'
  <2>1. Took(cstream, cstream') /\ UNCHANGED reqs
    BY DEF Took, Connect, client, Goto, Write, Drop, PageAndDrop, Connected, NotConnected,
           Begin
  <2> QED
    BY <2>1, CstreamStep
<1>7. HostInv'
  BY <1>1, <1>5, <1>6, Written DEF UpHosts, UnreadHosts, Base, TypeOK, HostInv, ControlInv,
         Direct, Served, Connect, client, Goto, Write, Drop, PageAndDrop, Connected,
         NotConnected, Begin, Kind
<1> QED
  BY <1>2, <1>3, <1>4, <1>7 DEF Base, TypeOK, StreamTypes, PlainTypes, Items, Gots, Ups,
         Downs

LEMMA EstablishedBase == ASSUME Base, Established PROVE Base'
<1>1. cur # 0
  BY DEF Base, ControlInv, Established
<1>2. StreamTypes'
  <2>1. Took(cstream, cstream')
    BY DEF Took, Established, client, server, Goto, Write, Drop
  <2>2. Put(Gots, cgot, cgot')
    BY <1>1, Written DEF Put, Established, client, server, Goto, Write, Drop
  <2>3. Put(Ups, up, up') \/ up' = <<>>
    BY <1>1, Written DEF Put, Established, client, server, Goto, Write, Drop
  <2>4. Took(down, down') \/ down' = <<>>
    BY DEF Took, Established, client, server, Goto, Write, Drop
  <2> QED
    BY <2>1, <2>2, <2>3, <2>4, StreamStep
<1>3. PlainTypes'
  BY <1>1, Written DEF PlainTypes, TypeOK, Request, Label, Base, HostInv, Direct, Served,
                       Established, client, server, Goto, Write, Drop, ClientClosed
<1>4. ControlInv'
  BY <1>1, Written DEF Base, TypeOK, ControlInv, HostInv, Served, Kind, HasBody, Unannounced,
                       Established, client, server, Goto, Write, Drop, ClientClosed
<1>5. UpHosts'
  BY <1>1, UpStep, Written DEF Base, HostInv, Direct, Served, Established, client, server,
                               Goto, Write, Drop, ClientClosed
<1>6. UnreadHosts'
  <2>1. Took(cstream, cstream') /\ UNCHANGED reqs
    BY DEF Took, Established, client, server, Goto, Write, Drop
  <2> QED
    BY <2>1, CstreamStep
<1>7. HostInv'
  BY <1>1, <1>5, <1>6, Written DEF UpHosts, UnreadHosts, Base, TypeOK, HostInv, ControlInv,
         Direct, Served, Established, client, server, Goto, Write, Drop, ClientClosed
<1> QED
  BY <1>2, <1>3, <1>4, <1>7 DEF Base, TypeOK, StreamTypes, PlainTypes, Items, Gots, Ups,
         Downs

LEMMA TunnelBase == ASSUME Base, Tunnel PROVE Base'
<1>1. cur # 0
  BY DEF Base, ControlInv, Tunnel
<1>2. StreamTypes'
  <2>1. Took(cstream, cstream')
    BY DEF Took, Tunnel, client, Goto, Write, Drop
  <2>2. Put(Gots, cgot, cgot')
    BY <1>1, Written DEF Put, Tunnel, Data, client, Goto, Write, Drop
  <2>3. Put(Ups, up, up') \/ up' = <<>>
    BY <1>1, Written DEF Put, Tunnel, client, Goto, Write, Drop
  <2>4. Took(down, down') \/ down' = <<>>
    BY DEF Took, Tunnel, client, Goto, Write, Drop
  <2> QED
    BY <2>1, <2>2, <2>3, <2>4, StreamStep
<1>3. PlainTypes'
  BY <1>1, Written DEF PlainTypes, TypeOK, Request, Label, Base, HostInv, Direct, Served,
                       Tunnel, client, Goto, Write, Drop, ClientClosed, ServerClosed
<1>4. ControlInv'
  BY <1>1, Written DEF Base, TypeOK, ControlInv, HostInv, Served, Kind, HasBody,
                       Unannounced, Tunnel, client, Goto, Write, Drop, ClientClosed,
                       ServerClosed
<1>5. UpHosts'
  BY <1>1, UpStep, Written DEF Base, HostInv, Direct, Served, Tunnel, client, Goto, Write,
                               Drop, ClientClosed, ServerClosed
<1>6. UnreadHosts'
  <2>1. Took(cstream, cstream') /\ UNCHANGED reqs
    BY DEF Took, Tunnel, client, Goto, Write, Drop
  <2> QED
    BY <2>1, CstreamStep
<1>7. HostInv'
  BY <1>1, <1>5, <1>6, Written DEF UpHosts, UnreadHosts, Base, TypeOK, HostInv, ControlInv,
         Direct, Served, Tunnel, client, Goto, Write, Drop, ClientClosed, ServerClosed
<1> QED
  BY <1>2, <1>3, <1>4, <1>7 DEF Base, TypeOK, StreamTypes, PlainTypes, Items, Gots, Ups,
         Downs

LEMMA SendHeadBase == ASSUME Base, SendHead PROVE Base'
<1>1. cur # 0
  BY DEF Base, ControlInv, SendHead
<1>2. StreamTypes'
  <2>1. Took(cstream, cstream')
    BY DEF Took, SendHead, client, Goto, Drop
  <2>2. Put(Gots, cgot, cgot')
    BY <1>1, Written DEF Put, SendHead, client, Goto, Drop
  <2>3. Put(Ups, up, up') \/ up' = <<>>
    BY <1>1, Written DEF Put, SendHead, client, Goto, Drop
  <2>4. Took(down, down') \/ down' = <<>>
    BY DEF Took, SendHead, client, Goto, Drop
  <2> QED
    BY <2>1, <2>2, <2>3, <2>4, StreamStep
<1>3. PlainTypes'
  BY <1>1, Written DEF PlainTypes, TypeOK, Request, Label, Base, HostInv, Direct, Served,
                       SendHead, client, Goto, Drop, ServerClosed
<1>4. ControlInv'
  BY <1>1, Written DEF Base, TypeOK, ControlInv, HostInv, Served, Kind, HasBody,
                       Unannounced, SendHead, client, Goto, Drop, ServerClosed
<1>5. UpHosts'
  BY <1>1, UpStep, Written DEF Base, HostInv, Direct, Served, SendHead, client, Goto, Drop,
                               ServerClosed
<1>6. UnreadHosts'
  <2>1. Took(cstream, cstream') /\ UNCHANGED reqs
    BY DEF Took, SendHead, client, Goto, Drop
  <2> QED
    BY <2>1, CstreamStep
<1>7. HostInv'
  BY <1>1, <1>5, <1>6, Written DEF UpHosts, UnreadHosts, Base, TypeOK, HostInv, ControlInv,
         Direct, Served, SendHead, client, Goto, Drop, ServerClosed
<1> QED
  BY <1>2, <1>3, <1>4, <1>7 DEF Base, TypeOK, StreamTypes, PlainTypes, Items, Gots, Ups,
         Downs

LEMMA SendBodyBase == ASSUME Base, SendBody PROVE Base'
<1>1. cur # 0
  BY DEF Base, ControlInv, SendBody
<1>2. StreamTypes'
  <2>1. Took(cstream, cstream')
    BY DEF Took, SendBody, client, Goto, Drop
  <2>2. Put(Gots, cgot, cgot')
    BY <1>1, Written DEF Put, SendBody, client, Goto, Drop
  <2>3. Put(Ups, up, up') \/ up' = <<>>
    BY <1>1, Written DEF Put, SendBody, client, Goto, Drop
  <2>4. Took(down, down') \/ down' = <<>>
    BY DEF Took, SendBody, client, Goto, Drop
  <2> QED
    BY <2>1, <2>2, <2>3, <2>4, StreamStep
<1>3. PlainTypes'
  BY <1>1, Written DEF PlainTypes, TypeOK, Request, Label, Base, HostInv, Direct, Served,
                       SendBody, client, Goto, Drop, Kind, ClientClosed, ServerClosed
<1>4. ControlInv'
  BY <1>1, Written DEF Base, TypeOK, ControlInv, HostInv, Served, Kind, HasBody,
                       Unannounced, SendBody, client, Goto, Drop, ClientClosed, ServerClosed
<1>5. UpHosts'
  BY <1>1, UpStep, Written DEF Base, HostInv, Direct, Served, SendBody, client, Goto, Drop,
                               Kind, ClientClosed, ServerClosed
<1>6. UnreadHosts'
  <2>1. Took(cstream, cstream') /\ UNCHANGED reqs
    BY DEF Took, SendBody, client, Goto, Drop
  <2> QED
    BY <2>1, CstreamStep
<1>7. HostInv'
  BY <1>1, <1>5, <1>6, Written DEF UpHosts, UnreadHosts, Base, TypeOK, HostInv, ControlInv,
         Direct, Served, SendBody, client, Goto, Drop, Kind, ClientClosed, ServerClosed
<1> QED
  BY <1>2, <1>3, <1>4, <1>7 DEF Base, TypeOK, StreamTypes, PlainTypes, Items, Gots, Ups,
         Downs

LEMMA ReceiveBase == ASSUME Base, Receive PROVE Base'
<1>1. cur # 0
  BY DEF Base, ControlInv, Receive
<1>2. StreamTypes'
  <2>1. Took(cstream, cstream')
    BY DEF Took, Receive, client, Goto, Drop, HeadReady, HeadFails
  <2>2. Put(Gots, cgot, cgot')
    BY <1>1, Written DEF Put, Receive, client, Goto, Drop, HeadReady, HeadFails
  <2>3. Put(Ups, up, up') \/ up' = <<>>
    BY <1>1, Written DEF Put, Receive, client, Goto, Drop, HeadReady, HeadFails
  <2>4. Took(down, down') \/ down' = <<>>
    BY DEF Took, Receive, client, Goto, Drop, HeadReady, HeadFails
  <2> QED
    BY <2>1, <2>2, <2>3, <2>4, StreamStep
<1>3. PlainTypes'
  BY <1>1, Written DEF PlainTypes, TypeOK, Request, Label, Base, HostInv, Direct, Served,
                       Receive, client, Goto, Drop, HeadReady, HeadFails
<1>4. ControlInv'
  BY <1>1, Written DEF Base, TypeOK, ControlInv, HostInv, Served, Kind, HasBody,
                       Unannounced, Receive, client, Goto, Drop, HeadReady, HeadFails
<1>5. UpHosts'
  BY <1>1, UpStep, Written DEF Base, HostInv, Direct, Served, Receive, client, Goto, Drop,
                               HeadReady, HeadFails
<1>6. UnreadHosts'
  <2>1. Took(cstream, cstream') /\ UNCHANGED reqs
    BY DEF Took, Receive, client, Goto, Drop, HeadReady, HeadFails
  <2> QED
    BY <2>1, CstreamStep
<1>7. HostInv'
  BY <1>1, <1>5, <1>6, Written DEF UpHosts, UnreadHosts, Base, TypeOK, HostInv, ControlInv,
         Direct, Served, Receive, client, Goto, Drop, HeadReady, HeadFails
<1> QED
  BY <1>2, <1>3, <1>4, <1>7 DEF Base, TypeOK, StreamTypes, PlainTypes, Items, Gots, Ups,
         Downs

LEMMA UnauthorizedBase == ASSUME Base, Unauthorized PROVE Base'
<1>1. cur # 0
  BY DEF Base, ControlInv, Unauthorized
<1>2. StreamTypes'
  <2>1. Took(cstream, cstream')
    BY DEF Took, Unauthorized, client, server, Goto, Write, Drop, PageAndDrop, Connected,
           NotConnected
  <2>2. Put(Gots, cgot, cgot')
    BY <1>1, Written DEF Put, Unauthorized, client, server, Goto, Write, Drop, PageAndDrop,
                         Connected, NotConnected
  <2>3. Put(Ups, up, up') \/ up' = <<>>
    BY <1>1, Written DEF Put, Unauthorized, client, server, Goto, Write, Drop, PageAndDrop,
                         Connected, NotConnected
  <2>4. Took(down, down') \/ down' = <<>>
    BY DEF Took, Unauthorized, client, server, Goto, Write, Drop, PageAndDrop, Connected,
           NotConnected
  <2> QED
    BY <2>1, <2>2, <2>3, <2>4, StreamStep
<1>3. PlainTypes'
  BY <1>1, Written DEF PlainTypes, TypeOK, Request, Label, Base, HostInv, Direct, Served,
                       Unauthorized, client, server, Goto, Write, Drop, PageAndDrop,
                       Connected, NotConnected
<1>4. ControlInv'
  BY <1>1, Written DEF Base, TypeOK, ControlInv, HostInv, Served, Kind, HasBody, Unannounced,
                       Unauthorized, client, server, Goto, Write, Drop, PageAndDrop,
                       Connected, NotConnected
<1>5. UpHosts'
  BY <1>1, UpStep, Written DEF Base, HostInv, Direct, Served, Unauthorized, client, server,
                               Goto, Write, Drop, PageAndDrop, Connected, NotConnected
<1>6. UnreadHosts'
  <2>1. Took(cstream, cstream') /\ UNCHANGED reqs
    BY DEF Took, Unauthorized, client, server, Goto, Write, Drop, PageAndDrop, Connected,
           NotConnected
  <2> QED
    BY <2>1, CstreamStep
<1>7. HostInv'
  BY <1>1, <1>5, <1>6, Written DEF UpHosts, UnreadHosts, Base, TypeOK, HostInv, ControlInv,
         Direct, Served, Unauthorized, client, server, Goto, Write, Drop, PageAndDrop,
         Connected, NotConnected
<1> QED
  BY <1>2, <1>3, <1>4, <1>7 DEF Base, TypeOK, StreamTypes, PlainTypes, Items, Gots, Ups,
         Downs

LEMMA AuthDropBase == ASSUME Base, AuthDrop PROVE Base'
<1>1. cur # 0
  BY DEF Base, ControlInv, AuthDrop, AuthRead, AuthSend
<1>2. StreamTypes'
  <2>1. Took(cstream, cstream')
    BY DEF Took, AuthDrop, client, Goto, Write, Drop, PageAndDrop, Dropped
  <2>2. Put(Gots, cgot, cgot')
    BY <1>1, Written DEF Put, AuthDrop, client, Goto, Write, Drop, PageAndDrop, Dropped
  <2>3. Put(Ups, up, up') \/ up' = <<>>
    BY <1>1, Written DEF Put, AuthDrop, client, Goto, Write, Drop, PageAndDrop, Dropped
  <2>4. Took(down, down') \/ down' = <<>>
    BY DEF Took, AuthDrop, client, Goto, Write, Drop, PageAndDrop, Dropped
  <2> QED
    BY <2>1, <2>2, <2>3, <2>4, StreamStep
<1>3. PlainTypes'
  BY <1>1, Written DEF PlainTypes, TypeOK, Request, Label, Base, HostInv, Direct, Served,
                       AuthDrop, client, Goto, Write, Drop, PageAndDrop, Dropped,
                       ServerClosed
<1>4. ControlInv'
  BY <1>1, Written DEF Base, TypeOK, ControlInv, HostInv, Served, Kind, HasBody,
                       Unannounced, AuthDrop, client, Goto, Write, Drop, PageAndDrop,
                       Dropped, ServerClosed
<1>5. UpHosts'
  BY <1>1, UpStep, Written DEF Base, HostInv, Direct, Served, AuthDrop, client, Goto, Write,
                               Drop, PageAndDrop, Dropped, ServerClosed
<1>6. UnreadHosts'
  <2>1. Took(cstream, cstream') /\ UNCHANGED reqs
    BY DEF Took, AuthDrop, client, Goto, Write, Drop, PageAndDrop, Dropped
  <2> QED
    BY <2>1, CstreamStep
<1>7. HostInv'
  BY <1>1, <1>5, <1>6, Written DEF UpHosts, UnreadHosts, Base, TypeOK, HostInv, ControlInv,
         Direct, Served, AuthDrop, client, Goto, Write, Drop, PageAndDrop, Dropped,
         ServerClosed
<1> QED
  BY <1>2, <1>3, <1>4, <1>7 DEF Base, TypeOK, StreamTypes, PlainTypes, Items, Gots, Ups,
         Downs

LEMMA AuthProbeBase == ASSUME Base, AuthProbe PROVE Base'
<1>1. cur # 0
  BY DEF Base, ControlInv, AuthProbe, AuthRead, AuthSend
<1>2. StreamTypes'
  <2>1. Took(cstream, cstream')
    BY DEF Took, AuthProbe, client, Goto, Write, Drop, PageAndDrop, AuthSend
  <2>2. Put(Gots, cgot, cgot')
    BY <1>1, Written DEF Put, AuthProbe, client, Goto, Write, Drop, PageAndDrop, AuthSend
  <2>3. Put(Ups, up, up') \/ up' = <<>>
    BY <1>1, Written DEF Put, AuthProbe, client, Goto, Write, Drop, PageAndDrop, AuthSend
  <2>4. Took(down, down') \/ down' = <<>>
    BY DEF Took, AuthProbe, client, Goto, Write, Drop, PageAndDrop, AuthSend
  <2> QED
    BY <2>1, <2>2, <2>3, <2>4, StreamStep
<1>3. PlainTypes'
  BY <1>1, Written DEF PlainTypes, TypeOK, Request, Label, Base, HostInv, Direct, Served,
                       AuthProbe, client, Goto, Write, Drop, PageAndDrop, AuthSend,
                       ServerClosed
<1>4. ControlInv'
  BY <1>1, Written DEF Base, TypeOK, ControlInv, HostInv, Served, Kind, HasBody,
                       Unannounced, AuthProbe, client, Goto, Write, Drop, PageAndDrop,
                       AuthSend, ServerClosed
<1>5. UpHosts'
  BY <1>1, UpStep, Written DEF Base, HostInv, Direct, Served, AuthProbe, client, Goto,
                               Write, Drop, PageAndDrop, AuthSend, ServerClosed
<1>6. UnreadHosts'
  <2>1. Took(cstream, cstream') /\ UNCHANGED reqs
    BY DEF Took, AuthProbe, client, Goto, Write, Drop, PageAndDrop, AuthSend
  <2> QED
    BY <2>1, CstreamStep
<1>7. HostInv'
  BY <1>1, <1>5, <1>6, Written DEF UpHosts, UnreadHosts, Base, TypeOK, HostInv, ControlInv,
         Direct, Served, AuthProbe, client, Goto, Write, Drop, PageAndDrop, AuthSend,
         ServerClosed
<1> QED
  BY <1>2, <1>3, <1>4, <1>7 DEF Base, TypeOK, StreamTypes, PlainTypes, Items, Gots, Ups,
         Downs

LEMMA AuthReceiveBase == ASSUME Base, AuthReceive PROVE Base'
<1>1. cur # 0
  BY DEF Base, ControlInv, AuthReceive, AuthRead, AuthSend
<1>2. StreamTypes'
  <2>1. Took(cstream, cstream')
    BY DEF Took, AuthReceive, client, Goto, Write, Drop, PageAndDrop, AuthRead, HeadReady,
           HeadFails
  <2>2. Put(Gots, cgot, cgot')
    BY <1>1, Written DEF Put, AuthReceive, client, Goto, Write, Drop, PageAndDrop, AuthRead,
                         HeadReady, HeadFails
  <2>3. Put(Ups, up, up') \/ up' = <<>>
    BY <1>1, Written DEF Put, AuthReceive, client, Goto, Write, Drop, PageAndDrop, AuthRead,
                         HeadReady, HeadFails
  <2>4. Took(down, down') \/ down' = <<>>
    BY DEF Took, AuthReceive, client, Goto, Write, Drop, PageAndDrop, AuthRead, HeadReady,
           HeadFails
  <2> QED
    BY <2>1, <2>2, <2>3, <2>4, StreamStep
<1>3. PlainTypes'
  BY <1>1, Written DEF PlainTypes, TypeOK, Request, Label, Base, HostInv, Direct, Served,
                       AuthReceive, client, Goto, Write, Drop, PageAndDrop, AuthRead,
                       HeadReady, HeadFails
<1>4. ControlInv'
  BY <1>1, Written DEF Base, TypeOK, ControlInv, HostInv, Served, Kind, HasBody, Unannounced,
                       AuthReceive, client, Goto, Write, Drop, PageAndDrop, AuthRead,
                       HeadReady, HeadFails
<1>5. UpHosts'
  BY <1>1, UpStep, Written DEF Base, HostInv, Direct, Served, AuthReceive, client, Goto,
                               Write, Drop, PageAndDrop, AuthRead, HeadReady, HeadFails
<1>6. UnreadHosts'
  <2>1. Took(cstream, cstream') /\ UNCHANGED reqs
    BY DEF Took, AuthReceive, client, Goto, Write, Drop, PageAndDrop, AuthRead, HeadReady,
           HeadFails
  <2> QED
    BY <2>1, CstreamStep
<1>7. HostInv'
  BY <1>1, <1>5, <1>6, Written DEF UpHosts, UnreadHosts, Base, TypeOK, HostInv, ControlInv,
         Direct, Served, AuthReceive, client, Goto, Write, Drop, PageAndDrop, AuthRead,
         HeadReady, HeadFails
<1> QED
  BY <1>2, <1>3, <1>4, <1>7 DEF Base, TypeOK, StreamTypes, PlainTypes, Items, Gots, Ups,
         Downs

LEMMA AuthChallengeBase == ASSUME Base, AuthChallenge PROVE Base'
<1>1. cur # 0
  BY DEF Base, ControlInv, AuthChallenge, AuthRead, AuthSend
<1>2. StreamTypes'
  <2>1. Took(cstream, cstream')
    BY DEF Took, AuthChallenge, client, Goto, Write, Drop, PageAndDrop, Dropped
  <2>2. Put(Gots, cgot, cgot')
    BY <1>1, Written DEF Put, AuthChallenge, client, Goto, Write, Drop, PageAndDrop, Dropped
  <2>3. Put(Ups, up, up') \/ up' = <<>>
    BY <1>1, Written DEF Put, AuthChallenge, client, Goto, Write, Drop, PageAndDrop, Dropped
  <2>4. Took(down, down') \/ down' = <<>>
    BY DEF Took, AuthChallenge, client, Goto, Write, Drop, PageAndDrop, Dropped
  <2> QED
    BY <2>1, <2>2, <2>3, <2>4, StreamStep
<1>3. PlainTypes'
  BY <1>1, Written DEF PlainTypes, TypeOK, Request, Label, Base, HostInv, Direct, Served,
                       AuthChallenge, client, Goto, Write, Drop, PageAndDrop, Dropped,
                       ServerClosed
<1>4. ControlInv'
  BY <1>1, Written DEF Base, TypeOK, ControlInv, HostInv, Served, Kind, HasBody, Unannounced,
                       AuthChallenge, client, Goto, Write, Drop, PageAndDrop, Dropped,
                       ServerClosed
<1>5. UpHosts'
  BY <1>1, UpStep, Written DEF Base, HostInv, Direct, Served, AuthChallenge, client, Goto,
                               Write, Drop, PageAndDrop, Dropped, ServerClosed
<1>6. UnreadHosts'
  <2>1. Took(cstream, cstream') /\ UNCHANGED reqs
    BY DEF Took, AuthChallenge, client, Goto, Write, Drop, PageAndDrop, Dropped
  <2> QED
    BY <2>1, CstreamStep
<1>7. HostInv'
  BY <1>1, <1>5, <1>6, Written DEF UpHosts, UnreadHosts, Base, TypeOK, HostInv, ControlInv,
         Direct, Served, AuthChallenge, client, Goto, Write, Drop, PageAndDrop, Dropped,
         ServerClosed
<1> QED
  BY <1>2, <1>3, <1>4, <1>7 DEF Base, TypeOK, StreamTypes, PlainTypes, Items, Gots, Ups,
         Downs

LEMMA AuthAnswerBase == ASSUME Base, AuthAnswer PROVE Base'
<1>1. cur # 0
  BY DEF Base, ControlInv, AuthAnswer, AuthRead, AuthSend
<1>2. StreamTypes'
  <2>1. Took(cstream, cstream')
    BY DEF Took, AuthAnswer, client, server, Goto, Write, Drop, PageAndDrop, AuthSend
  <2>2. Put(Gots, cgot, cgot')
    BY <1>1, Written DEF Put, AuthAnswer, client, server, Goto, Write, Drop, PageAndDrop,
                         AuthSend
  <2>3. Put(Ups, up, up') \/ up' = <<>>
    BY <1>1, Written DEF Put, AuthAnswer, client, server, Goto, Write, Drop, PageAndDrop,
                         AuthSend
  <2>4. Took(down, down') \/ down' = <<>>
    BY DEF Took, AuthAnswer, client, server, Goto, Write, Drop, PageAndDrop, AuthSend
  <2> QED
    BY <2>1, <2>2, <2>3, <2>4, StreamStep
<1>3. PlainTypes'
  BY <1>1, Written DEF PlainTypes, TypeOK, Request, Label, Base, HostInv, Direct, Served,
                       AuthAnswer, client, server, Goto, Write, Drop, PageAndDrop, AuthSend,
                       ServerClosed
<1>4. ControlInv'
  BY <1>1, Written DEF Base, TypeOK, ControlInv, HostInv, Served, Kind, HasBody,
                       Unannounced, AuthAnswer, client, server, Goto, Write, Drop,
                       PageAndDrop, AuthSend, ServerClosed
<1>5. UpHosts'
  BY <1>1, UpStep, Written DEF Base, HostInv, Direct, Served, AuthAnswer, client, server,
                               Goto, Write, Drop, PageAndDrop, AuthSend, ServerClosed
<1>6. UnreadHosts'
  <2>1. Took(cstream, cstream') /\ UNCHANGED reqs
    BY DEF Took, AuthAnswer, client, server, Goto, Write, Drop, PageAndDrop, AuthSend
  <2> QED
    BY <2>1, CstreamStep
<1>7. HostInv'
  BY <1>1, <1>5, <1>6, Written DEF UpHosts, UnreadHosts, Base, TypeOK, HostInv, ControlInv,
         Direct, Served, AuthAnswer, client, server, Goto, Write, Drop, PageAndDrop,
         AuthSend, ServerClosed
<1> QED
  BY <1>2, <1>3, <1>4, <1>7 DEF Base, TypeOK, StreamTypes, PlainTypes, Items, Gots, Ups,
         Downs

LEMMA AuthFinalBase == ASSUME Base, AuthFinal PROVE Base'
<1>1. cur # 0
  BY DEF Base, ControlInv, AuthFinal, AuthRead, AuthSend
<1>2. StreamTypes'
  <2>1. Took(cstream, cstream')
    BY DEF Took, AuthFinal, client, Goto, Write, Drop, PageAndDrop, AuthRead, HeadReady,
           HeadFails
  <2>2. Put(Gots, cgot, cgot')
    BY <1>1, Written DEF Put, AuthFinal, client, Goto, Write, Drop, PageAndDrop, AuthRead,
                         HeadReady, HeadFails
  <2>3. Put(Ups, up, up') \/ up' = <<>>
    BY <1>1, Written DEF Put, AuthFinal, client, Goto, Write, Drop, PageAndDrop, AuthRead,
                         HeadReady, HeadFails
  <2>4. Took(down, down') \/ down' = <<>>
    BY DEF Took, AuthFinal, client, Goto, Write, Drop, PageAndDrop, AuthRead, HeadReady,
           HeadFails
  <2> QED
    BY <2>1, <2>2, <2>3, <2>4, StreamStep
<1>3. PlainTypes'
  BY <1>1, Written DEF PlainTypes, TypeOK, Request, Label, Base, HostInv, Direct, Served,
                       AuthFinal, client, Goto, Write, Drop, PageAndDrop, AuthRead,
                       HeadReady, HeadFails
<1>4. ControlInv'
  BY <1>1, Written DEF Base, TypeOK, ControlInv, HostInv, Served, Kind, HasBody,
                       Unannounced, AuthFinal, client, Goto, Write, Drop, PageAndDrop,
                       AuthRead, HeadReady, HeadFails
<1>5. UpHosts'
  BY <1>1, UpStep, Written DEF Base, HostInv, Direct, Served, AuthFinal, client, Goto,
                               Write, Drop, PageAndDrop, AuthRead, HeadReady, HeadFails
<1>6. UnreadHosts'
  <2>1. Took(cstream, cstream') /\ UNCHANGED reqs
    BY DEF Took, AuthFinal, client, Goto, Write, Drop, PageAndDrop, AuthRead, HeadReady,
           HeadFails
  <2> QED
    BY <2>1, CstreamStep
<1>7. HostInv'
  BY <1>1, <1>5, <1>6, Written DEF UpHosts, UnreadHosts, Base, TypeOK, HostInv, ControlInv,
         Direct, Served, AuthFinal, client, Goto, Write, Drop, PageAndDrop, AuthRead,
         HeadReady, HeadFails
<1> QED
  BY <1>2, <1>3, <1>4, <1>7 DEF Base, TypeOK, StreamTypes, PlainTypes, Items, Gots, Ups,
         Downs

LEMMA RespondBase == ASSUME Base, Respond PROVE Base'
<1>1. cur # 0
  BY DEF Base, ControlInv, Respond
<1>2. StreamTypes'
  <2>1. Took(cstream, cstream')
    BY DEF Took, Respond, client, server, Goto, Write, Drop
  <2>2. Put(Gots, cgot, cgot')
    BY <1>1, Written DEF Put, Respond, client, server, Goto, Write, Drop
  <2>3. Put(Ups, up, up') \/ up' = <<>>
    BY <1>1, Written DEF Put, Respond, client, server, Goto, Write, Drop
  <2>4. Took(down, down') \/ down' = <<>>
    BY DEF Took, Respond, client, server, Goto, Write, Drop
  <2> QED
    BY <2>1, <2>2, <2>3, <2>4, StreamStep
<1>3. PlainTypes'
  BY <1>1, Written DEF PlainTypes, TypeOK, Request, Label, Base, HostInv, Direct, Served,
                       Respond, client, server, Goto, Write, Drop, HasBody, Unannounced, Kind,
                       ClientClosed
<1>4. ControlInv'
  BY <1>1, Written DEF Base, TypeOK, ControlInv, HostInv, Served, Kind, HasBody,
                       Unannounced, Respond, client, server, Goto, Write, Drop, ClientClosed
<1>5. UpHosts'
  BY <1>1, UpStep, Written DEF Base, HostInv, Direct, Served, Respond, client, server, Goto,
                               Write, Drop, HasBody, Unannounced, Kind, ClientClosed
<1>6. UnreadHosts'
  <2>1. Took(cstream, cstream') /\ UNCHANGED reqs
    BY DEF Took, Respond, client, server, Goto, Write, Drop
  <2> QED
    BY <2>1, CstreamStep
<1>7. HostInv'
  BY <1>1, <1>5, <1>6, Written DEF UpHosts, UnreadHosts, Base, TypeOK, HostInv, ControlInv,
         Direct, Served, Respond, client, server, Goto, Write, Drop, HasBody, Unannounced, Kind,
         ClientClosed
<1> QED
  BY <1>2, <1>3, <1>4, <1>7 DEF Base, TypeOK, StreamTypes, PlainTypes, Items, Gots, Ups,
         Downs

LEMMA BodyBase == ASSUME Base, Body PROVE Base'
<1>1. cur # 0
  BY DEF Base, ControlInv, Body
<1>2. StreamTypes'
  <2>1. Took(cstream, cstream')
    BY DEF Took, Body, client, Goto, Write, Drop, BodySend
  <2>2. Put(Gots, cgot, cgot')
    BY <1>1, Written DEF Put, Body, client, Goto, Write, Drop, BodySend
  <2>3. Put(Ups, up, up') \/ up' = <<>>
    BY <1>1, Written DEF Put, Body, client, Goto, Write, Drop, BodySend
  <2>4. Took(down, down') \/ down' = <<>>
    BY DEF Took, Body, client, Goto, Write, Drop, BodySend
  <2> QED
    BY <2>1, <2>2, <2>3, <2>4, StreamStep
<1>3. PlainTypes'
  BY <1>1, Written DEF PlainTypes, TypeOK, Request, Label, Base, HostInv, Direct, Served,
                       Body, client, Goto, Write, Drop, BodySend, HasBody, Unannounced, Kind,
                       ClientClosed, ServerClosed
<1>4. ControlInv'
  BY <1>1, Written DEF Base, TypeOK, ControlInv, HostInv, Served, Kind, HasBody,
                       Unannounced, Body, client, Goto, Write, Drop, BodySend, ClientClosed,
                       ServerClosed
<1>5. UpHosts'
  BY <1>1, UpStep, Written DEF Base, HostInv, Direct, Served, Body, client, Goto, Write,
                               Drop, BodySend, HasBody, Unannounced, Kind, ClientClosed, ServerClosed
<1>6. UnreadHosts'
  <2>1. Took(cstream, cstream') /\ UNCHANGED reqs
    BY DEF Took, Body, client, Goto, Write, Drop, BodySend
  <2> QED
    BY <2>1, CstreamStep
<1>7. HostInv'
  BY <1>1, <1>5, <1>6, Written DEF UpHosts, UnreadHosts, Base, TypeOK, HostInv, ControlInv,
         Direct, Served, Body, client, Goto, Write, Drop, BodySend, HasBody, Unannounced, Kind,
         ClientClosed, ServerClosed
<1> QED
  BY <1>2, <1>3, <1>4, <1>7 DEF Base, TypeOK, StreamTypes, PlainTypes, Items, Gots, Ups,
         Downs

LEMMA WhileBase == ASSUME Base, While PROVE Base'
<1>1. cur # 0
  BY DEF Base, ControlInv, While
<1>2. StreamTypes'
  <2>1. Took(cstream, cstream')
    BY DEF Took, While, client, server, locals, Goto
  <2>2. Put(Gots, cgot, cgot')
    BY <1>1, Written DEF Put, While, client, server, locals, Goto
  <2>3. Put(Ups, up, up') \/ up' = <<>>
    BY <1>1, Written DEF Put, While, client, server, locals, Goto
  <2>4. Took(down, down') \/ down' = <<>>
    BY DEF Took, While, client, server, locals, Goto
  <2> QED
    BY <2>1, <2>2, <2>3, <2>4, StreamStep
<1>3. PlainTypes'
  BY <1>1, Written DEF PlainTypes, TypeOK, Request, Label, Base, HostInv, Direct, Served,
                       While, client, server, locals, Goto, ClientClosed, ServerClosed
<1>4. ControlInv'
  BY <1>1, Written DEF Base, TypeOK, ControlInv, HostInv, Served, Kind, HasBody,
                       Unannounced, While, client, server, locals, Goto, ClientClosed,
                       ServerClosed
<1>5. UpHosts'
  BY <1>1, UpStep, Written DEF Base, HostInv, Direct, Served, While, client, server, locals,
                               Goto, ClientClosed, ServerClosed
<1>6. UnreadHosts'
  <2>1. Took(cstream, cstream') /\ UNCHANGED reqs
    BY DEF Took, While, client, server, locals, Goto
  <2> QED
    BY <2>1, CstreamStep
<1>7. HostInv'
  BY <1>1, <1>5, <1>6, Written DEF UpHosts, UnreadHosts, Base, TypeOK, HostInv, ControlInv,
         Direct, Served, While, client, server, locals, Goto, ClientClosed, ServerClosed
<1> QED
  BY <1>2, <1>3, <1>4, <1>7 DEF Base, TypeOK, StreamTypes, PlainTypes, Items, Gots, Ups,
         Downs

LEMMA NextRequestBase == ASSUME Base, NextRequest PROVE Base'
<1>1. cur # 0
  BY DEF Base, ControlInv, NextRequest
<1>2. StreamTypes'
  <2>1. Took(cstream, cstream')
    BY DEF Took, NextRequest, client, server, Goto, Drop, Begin, HeadReady, HeadFails
  <2>2. Put(Gots, cgot, cgot')
    BY <1>1, Written DEF Put, NextRequest, client, server, Goto, Drop, Begin, HeadReady,
                         HeadFails
  <2>3. Put(Ups, up, up') \/ up' = <<>>
    BY <1>1, Written DEF Put, NextRequest, client, server, Goto, Drop, Begin, HeadReady,
                         HeadFails
  <2>4. Took(down, down') \/ down' = <<>>
    BY DEF Took, NextRequest, client, server, Goto, Drop, Begin, HeadReady, HeadFails
  <2> QED
    BY <2>1, <2>2, <2>3, <2>4, StreamStep
<1>3. PlainTypes'
  <2>1. cur' \in 0 .. Len(reqs)
    BY <1>1, Written DEF NextRequest, HeadReady, Base, TypeOK
  <2>2. pc' \in Label
    BY DEF NextRequest, Begin, Goto, Drop, Label
  <2> QED
    BY <1>1, <2>1, <2>2, Written DEF PlainTypes, TypeOK, Base, NextRequest, client, server,
           Drop
<1>4. ControlInv'
  <2>1. ret \notin {"request", "drop"}
    BY DEF Base, ControlInv, NextRequest
  <2>2. cur' # 0
    BY <1>1, Written DEF NextRequest, HeadReady
  <2>3. \/ pc' = "established" /\ Kind(cur)' = "connect" /\ ret' = ret
        \/ pc' = "send" /\ Kind(cur)' # "connect" /\ ret' = ret
        \/ pc' = "bailout" /\ ret' \in {"request", "drop"}
    BY DEF NextRequest, Begin, Goto, Drop, Kind, client
  <2> QED
    BY <2>1, <2>2, <2>3 DEF ControlInv, Served
<1>5. UpHosts'
  BY <1>1, UpStep, Written DEF Base, HostInv, Direct, Served, NextRequest, client, server,
                               Goto, Drop, Begin, Kind, SameHost, HeadReady, HeadFails
<1>6. UnreadHosts'
  <2>1. Took(cstream, cstream') /\ UNCHANGED reqs
    BY DEF Took, NextRequest, client, server, Goto, Drop, Begin, HeadReady, HeadFails
  <2> QED
    BY <2>1, CstreamStep
<1>7. HostInv'
  BY <1>1, <1>5, <1>6, Written DEF UpHosts, UnreadHosts, Base, TypeOK, HostInv, ControlInv,
         Direct, Served, NextRequest, client, server, Goto, Drop, Begin, Kind, SameHost,
         HeadReady, HeadFails
<1> QED
  BY <1>2, <1>3, <1>4, <1>7 DEF Base, TypeOK, StreamTypes, PlainTypes, Items, Gots, Ups,
         Downs

LEMMA BailoutBase == ASSUME Base, Bailout PROVE Base'
<1>1. cur # 0
  BY DEF Base, ControlInv, Bailout
<1>2. StreamTypes'
  <2>1. Took(cstream, cstream')
    BY DEF Took, Bailout, client, locals, Goto, NotConnected
  <2>2. Put(Gots, cgot, cgot')
    BY <1>1, Written DEF Put, Bailout, client, locals, Goto, NotConnected
  <2>3. Put(Ups, up, up') \/ up' = <<>>
    BY <1>1, Written DEF Put, Bailout, client, locals, Goto, NotConnected
  <2>4. Took(down, down') \/ down' = <<>>
    BY DEF Took, Bailout, client, locals, Goto, NotConnected
  <2> QED
    BY <2>1, <2>2, <2>3, <2>4, StreamStep
<1>3. PlainTypes'
  BY <1>1, Written DEF PlainTypes, TypeOK, Request, Label, Base, HostInv, Direct, Served,
                       Bailout, client, locals, Goto, NotConnected
<1>4. ControlInv'
  BY <1>1, Written DEF Base, TypeOK, ControlInv, HostInv, Served, Kind, HasBody,
                       Unannounced, Bailout, client, locals, Goto, NotConnected
<1>5. UpHosts'
  BY <1>1, UpStep, Written DEF Base, HostInv, Direct, Served, Bailout, client, locals, Goto,
                               NotConnected
<1>6. UnreadHosts'
  <2>1. Took(cstream, cstream') /\ UNCHANGED reqs
    BY DEF Took, Bailout, client, locals, Goto, NotConnected
  <2> QED
    BY <2>1, CstreamStep
<1>7. HostInv'
  BY <1>1, <1>5, <1>6, Written DEF UpHosts, UnreadHosts, Base, TypeOK, HostInv, ControlInv,
         Direct, Served, Bailout, client, locals, Goto, NotConnected
<1> QED
  BY <1>2, <1>3, <1>4, <1>7 DEF Base, TypeOK, StreamTypes, PlainTypes, Items, Gots, Ups,
         Downs

LEMMA ServerReplyBase == ASSUME Base, ServerReply PROVE Base'
<1>1. /\ up \in Seq(Ups) /\ down \in Seq(Downs) /\ up # <<>>
      /\ Head(up) \in Ups
  BY Typed, TailType DEF Base, StreamTypes, ServerReply
<1>2. PICK r \in Reply, n \in {1, 2} :
          /\ n <= Len(up) /\ up' = SubSeq(up, n + 1, Len(up))
          /\ \/ down' = down \o <<Sent(Head(up).of, "head", r)>> \o <<>>
             \/ down' = down \o <<Sent(Head(up).of, "head", r)>> \o
                          <<Sent(Head(up).of, "body", r)>>
  BY DEF ServerReply, Wanted
<1>3. sd' \in {"open", "eof"} /\ sd = "open"
  BY DEF ServerReply
<1>4. down' \in Seq(Downs)
  <2>1. Sent(Head(up).of, "head", r) \in Downs /\ Sent(Head(up).of, "body", r) \in Downs
    BY <1>1 DEF Ups, Downs, Sent
  <2> DEFINE h == Sent(Head(up).of, "head", r)
             b == Sent(Head(up).of, "body", r)
  <2>2. down' = Append(down, h) \/ down' = Append(Append(down, h), b)
    BY <1>1, <1>2, <2>1, Concats
  <2> HIDE DEF h, b
  <2>3. Append(down, h) \in Seq(Downs)
    BY <1>1, <2>1, AppendType DEF h
  <2>4. Append(Append(down, h), b) \in Seq(Downs)
    BY <2>1, <2>3, AppendType DEF b
  <2> QED
    BY <2>2, <2>3, <2>4
<1>5. /\ up' \in Seq(Ups)
      /\ \A i \in DOMAIN up' : i + n \in DOMAIN up /\ up'[i] = up[i + n]
  BY <1>1, <1>2
<1>6. TypeOK'
  BY <1>3, <1>4, <1>5 DEF Base, TypeOK, Ups, Downs, ServerReply, client, locals
<1>7. ControlInv'
  BY DEF Base, ControlInv, ServerReply, client, locals, Kind
<1>8. HostInv'
  BY <1>3, <1>5 DEF Base, HostInv, Direct, ServerReply, client, locals
<1> QED
  BY <1>6, <1>7, <1>8 DEF Base

LEMMA ServerDataBase == ASSUME Base, ServerData PROVE Base'
<1>1. /\ up \in Seq(Ups) /\ down \in Seq(Downs) /\ up # <<>>
      /\ Head(up) \in Ups /\ Tail(up) \in Seq(Ups)
      /\ \A i \in DOMAIN Tail(up) : i + 1 \in DOMAIN up /\ Tail(up)[i] = up[i + 1]
  BY Typed, TailType DEF Base, StreamTypes, ServerData
<1>2. Sent(Head(up).of, "body", NoReply) \in Downs
  BY <1>1 DEF Ups, Downs, Sent, NoReply, Reply
<1>3. down' \in Seq(Downs)
  BY <1>1, <1>2, AppendType DEF ServerData
<1>4. TypeOK'
  BY <1>1, <1>3 DEF Base, TypeOK, Ups, Downs, ServerData, client, locals
<1>5. ControlInv'
  BY DEF Base, ControlInv, ServerData, client, locals, Kind
<1>6. HostInv'
  BY <1>1 DEF Base, HostInv, Direct, ServerData, client, locals
<1> QED
  BY <1>4, <1>5, <1>6 DEF Base

LEMMA ServerCloseBase == ASSUME Base, ServerClose PROVE Base'
BY DEF Base, TypeOK, ControlInv, HostInv, Direct, ServerClose, client, locals, Kind

LEMMA ClientCloseBase == ASSUME Base, ClientClose PROVE Base'
BY DEF Base, TypeOK, ControlInv, HostInv, Direct, ClientClose, server, locals, Kind

(* The requests stay what they are when the client makes another one. *)
LEMMA RequestsStay ==
    ASSUME Base, ClientRequest
    PROVE  /\ reqs' \in Seq(Request) /\ Len(reqs') = Len(reqs) + 1
           /\ Len(reqs') <= MaxRequests /\ Len(reqs) \in Nat
           /\ \A n \in 1 .. Len(reqs) : reqs'[n] = reqs[n]
<1>1. reqs \in Seq(Request) /\ Len(reqs) < MaxRequests /\ Len(reqs) \in Nat
  BY DEF Base, TypeOK, ClientRequest
<1>2. PICK r \in Request : reqs' = Append(reqs, r)
  BY DEF ClientRequest
<1> QED
  BY <1>1, <1>2, AppendType, ConstantsAssumption

LEMMA ClientRequestBase == ASSUME Base, ClientRequest PROVE Base'
<1> DEFINE n == Len(reqs) + 1
<1>1. cstream \in Seq(Items) /\ cur \in 0 .. Len(reqs) /\ MaxRequests \in Nat
  BY Typed, ConstantsAssumption DEF Base, StreamTypes, PlainTypes
<1>2. \/ cstream' = cstream \o <<Item(n, "head")>> \o <<>>
      \/ cstream' = cstream \o <<Item(n, "head")>> \o <<Item(n, "body")>>
  BY RequestsStay DEF ClientRequest
<1>3. Item(n, "head") \in Items /\ Item(n, "body") \in Items
  BY RequestsStay, <1>1 DEF Items, Item, Numbers
<1> DEFINE short == Append(cstream, Item(n, "head"))
<1>4. /\ cstream' \in Seq(Items)
      /\ \A i \in DOMAIN cstream' :
            (i \in DOMAIN cstream /\ cstream'[i] = cstream[i]) \/ cstream'[i].of = n
  <2>1. /\ short \in Seq(Items)
        /\ \A i \in DOMAIN short :
              (i \in DOMAIN cstream /\ short[i] = cstream[i]) \/ short[i].of = n
    BY <1>1, <1>3, AppendType DEF Item
  <2> DEFINE long == Append(short, Item(n, "body"))
  <2> HIDE DEF short
  <2>2. /\ long \in Seq(Items)
        /\ \A i \in DOMAIN long :
              (i \in DOMAIN cstream /\ long[i] = cstream[i]) \/ long[i].of = n
    BY <2>1, <1>3, AppendType DEF Item
  <2>3. cstream' = short \/ cstream' = long
    BY <1>1, <1>2, <1>3, Concats DEF short
  <2> HIDE DEF long
  <2> QED
    BY <2>1, <2>2, <2>3
<1>6. TypeOK'
  BY <1>1, <1>4, RequestsStay DEF Base, TypeOK, Items, ClientRequest, server, locals
<1>7. cur # 0 => cur \in 1 .. Len(reqs)
  BY <1>1
<1>8. ControlInv'
  BY <1>7, RequestsStay DEF Base, ControlInv, Served, ClientRequest, server, locals, Kind
<1>9. UnreadHosts'
  <2>1. n = Len(reqs') /\ Len(reqs) <= Len(reqs')
    BY RequestsStay
  <2>2. \A i \in DOMAIN cstream : cstream[i].of \in Nat /\ cstream[i].of <= Len(reqs)
    <3>1. \A i \in DOMAIN cstream : cstream[i] \in Items
      BY <1>1
    <3> QED
      BY <1>1, <3>1 DEF Base, HostInv, Items, Numbers
  <2>3. \A m \in Nat : m <= Len(reqs) => m <= Len(reqs')
    BY RequestsStay
  <2> HIDE DEF n
  <2> QED
    BY <1>4, <2>1, <2>2, <2>3, RequestsStay DEF UnreadHosts
<1>10. UpHosts'
  <2>1. \A i \in DOMAIN up : up[i] \in Ups
    BY Typed DEF Base, StreamTypes
  <2>2. \A i \in DOMAIN up : up[i].of \in 1 .. Len(reqs)
    BY <2>1, <1>1, RequestsStay DEF Base, HostInv, Ups, Numbers
  <2> QED
    BY <2>2, RequestsStay DEF Base, HostInv, UpHosts, ClientRequest, server
<1>11. HostInv'
  BY <1>1, <1>7, <1>9, <1>10, RequestsStay
     DEF Base, ControlInv, HostInv, UnreadHosts, UpHosts, Direct, Served, ClientRequest,
         server, locals
<1> QED
  BY <1>6, <1>8, <1>11 DEF Base

LEMMA ClientDataBase == ASSUME Base, ClientData PROVE Base'
<1> DEFINE item == Item(Len(reqs), "body")
<1>1. cstream' = <<item>> /\ UNCHANGED <<client, cgot, server, pc, locals>>
  BY DEF ClientData
<1>2. item \in Items /\ item.of = Len(reqs)
  <2>1. reqs # <<>> /\ reqs \in Seq(Request) /\ Len(reqs) <= MaxRequests
    BY DEF ClientData, Base, TypeOK
  <2>2. Len(reqs) \in Numbers
    BY <2>1, ConstantsAssumption DEF Numbers
  <2> QED
    BY <2>2 DEF Items, Item
<1> HIDE DEF item
<1>3. cstream' \in Seq(Items) /\ \A i \in DOMAIN cstream' : cstream'[i].of <= Len(reqs)
  <2>1. Len(reqs) \in Nat
    BY DEF Base, TypeOK
  <2> QED
    BY <1>1, <1>2, <2>1
<1>4. TypeOK'
  BY <1>1, <1>3 DEF Base, TypeOK, Items, client, server, locals
<1>5. ControlInv'
  BY <1>1 DEF Base, ControlInv, client, server, locals, Kind
<1>6. HostInv'
  BY <1>1, <1>3 DEF Base, HostInv, Direct, client, server, locals
<1> QED
  BY <1>4, <1>5, <1>6 DEF Base

LEMMA ThreadBase == ASSUME Base, Thread PROVE Base'
BY ReadBase, DecideBase, ForwardBase, ForwardNextBase, ReturnedBase, ConnectBase,
   EstablishedBase, TunnelBase, SendHeadBase, SendBodyBase, ReceiveBase, UnauthorizedBase,
   AuthDropBase, AuthProbeBase, AuthReceiveBase, AuthChallengeBase, AuthAnswerBase,
   AuthFinalBase, RespondBase, BodyBase, WhileBase, NextRequestBase, BailoutBase
DEF Thread

LEMMA NextBase == ASSUME Base, [Next]_vars PROVE Base'
<1>1. CASE UNCHANGED vars
  BY <1>1 DEF vars, client, server, locals, Base, TypeOK, ControlInv, HostInv, Direct, Kind
<1> QED
  BY <1>1, ThreadBase, ServerReplyBase, ServerDataBase, ServerCloseBase, ClientCloseBase,
     ClientRequestBase, ClientDataBase DEF Next, Server

(* Every variable has its type. *)
THEOREM TypeCorrect == Spec => []TypeOK
<1> QED
  BY InitBase, NextBase, PTL DEF Spec, Base

(* Whatever hosts the requests on a connection are for and in whichever order *)
(* the loops change places, each goes to its own server, past a parent       *)
(* exactly if NoProxy says so.                                               *)
THEOREM EachToItsHost == Spec => []RequestsReachTheirHost
<1>1. Base => RequestsReachTheirHost
  BY DEF Base, ControlInv, HostInv, Direct, Served, RequestsReachTheirHost
<1>2. Init => Base
  BY InitBase
<1>3. Base /\ [Next]_vars => Base'
  BY NextBase
<1> QED
  BY <1>1, <1>2, <1>3, PTL DEF Spec

-----------------------------------------------------------------------------
(* What is read from the client *)

LEMMA ClientSame ==
    ASSUME ClientInv, UNCHANGED <<reqs, gone, cstream, cur>>, Alive' => Alive,
           Alive' => (Unread' <=> Unread) \/ ~Bodied(cur)
    PROVE  ClientInv'
BY DEF ClientInv, First, After, AfterIn, Bodied, Kind

LEMMA ClientTail ==
    ASSUME Base, ClientInv, Alive, UNCHANGED <<reqs, gone>>,
           cstream # <<>>, cstream' = Tail(cstream),
           Alive' => First' = After(cstream[1])
    PROVE  ClientInv'
<1>1. cstream \in Seq(Items) /\ Len(cstream) \in Nat \ {0}
  BY Typed DEF Base, StreamTypes
<1>2. /\ Len(cstream') = Len(cstream) - 1
      /\ \A i \in DOMAIN cstream' : i + 1 \in DOMAIN cstream /\ cstream'[i] = cstream[i + 1]
  BY <1>1
<1>3. \A i \in 1 .. Len(cstream) - 1 : cstream[i + 1] = After(cstream[i])
  <2>1. \A i \in 1 .. Len(cstream) - 1 : i + 1 \in DOMAIN cstream \ {1} /\ (i + 1) - 1 = i
    BY <1>1
  <2> QED
    BY <2>1 DEF ClientInv
<1>4. ASSUME Alive'
      PROVE  /\ cstream' # <<>> => cstream'[1] = First'
             /\ \A i \in DOMAIN cstream' \ {1} : cstream'[i] = After(cstream'[i - 1])
  <2>1. ASSUME cstream' # <<>> PROVE cstream'[1] = First'
    <3>1. 1 \in 1 .. Len(cstream) - 1 /\ cstream'[1] = cstream[2]
      BY <1>1, <1>2, <2>1
    <3> QED
      BY <3>1, <1>3, <1>4
  <2>2. ASSUME NEW i \in DOMAIN cstream' \ {1} PROVE cstream'[i] = After(cstream'[i - 1])
    <3>1. /\ i \in 1 .. Len(cstream) - 1 /\ i - 1 \in DOMAIN cstream'
          /\ cstream'[i] = cstream[i + 1] /\ cstream'[i - 1] = cstream[i]
      BY <1>1, <1>2
    <3> QED
      BY <3>1, <1>3
  <2> QED
    BY <2>1, <2>2
<1>5. ASSUME Alive', ~gone
      PROVE  (IF cstream' = <<>> THEN First' ELSE After(cstream'[Len(cstream')]))
                 = Item(Len(reqs) + 1, "head")
  <2>1. After(cstream[Len(cstream)]) = Item(Len(reqs) + 1, "head")
    BY <1>5 DEF ClientInv
  <2>2. CASE cstream' = <<>>
    <3>1. Len(cstream') = 0
      <4>1. Len(<<>>) = 0
        OBVIOUS
      <4> QED
        BY <4>1, <2>2
    <3>2. Len(cstream) = 1
      BY <3>1, <1>1, <1>2
    <3> QED
      BY <2>1, <2>2, <3>2, <1>5
  <2>3. CASE cstream' # <<>>
    <3>1. cstream'[Len(cstream')] = cstream[Len(cstream)]
      BY <2>3, <1>1, <1>2
    <3> QED
      BY <2>1, <2>3, <3>1
  <2> QED
    BY <2>2, <2>3
<1>6. \A x : After(x)' = After(x)
  BY DEF After, AfterIn, Bodied, Kind
<1> QED
  BY <1>3, <1>4, <1>5, <1>6 DEF ClientInv

(* Only headers_recv() and http_body_send() from the client take something;  *)
(* what they take is what is there.                                         *)
LEMMA FirstUnread ==
    ASSUME Base, cstream # <<>>
    PROVE  Head(cstream) = cstream[1] /\ Head(cstream).of = cstream[1].of
BY Typed DEF Base, StreamTypes

LEMMA NextNumber ==
    ASSUME Base, ClientInv, Read \/ ForwardNext \/ NextRequest, HeadReady(cstream)
    PROVE  /\ Alive /\ ~Unread /\ cstream # <<>> /\ cstream' = Tail(cstream)
           /\ cstream[1] = Item(cur + 1, "head") /\ cur' = cur + 1
<1>1. /\ cstream # <<>> /\ Head(cstream) = cstream[1]
      /\ cur' = Head(cstream).of /\ cstream' = Tail(cstream)
  BY FirstUnread DEF HeadReady, HeadFails, Read, ForwardNext, NextRequest
<1>2. Alive /\ ~Unread
  BY DEF Read, ForwardNext, NextRequest, Alive, Unread, Base, ControlInv
<1> QED
  BY <1>1, <1>2 DEF ClientInv, First, Item

LEMMA ClientReads ==
    ASSUME Base, ClientInv, Read \/ ForwardNext \/ NextRequest
    PROVE  ClientInv'
<1>1. CASE ~HeadReady(cstream)
  BY <1>1 DEF Read, ForwardNext, NextRequest, Goto, Drop, ClientInv, Alive
<1>2. CASE HeadReady(cstream)
  <2>1. /\ Alive /\ ~Unread /\ cstream # <<>> /\ cstream' = Tail(cstream)
        /\ cstream[1] = Item(cur + 1, "head") /\ cur' = cur + 1
    BY <1>2, NextNumber
  <2>2. Alive' => (Bodied(cur') => Unread')
    BY DEF Read, ForwardNext, NextRequest, Begin, Goto, Drop, Alive, Unread, Bodied, Kind
  <2>3. Alive' => First' = After(cstream[1])
    BY <2>1, <2>2 DEF First, After, AfterIn, Item, Bodied, Kind, Read, ForwardNext,
                      NextRequest, client
  <2> QED
    BY <2>1, <2>3, ClientTail DEF Read, ForwardNext, NextRequest, client
<1> QED
  BY <1>1, <1>2

LEMMA ClientBodies ==
    ASSUME Base, ClientInv, SendBody \/ Forward
    PROVE  ClientInv'
<1>1. Alive /\ Unread /\ cur # 0
  BY DEF SendBody, Forward, Alive, Unread, Base, ControlInv
<1>2. CASE cstream # <<>> /\ cstream' = Tail(cstream) /\ Kind(cur) = "post"
  <2>1. cstream[1] = Item(cur, "body")
    BY <1>1, <1>2 DEF ClientInv, First, Bodied
  <2>2. Alive' => ~Unread'
    <3>1. ret # "request"
      BY DEF SendBody, Forward, Base, ControlInv
    <3>2. CASE SendBody
      BY <3>1, <3>2, <1>2 DEF SendBody, Drop, Goto, Alive, Unread
    <3>3. CASE Forward
      BY <3>1, <3>3 DEF Forward, Drop, Goto, Alive, Unread
    <3> QED
      BY <3>2, <3>3
  <2>3. Alive' => First' = After(cstream[1])
    BY <2>1, <2>2 DEF First, After, AfterIn, Item, SendBody, Forward
  <2> QED
    BY <1>1, <1>2, <2>3, ClientTail DEF SendBody, Forward, client
<1>3. CASE UNCHANGED cstream
  <2>1. Alive' => ~Bodied(cur)
    BY <1>3, Typed DEF SendBody, Forward, Drop, Goto, Alive, Bodied, Base, ControlInv,
                       Served
  <2> QED
    BY <1>1, <1>3, <2>1, ClientSame DEF SendBody, Forward, client
<1> QED
  BY <1>2, <1>3 DEF SendBody, Forward

LEMMA ClientThread ==
    ASSUME Base, ClientInv, Thread
    PROVE  ClientInv'
<1>1. CASE Decide \/ Returned \/ Connect \/ Established \/ SendHead \/ Receive \/ Unauthorized
  BY <1>1, ClientSame
     DEF Decide, Returned, Connect, Established, SendHead, Receive, Unauthorized, Begin,
         Goto, PageAndDrop, Drop, Alive, Unread, Bodied, Base, ControlInv, client, locals,
         Served
<1>2. CASE \/ AuthDrop \/ AuthProbe \/ AuthReceive \/ AuthChallenge \/ AuthAnswer \/ AuthFinal
  BY <1>2, ClientSame
     DEF AuthDrop, AuthProbe, AuthReceive, AuthChallenge, AuthAnswer, AuthFinal, AuthSend,
         AuthRead, Dropped, Goto, PageAndDrop, Drop, Alive, Unread, Base, ControlInv, client
<1>3. CASE Respond \/ Body \/ While \/ Bailout
  BY <1>3, ClientSame
     DEF Respond, Body, BodySend, While, Bailout, Goto, Drop, Alive, Unread, Base,
         ControlInv, client, locals
<1>4. CASE Tunnel
  BY <1>4 DEF Tunnel, Drop, Goto, ClientInv, Alive
<1> QED
  BY <1>1, <1>2, <1>3, <1>4, ClientReads, ClientBodies DEF Thread

LEMMA ClientServer ==
    ASSUME Base, ClientInv, Server \/ ClientClose \/ UNCHANGED vars
    PROVE  ClientInv'
BY DEF Server, ServerReply, ServerData, ServerClose, ClientClose, vars, client, server,
       locals, ClientInv, Alive, First, After, AfterIn, Unread, Bodied, Kind

LEMMA ClientRequestInv ==
    ASSUME Base, ClientInv, ClientRequest
    PROVE  ClientInv'
<1> DEFINE n == Len(reqs) + 1
           next == IF cstream = <<>> THEN First ELSE After(cstream[Len(cstream)])
           head == Item(n, "head")
           body == Item(n, "body")
           Then(item) == AfterIn(reqs', item)
           MoreBody == reqs'[n].kind = "post"
<1> SUFFICES ASSUME Alive' PROVE ClientInv'
  BY DEF ClientInv
<1>1. Alive /\ next = head /\ UNCHANGED <<pc, ret, cur>>
  BY DEF ClientRequest, ClientInv, Alive, server, locals
<1>2. cstream \in Seq(Items) /\ head \in Items /\ body \in Items /\ Len(cstream) \in Nat
  BY Typed, RequestsStay, ConstantsAssumption DEF Base, StreamTypes, Items, Item, Numbers
<1>3. PICK r \in Request, whole \in BOOLEAN :
          /\ reqs' = Append(reqs, r) /\ gone' = ~whole
          /\ cstream' = cstream \o <<head>>
                            \o (IF r.kind = "post" /\ whole THEN <<body>> ELSE <<>>)
  BY RequestsStay DEF ClientRequest
<1>4. MoreBody <=> r.kind = "post"
  BY <1>3, RequestsStay, AppendType DEF Base, TypeOK
<1>5. \/ cstream' = Append(cstream, head) /\ (~gone' => ~MoreBody)
      \/ cstream' = Append(Append(cstream, head), body) /\ MoreBody
  <2>1. /\ cstream \o <<head>> \o <<>> = Append(cstream, head)
        /\ cstream \o <<head>> \o <<body>> = Append(Append(cstream, head), body)
    BY <1>2, Concats
  <2>2. CASE r.kind = "post" /\ whole
    BY <1>3, <1>4, <2>1, <2>2
  <2>3. CASE ~(r.kind = "post" /\ whole)
    <3>1. cstream' = Append(cstream, head)
      BY <1>3, <2>1, <2>3
    <3>2. ~gone' => ~MoreBody
      BY <1>3, <1>4, <2>3
    <3> QED
      BY <3>1, <3>2
  <2> QED
    BY <2>2, <2>3
<1>6. First' = First
  <2>1. Unread' <=> Unread
    BY <1>1 DEF Unread
  <2>2. Unread => Kind(cur)' = Kind(cur)
    <3>1. cur \in 0 .. Len(reqs) /\ Len(reqs) \in Nat /\ (Unread => cur # 0)
      BY DEF Base, TypeOK, ControlInv, Unread
    <3>2. Unread => cur \in 1 .. Len(reqs)
      BY <3>1
    <3>3. Unread => reqs'[cur] = reqs[cur]
      BY <3>2, RequestsStay
    <3> QED
      BY <1>1, <3>3 DEF Kind
  <2> QED
    BY <1>1, <2>1, <2>2 DEF First, Bodied
<1>7. \A i \in DOMAIN cstream : Then(cstream[i]) = After(cstream[i])
  <2>1. \A i \in DOMAIN cstream : cstream[i] \in Items
    BY <1>2
  <2>2. \A i \in DOMAIN cstream : cstream[i].of \in 1 .. Len(reqs)
    BY <2>1, RequestsStay DEF Base, HostInv, Items, Numbers
  <2> QED
    BY <2>2, RequestsStay DEF After, AfterIn
<1>8. /\ Then(head) = (IF MoreBody THEN body ELSE Item(n + 1, "head"))
      /\ Then(body) = Item(n + 1, "head")
  BY RequestsStay DEF AfterIn, Item
<1>9. Len(reqs') = n
  BY RequestsStay
<1>10. ASSUME NEW i \in DOMAIN cstream \ {1}
      PROVE cstream[i] = Then(cstream[i - 1]) /\ i - 1 \in DOMAIN cstream
  BY <1>1, <1>2, <1>7 DEF ClientInv
<1>11. cstream # <<>> => head = Then(cstream[Len(cstream)]) /\ cstream[1] = First
  BY <1>1, <1>2, <1>7 DEF ClientInv
<1> HIDE DEF n, next, head, body, Then, MoreBody
<1>12. CASE cstream' = Append(cstream, head) /\ (~gone' => ~MoreBody)
  <2>1. /\ Len(cstream') = Len(cstream) + 1 /\ cstream' # <<>>
        /\ \A i \in DOMAIN cstream : cstream'[i] = cstream[i]
        /\ cstream'[Len(cstream) + 1] = head
        /\ DOMAIN cstream' = DOMAIN cstream \cup {Len(cstream) + 1}
    BY <1>12, <1>2, AppendType
  <2>2. cstream'[1] = First'
    BY <2>1, <1>1, <1>2, <1>6, <1>11 DEF next
  <2>3. ASSUME NEW i \in DOMAIN cstream' \ {1} PROVE cstream'[i] = Then(cstream'[i - 1])
    <3>1. CASE i \in DOMAIN cstream
      BY <3>1, <2>1, <1>10
    <3>2. CASE i = Len(cstream) + 1
      <4>1. i - 1 = Len(cstream) /\ Len(cstream) \in DOMAIN cstream /\ cstream # <<>>
        BY <3>2, <1>2
      <4> QED
        BY <4>1, <3>2, <2>1, <1>11
    <3> QED
      BY <2>1, <3>1, <3>2
  <2>4. ~gone' => Then(cstream'[Len(cstream')]) = Item(Len(reqs') + 1, "head")
    BY <1>12, <2>1, <1>8, <1>9
  <2> QED
    BY <2>1, <2>2, <2>3, <2>4 DEF ClientInv, After, Then
<1>13. CASE cstream' = Append(Append(cstream, head), body) /\ MoreBody
  <2> DEFINE short == Append(cstream, head)
  <2>1. /\ short \in Seq(Items) /\ Len(short) = Len(cstream) + 1
        /\ \A i \in DOMAIN cstream : short[i] = cstream[i]
        /\ short[Len(cstream) + 1] = head
        /\ DOMAIN short = DOMAIN cstream \cup {Len(cstream) + 1}
    BY <1>2, AppendType
  <2> HIDE DEF short
  <2>2. /\ Len(cstream') = Len(short) + 1 /\ cstream' # <<>>
        /\ \A i \in DOMAIN short : cstream'[i] = short[i]
        /\ cstream'[Len(short) + 1] = body
        /\ DOMAIN cstream' = DOMAIN short \cup {Len(short) + 1}
    BY <1>13, <1>2, <2>1, AppendType DEF short
  <2>3. cstream'[1] = First'
    BY <2>1, <2>2, <1>1, <1>2, <1>6, <1>11 DEF next
  <2>4. ASSUME NEW i \in DOMAIN cstream' \ {1} PROVE cstream'[i] = Then(cstream'[i - 1])
    <3>1. CASE i \in DOMAIN cstream
      BY <3>1, <2>1, <2>2, <1>10
    <3>2. CASE i = Len(cstream) + 1
      <4>1. i - 1 = Len(cstream) /\ Len(cstream) \in DOMAIN cstream /\ cstream # <<>>
        BY <3>2, <1>2
      <4> QED
        BY <4>1, <3>2, <2>1, <2>2, <1>11
    <3>3. CASE i = Len(short) + 1
      <4>1. i - 1 = Len(short) /\ cstream'[i - 1] = head
        BY <3>3, <1>2, <2>1, <2>2
      <4> QED
        BY <4>1, <3>3, <2>2, <1>8, <1>13
    <3> QED
      BY <2>1, <2>2, <3>1, <3>2, <3>3
  <2>5. Then(cstream'[Len(cstream')]) = Item(Len(reqs') + 1, "head")
    BY <2>2, <1>8, <1>9
  <2> QED
    BY <2>2, <2>3, <2>4, <2>5 DEF ClientInv, After, Then
<1> QED
  BY <1>5, <1>12, <1>13

(* The client of a tunnel sends no more requests. *)
LEMMA ClientDataInv ==
    ASSUME Base, FinalInv, ClientData
    PROVE  ~Alive /\ ClientInv'
<1>1. cgot # <<>> /\ Last = Sent(Len(reqs), "head", NoReply) /\ Kind(Len(reqs)) = "connect"
  BY DEF ClientData, Told
<1>2. Final(Last)
  BY <1>1 DEF Final, Agreed, Sent, NoReply
<1> QED
  BY <1>1, <1>2 DEF FinalInv, ClientInv, Alive, ClientData, locals

LEMMA ClientNext == ASSUME Base, ClientInv, FinalInv, [Next]_vars PROVE ClientInv'
BY ClientThread, ClientServer, ClientRequestInv, ClientDataInv DEF Next

-----------------------------------------------------------------------------
(* What is under way between the thread and a server *)

LEMMA Heads ==
    ASSUME NEW a, NEW b
    PROVE  /\ Head(<<a>>) = a /\ Tail(<<a>>) = <<>> /\ <<a>> # <<>>
           /\ Head(<<a, b>>) = a /\ Tail(<<a, b>>) = <<b>> /\ <<a, b>> # <<>>
           /\ Append(<<a>>, b) = <<a, b>> /\ Append(<<>>, a) = <<a>>
<1>1. Head(<<a>>) = a /\ <<a>> # <<>> /\ Head(<<a, b>>) = a /\ <<a, b>> # <<>>
  OBVIOUS
<1>2. Tail(<<a>>) = <<>>
  OBVIOUS
<1>3. Tail(<<a, b>>) = <<b>>
  OBVIOUS
<1>4. Append(<<a>>, b) = <<a, b>>
  <2>1. <<a>> \in Seq({a, b}) /\ <<a, b>> \in Seq({a, b}) /\ Len(<<a>>) = 1 /\ Len(<<a, b>>) = 2
    OBVIOUS
  <2>2. /\ Append(<<a>>, b) \in Seq({a, b}) /\ Len(Append(<<a>>, b)) = 2
        /\ Append(<<a>>, b)[1] = a /\ Append(<<a>>, b)[2] = b
    BY <2>1, AppendType
  <2>3. \A i \in 1 .. 2 : Append(<<a>>, b)[i] = <<a, b>>[i]
    BY <2>2
  <2> QED
    BY <2>1, <2>2, <2>3, SeqEqual
<1>5. Append(<<>>, a) = <<a>>
  OBVIOUS
<1> QED
  BY <1>1, <1>2, <1>3, <1>4, <1>5

(* A head arrives at the thread: it is the one that was asked for, and what  *)
(* is left is its body or nothing.                                          *)
LEMMA Arrived ==
    ASSUME NEW auth, Asked(auth) \/ Replied(auth), down # <<>>, ~Stray
    PROVE  /\ Head(down).part = "head" /\ Head(down).of = cur
           /\ Head(down).reply.probe = (auth = "probe")
           /\ up = <<>>
           /\ \/ Tail(down) = <<>>
              \/ /\ Tail(down) = <<Sent(cur, "body", Head(down).reply)>>
                 /\ HasBodyItem(Head(down).reply)
<1>1. up = <<>> /\ Replied(auth)
  BY DEF Asked, Replied, Nothing
<1>2. PICK r \in Reply :
          /\ r.probe = (auth = "probe")
          /\ \/ down = <<Sent(cur, "head", r)>>
             \/ down = <<Sent(cur, "head", r), Sent(cur, "body", r)>> /\ HasBodyItem(r)
  BY <1>1 DEF Replied
<1>3. CASE down = <<Sent(cur, "head", r)>>
  BY <1>1, <1>2, <1>3, Heads DEF Sent
<1>4. CASE down = <<Sent(cur, "head", r), Sent(cur, "body", r)>> /\ HasBodyItem(r)
  BY <1>1, <1>2, <1>4, Heads DEF Sent
<1> QED
  BY <1>2, <1>3, <1>4

LEMMA HeadArrived == ASSUME Base, HeadReady(down) PROVE down # <<>> /\ ~Stray
<1>1. down \in Seq(Downs) /\ down # <<>> /\ Head(down).part = "head"
  BY Typed DEF HeadReady, Base, StreamTypes
<1>2. Head(down) = down[1]
  BY <1>1
<1> QED
  BY <1>1, <1>2 DEF Stray

(* What is left after a head is its body. *)
LEMMA Rested ==
    ASSUME Rest, down # <<>>
    PROVE  /\ Tail(down) = <<>> /\ Head(down) = Sent(cur, "body", reply)
           /\ HasBodyItem(reply)
           /\ Unannounced(reply) => Stray
<1>1. down = <<Sent(cur, "body", reply)>>
  BY DEF Rest
<1>2. Tail(down) = <<>> /\ Head(down) = Sent(cur, "body", reply) /\ HasBodyItem(reply)
  BY <1>1, Heads DEF Rest
<1>3. Len(down) = 1 /\ down[1] = Sent(cur, "body", reply)
  BY <1>1
<1> QED
  BY <1>2, <1>3 DEF Stray, Unannounced, HasBodyItem, Sent

LEMMA ReadServer == ASSUME Base, ServerInv, Read PROVE ServerInv'
BY Heads DEF Base, ControlInv, ServerInv, Quiet, Asked, Replied, Rest, HasBodyItem, Nothing,
             Stray, Unannounced, Wanted, ToServer, Kind, HostInv, Served, Read, client,
             server, Goto, HeadReady, HeadFails

LEMMA DecideServer == ASSUME Base, ServerInv, Decide PROVE ServerInv'
BY Heads DEF Base, ControlInv, ServerInv, Quiet, Asked, Replied, Rest, HasBodyItem, Nothing,
             Stray, Unannounced, Wanted, ToServer, Kind, HostInv, Served, Decide, client,
             server, Goto, NoProxyMatch

LEMMA ForwardServer == ASSUME Base, ServerInv, Forward PROVE ServerInv'
BY Heads DEF Base, ControlInv, ServerInv, Quiet, Asked, Replied, Rest, HasBodyItem, Nothing,
             Stray, Unannounced, Wanted, ToServer, Kind, HostInv, Served, Forward, client,
             server, Goto, Write

LEMMA ForwardNextServer == ASSUME Base, ServerInv, ForwardNext PROVE ServerInv'
BY Heads DEF Base, ControlInv, ServerInv, Quiet, Asked, Replied, Rest, HasBodyItem, Nothing,
             Stray, Unannounced, Wanted, ToServer, Kind, HostInv, Served, ForwardNext,
             client, server, Goto, SameHost, HeadReady, HeadFails

LEMMA ReturnedServer == ASSUME Base, ServerInv, Returned PROVE ServerInv'
BY Heads DEF Base, ControlInv, ServerInv, Quiet, Asked, Replied, Rest, HasBodyItem, Nothing,
             Stray, Unannounced, Wanted, ToServer, Kind, HostInv, Served, Returned, client,
             server, locals, Goto

LEMMA ConnectServer == ASSUME Base, ServerInv, Connect PROVE ServerInv'
BY Heads DEF Base, ControlInv, ServerInv, Quiet, Asked, Replied, Rest, HasBodyItem, Nothing,
             Stray, Unannounced, Wanted, ToServer, Kind, HostInv, Served, Connect, client,
             Goto, Write, Drop, PageAndDrop, Connected, NotConnected, Begin

LEMMA EstablishedServer == ASSUME Base, ServerInv, Established PROVE ServerInv'
BY Heads DEF Base, ControlInv, ServerInv, Quiet, Asked, Replied, Rest, HasBodyItem, Nothing,
             Stray, Unannounced, Wanted, ToServer, Kind, HostInv, Served, Established,
             client, server, Goto, Write, Drop, ClientClosed

LEMMA TunnelServer == ASSUME Base, ServerInv, Tunnel PROVE ServerInv'
<1>1. CASE pc' = "tunnel"
  <2>1. /\ up \in Seq(Ups) /\ UNCHANGED cur
        /\ \A i \in DOMAIN up : up[i].of = cur /\ up[i].part = "body"
    BY Typed DEF Tunnel, Base, StreamTypes, ServerInv
  <2>2. UNCHANGED up \/ up' = Append(up, ToServer(cur, "body", "none"))
    BY DEF Tunnel
  <2>4. ToServer(cur, "body", "none") \in Ups
    BY Written DEF Tunnel, Base, ControlInv
  <2>5. \A i \in DOMAIN up' : up'[i].of = cur /\ up'[i].part = "body"
    BY <2>1, <2>2, <2>4, AppendType DEF ToServer
  <2> QED
    BY <1>1, <2>1, <2>5 DEF ServerInv
<1>2. CASE pc' = "bailout"
  BY <1>2 DEF ServerInv
<1> QED
  BY <1>1, <1>2 DEF Tunnel, Drop, Goto

LEMMA SendHeadServer == ASSUME Base, ServerInv, SendHead PROVE ServerInv'
BY Heads DEF Base, ControlInv, ServerInv, Quiet, Asked, Replied, Rest, HasBodyItem, Nothing,
             Stray, Unannounced, Wanted, ToServer, Kind, HostInv, Served, SendHead, client,
             Goto, Drop, ServerClosed

LEMMA SendBodyServer == ASSUME Base, ClientInv, ServerInv, SendBody PROVE ServerInv'
<1> DEFINE head == ToServer(cur, "head", "none")
           body == ToServer(cur, "body", "none")
<1>1. CASE pc' = "receive" /\ Kind(cur) # "post"
  BY <1>1 DEF SendBody, ServerInv, Asked, Replied, Wanted, HasBodyItem, Nothing, Stray,
              Unannounced, Kind, client
<1>2. CASE pc' = "receive" /\ Kind(cur) = "post"
  <2>1. cstream # <<>> /\ Head(cstream) = Item(cur, "body")
    <3>1. cstream # <<>> /\ Alive /\ Unread /\ Bodied(cur)
      BY <1>2 DEF SendBody, Drop, Goto, Alive, Unread, Bodied, Base, ControlInv
    <3> QED
      BY <3>1, FirstUnread DEF ClientInv, First
  <2>2. up' = Append(up, body) /\ UNCHANGED <<down, cur, reqs>>
    BY <1>2, <2>1 DEF SendBody, Drop, Goto, Item, client
  <2>3. up = <<head>> /\ Nothing /\ UNCHANGED sd
    BY <1>2 DEF SendBody, ServerInv
  <2>4. up' = <<head, body>>
    BY <2>2, <2>3, Heads
  <2>5. Asked("none")'
    BY <1>2, <2>2, <2>3, <2>4 DEF Asked, Wanted, ToServer, Kind, Nothing, Stray, Unannounced
  <2> QED
    BY <1>2, <2>5 DEF ServerInv
<1>3. CASE pc' = "bailout"
  BY <1>3 DEF ServerInv
<1> QED
  BY <1>1, <1>2, <1>3 DEF SendBody, Drop, Goto

LEMMA ReceiveServer == ASSUME Base, ServerInv, Receive PROVE ServerInv'
<1>1. CASE HeadReady(down)
  <2>1. Asked("none") \/ Replied("none")
    BY DEF ServerInv, Receive
  <2>2. down # <<>> /\ ~Stray
    BY <1>1, HeadArrived
  <2>3. Rest'
    BY <1>1, <2>1, <2>2, Arrived
       DEF Rest, HasBodyItem, Nothing, Stray, Unannounced, Kind, Receive, HeadFails,
           HeadReady, client
  <2>4. reply'.probe = ("none" = "probe")
    BY <1>1, <2>1, <2>2, Arrived DEF Receive, HeadFails, HeadReady
  <2> QED
    BY <1>1, <2>3, <2>4 DEF ServerInv, Receive, Goto, Drop, HeadFails, HeadReady
<1>2. CASE ~HeadReady(down)
  BY <1>2 DEF ServerInv, Receive, Goto, Drop
<1> QED
  BY <1>1, <1>2

LEMMA UnauthorizedServer == ASSUME Base, ServerInv, Unauthorized PROVE ServerInv'
BY Heads DEF Base, ControlInv, ServerInv, Quiet, Asked, Replied, Rest, HasBodyItem, Nothing,
             Stray, Unannounced, Wanted, ToServer, Kind, HostInv, Served, Unauthorized,
             client, server, Goto, Write, Drop, PageAndDrop, Connected, NotConnected

LEMMA DroppedBody ==
    ASSUME Base, Rest, NEW label, Dropped(label), UNCHANGED <<sd, up>>,
           pc # "tunnel", label \notin {"bailout", "tunnel"}
    PROVE  (pc' = label /\ Quiet') \/ pc' = "bailout"
<1>1. CASE PageAndDrop
  BY <1>1 DEF PageAndDrop, Drop, Goto
<1>2. CASE ~PageAndDrop
  <2>1. pc' = label /\ (down' = <<>> \/ (down' = down /\ BodyToDrop = "none"))
    BY <1>2, Rested DEF Dropped, Goto, Rest
  <2>2. CASE down' = <<>>
    BY <2>1, <2>2 DEF Rest, Quiet, Nothing
  <2>3. CASE down' = down /\ BodyToDrop = "none" /\ down # <<>>
    <3>1. Unannounced(reply) /\ sd = "eof"
      BY <2>3 DEF Rest, HasBodyItem, BodyToDrop, HasBody, Unannounced
    <3>2. Len(down) = 1 /\ down[1].part = "body" /\ down[1].reply = reply
      BY <2>3 DEF Rest, Sent
    <3>3. Stray
      BY <3>1, <3>2 DEF Stray
    <3> QED
      BY <2>1, <2>3, <3>3 DEF Rest, Quiet, Nothing, Stray, Unannounced
  <2> QED
    BY <2>1, <2>2, <2>3
<1> QED
  BY <1>1, <1>2

LEMMA AuthDropServer == ASSUME Base, ServerInv, AuthDrop PROVE ServerInv'
BY DroppedBody DEF ServerInv, HostInv, Base, AuthDrop, client, Goto

LEMMA AuthProbeServer == ASSUME Base, ServerInv, AuthProbe PROVE ServerInv'
BY Heads DEF Base, ControlInv, ServerInv, Quiet, Asked, Replied, Rest, HasBodyItem, Nothing,
             Stray, Unannounced, Wanted, ToServer, Kind, HostInv, Served, AuthProbe, client,
             Goto, Write, Drop, PageAndDrop, AuthSend, ServerClosed

LEMMA AuthReceiveServer == ASSUME Base, ServerInv, AuthReceive PROVE ServerInv'
<1>1. CASE HeadReady(down)
  <2>1. Asked("probe") \/ Replied("probe")
    BY DEF ServerInv, AuthReceive
  <2>2. down # <<>> /\ ~Stray
    BY <1>1, HeadArrived
  <2>3. Rest'
    BY <1>1, <2>1, <2>2, Arrived
       DEF Rest, HasBodyItem, Nothing, Stray, Unannounced, Kind, AuthReceive, AuthRead,
           PageAndDrop, Write, HeadFails, HeadReady, client
  <2>4. reply'.probe = ("probe" = "probe")
    BY <1>1, <2>1, <2>2, Arrived DEF AuthReceive, AuthRead, PageAndDrop, Write, HeadFails,
           HeadReady
  <2> QED
    BY <1>1, <2>3, <2>4 DEF ServerInv, AuthReceive, AuthRead, PageAndDrop, Write, Goto,
                            Drop, HeadFails, HeadReady
<1>2. CASE ~HeadReady(down)
  BY <1>2 DEF ServerInv, AuthReceive, AuthRead, PageAndDrop, Write, Goto, Drop
<1> QED
  BY <1>1, <1>2

LEMMA AuthChallengeServer == ASSUME Base, ServerInv, AuthChallenge PROVE ServerInv'
BY DroppedBody DEF ServerInv, HostInv, Base, AuthChallenge, client, Goto

LEMMA AuthAnswerServer == ASSUME Base, ServerInv, AuthAnswer PROVE ServerInv'
BY Heads DEF Base, ControlInv, ServerInv, Quiet, Asked, Replied, Rest, HasBodyItem, Nothing,
             Stray, Unannounced, Wanted, ToServer, Kind, HostInv, Served, AuthAnswer,
             client, server, Goto, Write, Drop, PageAndDrop, AuthSend, ServerClosed

LEMMA AuthFinalServer == ASSUME Base, ServerInv, AuthFinal PROVE ServerInv'
<1>1. CASE HeadReady(down)
  <2>1. Asked("answer") \/ Replied("answer")
    BY DEF ServerInv, AuthFinal
  <2>2. down # <<>> /\ ~Stray
    BY <1>1, HeadArrived
  <2>3. Rest'
    BY <1>1, <2>1, <2>2, Arrived
       DEF Rest, HasBodyItem, Nothing, Stray, Unannounced, Kind, AuthFinal, AuthRead,
           PageAndDrop, Write, HeadFails, HeadReady, client
  <2>4. reply'.probe = ("answer" = "probe")
    BY <1>1, <2>1, <2>2, Arrived DEF AuthFinal, AuthRead, PageAndDrop, Write, HeadFails,
           HeadReady
  <2> QED
    BY <1>1, <2>3, <2>4 DEF ServerInv, AuthFinal, AuthRead, PageAndDrop, Write, Goto, Drop,
                            HeadFails, HeadReady
<1>2. CASE ~HeadReady(down)
  BY <1>2 DEF ServerInv, AuthFinal, AuthRead, PageAndDrop, Write, Goto, Drop
<1> QED
  BY <1>1, <1>2

LEMMA RespondServer == ASSUME Base, ServerInv, Respond PROVE ServerInv'
BY Heads DEF Base, ControlInv, ServerInv, Quiet, Asked, Replied, Rest, HasBodyItem, Nothing,
             Stray, Unannounced, Wanted, ToServer, Kind, HostInv, Served, Respond, client,
             server, Goto, Write, Drop, HasBody, Unannounced, ClientClosed

LEMMA BodyServer == ASSUME Base, ServerInv, Body PROVE ServerInv'
BY Rested DEF Base, ControlInv, ServerInv, Quiet, Rest, HasBodyItem, Nothing, Stray,
              Unannounced, Kind, HostInv, Served, Body, client, Goto, Write, Drop, BodySend,
              HasBody, Unannounced, ClientClosed, ServerClosed

LEMMA WhileServer == ASSUME Base, ServerInv, While PROVE ServerInv'
BY Heads DEF Base, ControlInv, ServerInv, Quiet, Asked, Replied, Rest, HasBodyItem, Nothing,
             Stray, Unannounced, Wanted, ToServer, Kind, HostInv, Served, While, client,
             server, locals, Goto, ClientClosed, ServerClosed

LEMMA NextRequestServer == ASSUME Base, ServerInv, NextRequest PROVE ServerInv'
BY Heads DEF Base, ControlInv, ServerInv, Quiet, Asked, Replied, Rest, HasBodyItem, Nothing,
             Stray, Unannounced, Wanted, ToServer, Kind, HostInv, Served, NextRequest,
             client, server, Goto, Drop, Begin, SameHost, HeadReady, HeadFails

LEMMA BailoutServer == ASSUME Base, ServerInv, Bailout PROVE ServerInv'
BY Heads DEF Base, ControlInv, ServerInv, Quiet, Asked, Replied, Rest, HasBodyItem, Nothing,
             Stray, Unannounced, Wanted, ToServer, Kind, HostInv, Served, Bailout, client,
             locals, Goto, NotConnected

(* The server has what it wants for its answer. *)
LEMMA ServedRequest ==
    ASSUME Base, NEW auth \in {"none", "probe", "answer"}, Asked(auth), ServerReply
    PROVE  /\ Replied(auth)'
           /\ Kind(cur) = "post" /\ auth # "probe" => up # <<ToServer(cur, "head", auth)>>
<1> DEFINE head == ToServer(cur, "head", auth)
           body == ToServer(cur, "body", "none")
<1>1. Head(up) = head /\ head.of = cur /\ head.part = "head" /\ head.auth = auth
  BY Heads DEF Asked, Wanted, ToServer
<1>2. Wanted(head) = IF Kind(cur) = "post" /\ auth # "probe" THEN <<head, body>> ELSE <<head>>
  BY <1>1 DEF Wanted
<1> HIDE DEF head, body
<1>3. up = Wanted(head) /\ up' = <<>>
  <2>1. Len(up) >= Len(Wanted(head)) /\ up' = SubSeq(up, Len(Wanted(head)) + 1, Len(up))
    BY <1>1 DEF ServerReply
  <2>2. CASE up = <<head>>
    BY <2>1, <2>2, <1>2
  <2>3. CASE up = Wanted(head)
    BY <2>1, <2>3, <1>2
  <2> QED
    BY <2>2, <2>3 DEF Asked, head
<1>4. PICK r \in Reply :
          /\ r.probe = (auth = "probe")
          /\ \/ down' = down \o <<Sent(cur, "head", r)>> \o <<>>
             \/ /\ down' = down \o <<Sent(cur, "head", r)>> \o <<Sent(cur, "body", r)>>
                /\ Kind(cur) # "head" /\ r.framing # "none"
                /\ r.framing = "bare" => sd' = "eof"
  BY <1>1 DEF ServerReply
<1>5. /\ down \o <<Sent(cur, "head", r)>> \o <<>> = <<Sent(cur, "head", r)>>
      /\ down \o <<Sent(cur, "head", r)>> \o <<Sent(cur, "body", r)>> =
             <<Sent(cur, "head", r), Sent(cur, "body", r)>>
  <2> DEFINE h == Sent(cur, "head", r)
             b == Sent(cur, "body", r)
  <2>1. down = <<>> /\ <<>> \in Seq({h, b})
    BY DEF Asked, Nothing, Stray, ServerReply
  <2>2. /\ <<>> \o <<h>> \o <<>> = Append(<<>>, h)
        /\ <<>> \o <<h>> \o <<b>> = Append(Append(<<>>, h), b)
    BY <2>1, Concats
  <2> HIDE DEF h, b
  <2>3. Append(<<>>, h) = <<h>> /\ Append(<<h>>, b) = <<h, b>>
    BY Heads
  <2> QED
    BY <2>1, <2>2, <2>3 DEF h, b
<1>6. Replied(auth)'
  BY <1>3, <1>4, <1>5 DEF Replied, Sent, HasBodyItem, Nothing, Stray, Unannounced, Kind,
         ServerReply, client, locals
<1> QED
  BY <1>2, <1>3, <1>6 DEF head

LEMMA ServerReplyServer == ASSUME Base, ServerInv, ServerReply PROVE ServerInv'
<1>1. up # <<>> /\ Head(up).part = "head" /\ UNCHANGED <<pc, cur, reply, reqs>>
  BY DEF ServerReply, client, locals
<1>2. pc # "tunnel"
  BY <1>1, Typed, TailType DEF ServerInv, Base, StreamTypes
<1>3. CASE pc \in {"send_body", "receive"}
  BY <1>1, <1>3, ServedRequest DEF ServerInv, Replied, Kind
<1>4. CASE pc = "auth_receive"
  BY <1>1, <1>4, ServedRequest DEF ServerInv, Replied
<1>5. CASE pc = "auth_final"
  BY <1>1, <1>5, ServedRequest DEF ServerInv, Replied
<1> QED
  BY <1>1, <1>2, <1>3, <1>4, <1>5 DEF ServerInv, Quiet, Rest

LEMMA ServerDataServer == ASSUME Base, ServerInv, ServerData PROVE ServerInv'
<1>1. /\ up \in Seq(Ups) /\ down \in Seq(Downs) /\ pc = "tunnel" /\ UNCHANGED <<pc, cur>>
      /\ up # <<>> /\ up' = Tail(up)
      /\ down' = Append(down, Sent(Head(up).of, "body", NoReply))
      /\ \A i \in DOMAIN up : up[i].of = cur /\ up[i].part = "body"
  BY Typed DEF ServerData, locals, Base, StreamTypes, ServerInv
<1>2. /\ Head(up).of = cur
      /\ \A i \in DOMAIN up' : up'[i].of = cur /\ up'[i].part = "body"
  BY <1>1, TailType
<1> QED
  BY <1>1, <1>2 DEF ServerInv

LEMMA ServerCloseServer == ASSUME Base, ServerInv, ServerClose PROVE ServerInv'
BY Heads DEF Base, ControlInv, ServerInv, Quiet, Asked, Replied, Rest, HasBodyItem, Nothing,
             Stray, Unannounced, Wanted, ToServer, Kind, HostInv, Served, ServerClose,
             client, locals

LEMMA ClientCloseServer == ASSUME Base, ServerInv, ClientClose PROVE ServerInv'
BY Heads DEF Base, ControlInv, ServerInv, Quiet, Asked, Replied, Rest, HasBodyItem, Nothing,
             Stray, Unannounced, Wanted, ToServer, Kind, HostInv, Served, ClientClose,
             server, locals

LEMMA ClientDataServer == ASSUME Base, ServerInv, ClientData PROVE ServerInv'
BY Heads DEF Base, ControlInv, ServerInv, Quiet, Asked, Replied, Rest, HasBodyItem, Nothing,
             Stray, Unannounced, Wanted, ToServer, Kind, HostInv, Served, ClientData,
             client, server, locals

LEMMA ClientRequestServer == ASSUME Base, ServerInv, ClientRequest PROVE ServerInv'
<1>1. CASE cur = 0
  BY <1>1 DEF Base, ControlInv, ServerInv, ClientRequest, server, locals
<1>2. CASE cur # 0
  <2>1. Kind(cur)' = Kind(cur)
    BY <1>2, RequestsStay DEF Kind, Base, TypeOK, ClientRequest, locals
  <2> QED
    BY <2>1 DEF ServerInv, Quiet, Asked, Replied, Rest, HasBodyItem, Nothing, Stray,
                Unannounced, Wanted, ToServer, Sent, ClientRequest, server, locals
<1> QED
  BY <1>1, <1>2

LEMMA ServerThread == ASSUME Base, ClientInv, ServerInv, Thread PROVE ServerInv'
BY ReadServer, DecideServer, ForwardServer, ForwardNextServer, ReturnedServer,
   ConnectServer, EstablishedServer, TunnelServer, SendHeadServer, SendBodyServer,
   ReceiveServer, UnauthorizedServer, AuthDropServer, AuthProbeServer, AuthReceiveServer,
   AuthChallengeServer, AuthAnswerServer, AuthFinalServer, RespondServer, BodyServer,
   WhileServer, NextRequestServer, BailoutServer
DEF Thread

LEMMA ServerNext == ASSUME Base, ClientInv, ServerInv, [Next]_vars PROVE ServerInv'
<1>1. CASE UNCHANGED vars
  BY <1>1 DEF vars, client, server, locals, ServerInv, Quiet, Asked, Replied, Rest,
              HasBodyItem, Nothing, Stray, Unannounced, Wanted, ToServer, Sent, Kind
<1> QED
  BY <1>1, ServerThread, ServerReplyServer, ServerDataServer, ServerCloseServer,
     ClientCloseServer, ClientRequestServer, ClientDataServer DEF Next, Server

Streams == Base /\ ClientInv /\ ServerInv

(* What is read next is what the thread takes it for. *)
LEMMA InStepNow == ASSUME Streams PROVE FramesInStep
<1>1. pc \in {"read", "next", "forward_next"} /\ cstream # <<>> =>
          Head(cstream) = Item(cur + 1, "head")
  BY FirstUnread DEF Streams, ClientInv, Alive, First, Unread, Base, ControlInv
<1>2. pc \in {"send_body", "forward"} /\ Kind(cur) = "post" /\ cstream # <<>> =>
          Head(cstream) = Item(cur, "body")
  BY FirstUnread DEF Streams, ClientInv, Alive, First, Unread, Bodied, Base, ControlInv
<1>3. pc \in {"receive", "auth_receive", "auth_final"} /\ down # <<>> /\ ~Stray =>
          /\ Head(down).part = "head" /\ Head(down).of = cur
          /\ Head(down).reply.probe = (pc = "auth_receive")
  <2>1. CASE pc = "receive"
    BY <2>1, Arrived DEF Streams, ServerInv
  <2>2. CASE pc = "auth_receive"
    BY <2>2, Arrived DEF Streams, ServerInv
  <2>3. CASE pc = "auth_final"
    BY <2>3, Arrived DEF Streams, ServerInv
  <2> QED
    BY <2>1, <2>2, <2>3
<1>4. pc \in {"body", "auth_drop", "auth_challenge"} /\ down # <<>> =>
          Head(down) = Sent(cur, "body", reply)
  BY Rested DEF Streams, ServerInv
<1>5. pc \in {"next", "established"} => down = <<>> \/ Stray
  BY DEF Streams, ServerInv, Quiet, Nothing
<1> QED
  BY <1>1, <1>2, <1>3, <1>4, <1>5 DEF FramesInStep

-----------------------------------------------------------------------------
(* What the client gets *)

LEMMA Writing ==
    ASSUME Base, RepliesAreOwn, UNCHANGED reqs, NEW item \in Gots, Write(item), ~item.reply.probe,
           cgot = <<>> => item.of = 1 /\ item.part # "body",
           cgot # <<>> => Follows(Last, item)
    PROVE  /\ RepliesAreOwn' /\ cgot' # <<>> /\ Last' = item
           /\ \A i \in DOMAIN cgot' : \/ i \in DOMAIN cgot /\ cgot'[i] = cgot[i]
                                      \/ cgot'[i] = item
<1>1. cgot \in Seq(Gots) /\ Len(cgot) \in Nat
  BY Typed DEF Base, StreamTypes
<1>2. /\ Len(cgot') = Len(cgot) + 1 /\ cgot' # <<>>
      /\ \A i \in DOMAIN cgot : cgot'[i] = cgot[i]
      /\ cgot'[Len(cgot) + 1] = item
      /\ DOMAIN cgot' = DOMAIN cgot \cup {Len(cgot) + 1}
  BY <1>1, AppendType DEF Write
<1>3. \A i \in DOMAIN cgot' : ~cgot'[i].reply.probe
  BY <1>2 DEF RepliesAreOwn
<1>4. cgot'[1].of = 1 /\ cgot'[1].part # "body"
  <2>1. CASE cgot = <<>>
    BY <2>1, <1>2
  <2>2. CASE cgot # <<>>
    <3>1. 1 \in DOMAIN cgot
      BY <2>2, <1>1
    <3> QED
      BY <2>2, <3>1, <1>2 DEF RepliesAreOwn
  <2> QED
    BY <2>1, <2>2
<1>5. ASSUME NEW i \in DOMAIN cgot' \ {1} PROVE Follows(cgot'[i - 1], cgot'[i])
  <2>1. CASE i \in DOMAIN cgot
    <3>1. i - 1 \in DOMAIN cgot
      BY <2>1, <1>1
    <3> QED
      BY <2>1, <3>1, <1>2 DEF RepliesAreOwn
  <2>2. CASE i = Len(cgot) + 1
    <3>1. i - 1 = Len(cgot) /\ Len(cgot) \in DOMAIN cgot /\ cgot # <<>>
      BY <2>2, <1>1
    <3> QED
      BY <2>2, <3>1, <1>2 DEF Last
  <2> QED
    BY <2>1, <2>2, <1>2
<1>6. \A a, b : Follows(a, b)' <=> Follows(a, b)
  BY DEF Follows, Whole, Cut, Kind
<1> QED
  BY <1>2, <1>3, <1>4, <1>5, <1>6 DEF RepliesAreOwn, Last

LEMMA NotWriting ==
    ASSUME RepliesAreOwn, UNCHANGED <<reqs, cgot>>
    PROVE  RepliesAreOwn'
BY DEF RepliesAreOwn, Follows, Whole, Cut, Kind

Answers == RepliesAreOwn /\ AnswerInv

(* An answer to a request that had none *)
LEMMA Answering ==
    ASSUME Base, Answers, Alive, Open, cur # 0, UNCHANGED <<reqs, cur>>,
           NEW p \in {"head", "page"}, NEW r \in Reply, ~r.probe, Write(Sent(cur, p, r))
    PROVE  /\ RepliesAreOwn' /\ cgot' # <<>> /\ Last' = Sent(cur, p, r) /\ Reached(cur)'
           /\ \A i \in DOMAIN cgot' : cgot'[i].of <= Len(reqs')
<1> DEFINE item == Sent(cur, p, r)
<1>1. cur \in Nat \ {0} /\ cur <= Len(reqs) /\ cur \in Numbers
  BY Written DEF Base, TypeOK
<1>2. item \in Gots /\ item.of = cur /\ item.part # "body" /\ item.reply = r
  BY <1>1 DEF Gots, Sent
<1>3. Reached(cur - 1) /\ Complete
  BY DEF Answers, AnswerInv
<1> HIDE DEF item
<1>4. cgot = <<>> => item.of = 1
  BY <1>1, <1>2, <1>3 DEF Reached
<1>5. cgot # <<>> => Follows(Last, item)
  BY <1>1, <1>2, <1>3 DEF Reached, Complete, Follows
<1>6. Write(item) /\ ~item.reply.probe
  BY <1>2 DEF item
<1>7. /\ RepliesAreOwn' /\ cgot' # <<>> /\ Last' = item
      /\ \A i \in DOMAIN cgot' : \/ i \in DOMAIN cgot /\ cgot'[i] = cgot[i]
                                 \/ cgot'[i] = item
  BY <1>2, <1>4, <1>5, <1>6, Writing DEF Answers
<1> QED
  BY <1>1, <1>2, <1>7 DEF Reached, Answers, AnswerInv, item

LEMMA ReadAnswers == ASSUME Base, ClientInv, Answers, Read PROVE Answers'
<1>1. cur \in Nat /\ (HeadReady(cstream) => cur' = cur + 1 /\ (cur + 1) - 1 = cur)
  BY NextNumber DEF Base, TypeOK
<1>2. RepliesAreOwn'
  BY NotWriting DEF Answers, Read, client, server, Goto, HeadReady, HeadFails
<1>3. AnswerInv'
  BY <1>1 DEF Answers, AnswerInv, Open, Alive, Reached, Complete, Last, Whole, Cut, Kind, Base,
              ControlInv, Read, client, server, Goto, HeadReady, HeadFails
<1> QED
  BY <1>2, <1>3 DEF Answers

LEMMA DecideAnswers == ASSUME Base, Answers, Decide PROVE Answers'
<1>1. RepliesAreOwn'
  BY NotWriting DEF Answers, Decide, client, server, Goto, NoProxyMatch
<1>2. AnswerInv'
  BY DEF Answers, AnswerInv, Open, Alive, Reached, Complete, Last, Whole, Cut, Kind, Base,
         ControlInv, Decide, client, server, Goto, NoProxyMatch
<1> QED
  BY <1>1, <1>2 DEF Answers

LEMMA ForwardNextAnswers == ASSUME Base, ClientInv, Answers, ForwardNext PROVE Answers'
<1>1. cur \in Nat /\ (HeadReady(cstream) => cur' = cur + 1 /\ (cur + 1) - 1 = cur)
  BY NextNumber DEF Base, TypeOK
<1>2. RepliesAreOwn'
  BY NotWriting DEF Answers, ForwardNext, client, server, Goto, SameHost, HeadReady,
                    HeadFails
<1>3. AnswerInv'
  BY <1>1 DEF Answers, AnswerInv, Open, Alive, Reached, Complete, Last, Whole, Cut, Kind, Base,
              ControlInv, ForwardNext, client, server, Goto, SameHost, HeadReady, HeadFails
<1> QED
  BY <1>2, <1>3 DEF Answers

LEMMA ReturnedAnswers == ASSUME Base, Answers, Returned PROVE Answers'
<1>1. RepliesAreOwn'
  BY NotWriting DEF Answers, Returned, client, server, locals, Goto
<1>2. AnswerInv'
  BY DEF Answers, AnswerInv, Open, Alive, Reached, Complete, Last, Whole, Cut, Kind, Base,
         ControlInv, Returned, client, server, locals, Goto
<1> QED
  BY <1>1, <1>2 DEF Answers

LEMMA SendHeadAnswers == ASSUME Base, Answers, SendHead PROVE Answers'
<1>1. RepliesAreOwn'
  BY NotWriting DEF Answers, SendHead, client, Goto, Drop, ServerClosed
<1>2. AnswerInv'
  BY DEF Answers, AnswerInv, Open, Alive, Reached, Complete, Last, Whole, Cut, Kind, Base,
         ControlInv, SendHead, client, Goto, Drop, ServerClosed
<1> QED
  BY <1>1, <1>2 DEF Answers

LEMMA SendBodyAnswers == ASSUME Base, Answers, SendBody PROVE Answers'
<1>1. RepliesAreOwn'
  BY NotWriting DEF Answers, SendBody, client, Goto, Drop, Kind, ClientClosed, ServerClosed
<1>2. AnswerInv'
  BY DEF Answers, AnswerInv, Open, Alive, Reached, Complete, Last, Whole, Cut, Kind, Base,
         ControlInv, SendBody, client, Goto, Drop, ClientClosed, ServerClosed
<1> QED
  BY <1>1, <1>2 DEF Answers

LEMMA ReceiveAnswers == ASSUME Base, Answers, Receive PROVE Answers'
<1>1. RepliesAreOwn'
  BY NotWriting DEF Answers, Receive, client, Goto, Drop, HeadReady, HeadFails
<1>2. AnswerInv'
  BY DEF Answers, AnswerInv, Open, Alive, Reached, Complete, Last, Whole, Cut, Kind, Base,
         ControlInv, Receive, client, Goto, Drop, HeadReady, HeadFails
<1> QED
  BY <1>1, <1>2 DEF Answers

LEMMA WhileAnswers == ASSUME Base, Answers, While PROVE Answers'
<1>1. RepliesAreOwn'
  BY NotWriting DEF Answers, While, client, server, locals, Goto, ClientClosed, ServerClosed
<1>2. AnswerInv'
  BY DEF Answers, AnswerInv, Open, Alive, Reached, Complete, Last, Whole, Cut, Kind, Base,
         ControlInv, While, client, server, locals, Goto, ClientClosed, ServerClosed
<1> QED
  BY <1>1, <1>2 DEF Answers

LEMMA NextRequestAnswers == ASSUME Base, ClientInv, Answers, NextRequest PROVE Answers'
<1>1. cur \in Nat /\ (HeadReady(cstream) => cur' = cur + 1 /\ (cur + 1) - 1 = cur)
  BY NextNumber DEF Base, TypeOK
<1>2. RepliesAreOwn'
  BY NotWriting DEF Answers, NextRequest, client, server, Goto, Drop, Begin, Kind, SameHost,
                    HeadReady, HeadFails
<1>3. AnswerInv'
  BY <1>1 DEF Answers, AnswerInv, Open, Alive, Reached, Complete, Last, Whole, Cut, Kind, Base,
              ControlInv, NextRequest, client, server, Goto, Drop, Begin, SameHost,
              HeadReady, HeadFails
<1> QED
  BY <1>2, <1>3 DEF Answers

LEMMA BailoutAnswers == ASSUME Base, Answers, Bailout PROVE Answers'
<1>1. RepliesAreOwn'
  BY NotWriting DEF Answers, Bailout, client, locals, Goto, NotConnected
<1>2. AnswerInv'
  BY DEF Answers, AnswerInv, Open, Alive, Reached, Complete, Last, Whole, Cut, Kind, Base,
         ControlInv, Bailout, client, locals, Goto, NotConnected
<1> QED
  BY <1>1, <1>2 DEF Answers

LEMMA ServerReplyAnswers == ASSUME Base, Answers, ServerReply PROVE Answers'
<1>1. RepliesAreOwn'
  BY NotWriting DEF Answers, ServerReply, client, locals, Kind
<1>2. AnswerInv'
  BY DEF Answers, AnswerInv, Open, Alive, Reached, Complete, Last, Whole, Cut, Kind, Base,
         ControlInv, ServerReply, client, locals
<1> QED
  BY <1>1, <1>2 DEF Answers

LEMMA ServerDataAnswers == ASSUME Base, Answers, ServerData PROVE Answers'
<1>1. RepliesAreOwn'
  BY NotWriting DEF Answers, ServerData, client, locals
<1>2. AnswerInv'
  BY DEF Answers, AnswerInv, Open, Alive, Reached, Complete, Last, Whole, Cut, Kind, Base,
         ControlInv, ServerData, client, locals
<1> QED
  BY <1>1, <1>2 DEF Answers

LEMMA ServerCloseAnswers == ASSUME Base, Answers, ServerClose PROVE Answers'
<1>1. RepliesAreOwn'
  BY NotWriting DEF Answers, ServerClose, client, locals
<1>2. AnswerInv'
  BY DEF Answers, AnswerInv, Open, Alive, Reached, Complete, Last, Whole, Cut, Kind, Base,
         ControlInv, ServerClose, client, locals
<1> QED
  BY <1>1, <1>2 DEF Answers

LEMMA ClientCloseAnswers == ASSUME Base, Answers, ClientClose PROVE Answers'
<1>1. RepliesAreOwn'
  BY NotWriting DEF Answers, ClientClose, server, locals
<1>2. AnswerInv'
  BY DEF Answers, AnswerInv, Open, Alive, Reached, Complete, Last, Whole, Cut, Kind, Base,
         ControlInv, ClientClose, server, locals
<1> QED
  BY <1>1, <1>2 DEF Answers

(* The ways to give up: with the page of an error or without *)
LEMMA GivesUp ==
    ASSUME Base, Answers, Alive, Open, cur # 0, UNCHANGED <<reqs, cur>>, PageAndDrop
    PROVE  Answers'
<1>1. ~Alive' /\ pc' = "bailout"
  BY DEF PageAndDrop, Drop, Goto, Alive
<1>2. NoReply \in Reply /\ ~NoReply.probe /\ Write(Sent(cur, "page", NoReply))
  BY DEF NoReply, Reply, PageAndDrop, Page
<1>3. RepliesAreOwn' /\ \A i \in DOMAIN cgot' : cgot'[i].of <= Len(reqs')
  BY <1>2, Answering
<1> QED
  BY <1>1, <1>3 DEF Answers, AnswerInv

LEMMA StillOpen ==
    ASSUME Base, Answers, Alive, Open, Alive' => Open', UNCHANGED <<reqs, cur, cgot>>,
           pc' \notin {"tunnel", "body"}
    PROVE  Answers'
<1>1. RepliesAreOwn'
  BY NotWriting DEF Answers
<1> QED
  BY <1>1 DEF Answers, AnswerInv, Reached, Complete, Last, Whole, Cut, Kind

LEMMA ConnectAnswers == ASSUME Base, Answers, Connect PROVE Answers'
<1>1. Alive /\ Open /\ cur # 0 /\ UNCHANGED <<reqs, cur>>
  BY DEF Connect, Alive, Open, Base, ControlInv, client
<1>2. \/ PageAndDrop
      \/ UNCHANGED cgot /\ (Alive' => Open') /\ pc' \notin {"tunnel", "body"}
  BY DEF Connect, client, Goto, Drop, Begin, Alive, Open, Base, ControlInv
<1> QED
  BY <1>1, <1>2, GivesUp, StillOpen

LEMMA UnauthorizedAnswers == ASSUME Base, Answers, Unauthorized PROVE Answers'
<1>1. Alive /\ Open /\ cur # 0 /\ UNCHANGED <<reqs, cur>>
  BY DEF Unauthorized, Alive, Open, Base, ControlInv, client
<1>2. \/ PageAndDrop
      \/ UNCHANGED cgot /\ (Alive' => Open') /\ pc' \notin {"tunnel", "body"}
  BY DEF Unauthorized, client, Goto, Drop, Alive, Open, Base, ControlInv
<1> QED
  BY <1>1, <1>2, GivesUp, StillOpen

LEMMA AuthDropAnswers == ASSUME Base, Answers, AuthDrop PROVE Answers'
<1>1. Alive /\ Open /\ cur # 0 /\ UNCHANGED <<reqs, cur>>
  BY DEF AuthDrop, AuthRead, AuthSend, Dropped, Alive, Open, Base, ControlInv, client
<1>2. \/ PageAndDrop
      \/ UNCHANGED cgot /\ (Alive' => Open') /\ pc' \notin {"tunnel", "body"}
  BY DEF AuthDrop, client, Goto, Drop, Dropped, Alive, Open, Base, ControlInv
<1> QED
  BY <1>1, <1>2, GivesUp, StillOpen

LEMMA AuthProbeAnswers == ASSUME Base, Answers, AuthProbe PROVE Answers'
<1>1. Alive /\ Open /\ cur # 0 /\ UNCHANGED <<reqs, cur>>
  BY DEF AuthProbe, AuthRead, AuthSend, Dropped, Alive, Open, Base, ControlInv, client
<1>2. \/ PageAndDrop
      \/ UNCHANGED cgot /\ (Alive' => Open') /\ pc' \notin {"tunnel", "body"}
  BY DEF AuthProbe, client, Goto, Drop, AuthSend, Alive, Open, Base, ControlInv
<1> QED
  BY <1>1, <1>2, GivesUp, StillOpen

LEMMA AuthReceiveAnswers == ASSUME Base, Answers, AuthReceive PROVE Answers'
<1>1. Alive /\ Open /\ cur # 0 /\ UNCHANGED <<reqs, cur>>
  BY DEF AuthReceive, AuthRead, AuthSend, Dropped, Alive, Open, Base, ControlInv, client
<1>2. \/ PageAndDrop
      \/ UNCHANGED cgot /\ (Alive' => Open') /\ pc' \notin {"tunnel", "body"}
  BY DEF AuthReceive, client, Goto, Drop, AuthRead, Alive, Open, Base, ControlInv
<1> QED
  BY <1>1, <1>2, GivesUp, StillOpen

LEMMA AuthChallengeAnswers == ASSUME Base, Answers, AuthChallenge PROVE Answers'
<1>1. Alive /\ Open /\ cur # 0 /\ UNCHANGED <<reqs, cur>>
  BY DEF AuthChallenge, AuthRead, AuthSend, Dropped, Alive, Open, Base, ControlInv, client
<1>2. \/ PageAndDrop
      \/ UNCHANGED cgot /\ (Alive' => Open') /\ pc' \notin {"tunnel", "body"}
  BY DEF AuthChallenge, client, Goto, Drop, Dropped, Alive, Open, Base, ControlInv
<1> QED
  BY <1>1, <1>2, GivesUp, StillOpen

LEMMA AuthAnswerAnswers == ASSUME Base, Answers, AuthAnswer PROVE Answers'
<1>1. Alive /\ Open /\ cur # 0 /\ UNCHANGED <<reqs, cur>>
  BY DEF AuthAnswer, AuthRead, AuthSend, Dropped, Alive, Open, Base, ControlInv, client
<1>2. \/ PageAndDrop
      \/ UNCHANGED cgot /\ (Alive' => Open') /\ pc' \notin {"tunnel", "body"}
  BY DEF AuthAnswer, client, Goto, Drop, AuthSend, Alive, Open, Base, ControlInv
<1> QED
  BY <1>1, <1>2, GivesUp, StillOpen

LEMMA AuthFinalAnswers == ASSUME Base, Answers, AuthFinal PROVE Answers'
<1>1. Alive /\ Open /\ cur # 0 /\ UNCHANGED <<reqs, cur>>
  BY DEF AuthFinal, AuthRead, AuthSend, Dropped, Alive, Open, Base, ControlInv, client
<1>2. \/ PageAndDrop
      \/ UNCHANGED cgot /\ (Alive' => Open') /\ pc' \notin {"tunnel", "body"}
  BY DEF AuthFinal, client, Goto, Drop, AuthRead, Alive, Open, Base, ControlInv
<1> QED
  BY <1>1, <1>2, GivesUp, StillOpen

LEMMA ForwardAnswers == ASSUME Base, Answers, Forward PROVE Answers'
<1>1. Alive /\ Open /\ cur # 0 /\ UNCHANGED <<reqs, cur>> /\ NoReply \in Reply /\ ~NoReply.probe
  BY Written DEF Forward, Alive, Open, Base, ControlInv, client, NoReply
<1>0. \A r \in ParentReply(Kind(cur)) : r \in Reply /\ ~r.probe /\ r.framing = "none"
  BY ParentReplies
<1>2. CASE UNCHANGED cgot /\ ret' = "drop"
  BY <1>1, <1>2, StillOpen DEF Forward, Alive, Goto
<1>3. CASE Write(Page) /\ ret' = "drop"
  <2>1. RepliesAreOwn' /\ \A i \in DOMAIN cgot' : cgot'[i].of <= Len(reqs')
    BY <1>1, <1>3, Answering DEF Page
  <2> QED
    BY <1>3, <2>1 DEF Forward, Goto, Answers, AnswerInv, Alive
<1>4. ASSUME NEW r \in ParentReply(Kind(cur)), Write(Sent(cur, "head", r)) PROVE Answers'
  <2>1. /\ RepliesAreOwn' /\ cgot' # <<>> /\ Last' = Sent(cur, "head", r) /\ Reached(cur)'
        /\ \A i \in DOMAIN cgot' : cgot'[i].of <= Len(reqs')
    BY <1>0, <1>1, <1>4, Answering
  <2>2. Complete'
    BY <1>0, <2>1 DEF Complete, Whole, Cut, Sent
  <2>3. pc' \in {"returned", "forward_next", "forward"} /\ (Alive' => ~Open')
    BY DEF Forward, Goto, Alive, Open, Base, ControlInv
  <2> QED
    BY <2>1, <2>2, <2>3 DEF Answers, AnswerInv
<1> QED
  BY <1>2, <1>3, <1>4 DEF Forward

LEMMA EstablishedAnswers == ASSUME Base, Answers, Established PROVE Answers'
<1>1. Alive /\ Open /\ cur # 0 /\ UNCHANGED <<reqs, cur>> /\ NoReply \in Reply /\ ~NoReply.probe
  BY Written DEF Established, Alive, Open, Base, ControlInv, client, NoReply
<1>2. CASE ClientClosed
  BY <1>1, <1>2, StillOpen DEF Established, Alive, Drop, Goto
<1>3. CASE ~ClientClosed
  <2>1. /\ RepliesAreOwn' /\ cgot' # <<>> /\ Last' = Sent(cur, "head", NoReply) /\ Reached(cur)'
        /\ \A i \in DOMAIN cgot' : cgot'[i].of <= Len(reqs')
    BY <1>1, <1>3, Answering DEF Established
  <2>2. Last'.reply = NoReply
    BY <2>1 DEF Sent
  <2> QED
    BY <1>3, <2>1, <2>2 DEF Established, Goto, Answers, AnswerInv, Alive
<1> QED
  BY <1>2, <1>3

LEMMA RespondAnswers == ASSUME Base, ServerInv, Answers, Respond PROVE Answers'
<1>1. Alive /\ Open /\ cur # 0 /\ UNCHANGED <<reqs, cur, reply>> /\ reply \in Reply /\ ~reply.probe
  BY Written DEF Respond, Alive, Open, Base, ControlInv, ServerInv, client
<1>2. CASE ClientClosed
  BY <1>1, <1>2, StillOpen DEF Respond, Alive, Drop, Goto
<1>3. CASE ~ClientClosed
  <2>1. /\ RepliesAreOwn' /\ cgot' # <<>> /\ Last' = Sent(cur, "head", reply) /\ Reached(cur)'
        /\ \A i \in DOMAIN cgot' : cgot'[i].of <= Len(reqs')
    BY <1>1, <1>3, Answering DEF Respond
  <2>2. pc' = "body" /\ Sent(cur, "head", reply)' = Sent(cur, "head", reply)
    BY <1>1, <1>3 DEF Respond, Goto, Sent
  <2> QED
    BY <2>1, <2>2 DEF Answers, AnswerInv, Open
<1> QED
  BY <1>2, <1>3

(* A body for the answer that is being given *)
LEMMA Continuing ==
    ASSUME Base, Answers, cur # 0, Reached(cur), UNCHANGED <<reqs, cur>>,
           NEW r \in Reply, ~r.probe, Kind(cur) # "head", ~Cut(Last),
           Whole(Last) \/ Last.reply = r,
           Write(Sent(cur, "body", r))
    PROVE  /\ RepliesAreOwn' /\ cgot' # <<>> /\ Last' = Sent(cur, "body", r) /\ Reached(cur)'
           /\ Complete' /\ \A i \in DOMAIN cgot' : cgot'[i].of <= Len(reqs')
<1> DEFINE item == Sent(cur, "body", r)
<1>1. cur \in Nat \ {0} /\ cur <= Len(reqs) /\ cur \in Numbers
  BY Written DEF Base, TypeOK
<1>2. item \in Gots /\ item.of = cur /\ item.part = "body" /\ item.reply = r
  BY <1>1 DEF Gots, Sent
<1>3. cgot # <<>> /\ Follows(Last, item)
  BY <1>1, <1>2 DEF Reached, Follows
<1>4. Write(item) /\ ~item.reply.probe
  BY <1>2
<1> HIDE DEF item
<1>5. /\ RepliesAreOwn' /\ cgot' # <<>> /\ Last' = item
      /\ \A i \in DOMAIN cgot' : \/ i \in DOMAIN cgot /\ cgot'[i] = cgot[i]
                                 \/ cgot'[i] = item
  BY <1>2, <1>3, <1>4, Writing DEF Answers
<1>6. Complete' /\ Reached(cur)'
  BY <1>1, <1>2, <1>5 DEF Complete, Whole, Cut, Reached
<1> QED
  BY <1>1, <1>2, <1>5, <1>6 DEF Answers, AnswerInv, item

LEMMA TunnelAnswers == ASSUME Base, ServerInv, Answers, Tunnel PROVE Answers'
<1>1. /\ cur # 0 /\ UNCHANGED <<reqs, cur>> /\ Kind(cur) = "connect" /\ Reached(cur)
      /\ Last.reply = NoReply /\ NoReply \in Reply /\ ~NoReply.probe /\ pc = "tunnel"
  BY Written DEF Tunnel, Base, ControlInv, client, Answers, AnswerInv, NoReply
<1>2. CASE UNCHANGED cgot
  <2>1. RepliesAreOwn'
    BY <1>1, <1>2, NotWriting DEF Answers
  <2>2. ~Alive'
    BY DEF Tunnel, Drop, Goto, Alive
  <2> QED
    BY <1>1, <1>2, <2>1, <2>2
       DEF Answers, AnswerInv, Tunnel, Drop, Goto, Reached, Complete, Last, Whole, Cut, Kind
<1>3. CASE Write(Sent(cur, "body", NoReply)) /\ UNCHANGED <<ret, pc>>
  <2>1. Last.reply = NoReply /\ ~Cut(Last)
    BY <1>1 DEF Cut, Unannounced, NoReply
  <2>2. /\ RepliesAreOwn' /\ Reached(cur)' /\ Last' = Sent(cur, "body", NoReply)
        /\ \A i \in DOMAIN cgot' : cgot'[i].of <= Len(reqs')
    BY <1>1, <1>3, <2>1, Continuing
  <2>3. Last'.reply = NoReply
    BY <2>2 DEF Sent
  <2> QED
    BY <1>1, <1>3, <2>2, <2>3 DEF Answers, AnswerInv, Alive
<1> QED
  BY <1>2, <1>3 DEF Tunnel, Data

LEMMA BodyWrites ==
    ASSUME Base, Body, down # <<>>, Write(Head(down))
    PROVE  HasBody(Kind(cur), reply) # "none"
<1>1. cgot \in Seq(Gots)
  BY Typed DEF Base, StreamTypes
<1>2. cgot' # cgot
  BY <1>1 DEF Write
<1> QED
  BY <1>2 DEF Body

LEMMA BodyAnswers == ASSUME Base, ServerInv, Answers, Body PROVE Answers'
<1>1. /\ cur # 0 /\ UNCHANGED <<reqs, cur, reply, conn_alive>> /\ Reached(cur)
      /\ reply \in Reply /\ ~reply.probe
      /\ Last = Sent(cur, "head", reply) \/ Last.part = "body"
  BY Written DEF Body, Base, ControlInv, ServerInv, client, Answers, AnswerInv
<1>2. CASE /\ UNCHANGED cgot
           /\ Alive' => pc' = "while" /\ HasBody(Kind(cur), reply) = "none"
  <2>1. RepliesAreOwn'
    BY <1>1, <1>2, NotWriting DEF Answers
  <2>2. Alive' => Complete'
    BY <1>1, <1>2 DEF Complete, Last, Whole, Cut, HasBody, Unannounced, Kind, Sent
  <2> QED
    BY <1>1, <1>2, <2>1, <2>2
       DEF Answers, AnswerInv, Body, BodySend, Drop, Goto, Reached, Last, Open, Sent
<1>3. CASE down # <<>> /\ Write(Head(down)) /\ pc' \in {"body", "while"}
  <2>1. Head(down) = Sent(cur, "body", reply) /\ Kind(cur) # "head"
    BY <1>3, Rested DEF Body, ServerInv, HasBodyItem
  <2>2. Whole(Last) \/ Last.reply = reply
    BY <1>1 DEF Whole, Cut, Sent
  <2>5. ~Cut(Last)
    BY <1>1, <1>3, BodyWrites DEF Cut, Sent, HasBody
  <2>3. /\ RepliesAreOwn' /\ Reached(cur)' /\ Complete' /\ Last' = Sent(cur, "body", reply)
        /\ \A i \in DOMAIN cgot' : cgot'[i].of <= Len(reqs')
    BY <1>1, <1>3, <2>1, <2>2, <2>5, Continuing
  <2>4. Last'.part = "body"
    BY <2>3 DEF Sent
  <2> QED
    BY <1>1, <1>3, <2>3, <2>4 DEF Answers, AnswerInv, Alive, Open
<1> QED
  BY <1>2, <1>3 DEF Body, BodySend, Drop, Goto, Alive, Base, ControlInv

LEMMA ClientRequestAnswers == ASSUME Base, Answers, ClientRequest PROVE Answers'
<1>1. UNCHANGED <<cgot, pc, cur, ret, reply>>
  BY DEF ClientRequest, server, locals
<1>2. cgot \in Seq(Gots) /\ Len(cgot) \in Nat
  BY Typed DEF Base, StreamTypes
<1>3. \A i \in DOMAIN cgot : cgot[i].of \in 1 .. Len(reqs)
  <2>1. \A i \in DOMAIN cgot : cgot[i] \in Gots
    BY <1>2
  <2> QED
    BY <2>1, RequestsStay DEF Gots, Numbers, Answers, AnswerInv
<1>4. \A i \in DOMAIN cgot : reqs'[cgot[i].of] = reqs[cgot[i].of]
  BY <1>3, RequestsStay
<1>5. RepliesAreOwn'
  <2>1. ASSUME NEW i \in DOMAIN cgot \ {1} PROVE Follows(cgot[i - 1], cgot[i])'
    <3>1. i - 1 \in DOMAIN cgot
      BY <1>2
    <3>2. Follows(cgot[i - 1], cgot[i])
      BY DEF Answers, RepliesAreOwn
    <3> QED
      BY <1>1, <1>4, <3>1, <3>2 DEF Follows, Whole, Cut, Kind
  <2> QED
    BY <1>1, <2>1 DEF Answers, RepliesAreOwn
<1>6. cgot # <<>> => (Whole(Last)' <=> Whole(Last)) /\ (Cut(Last)' <=> Cut(Last))
  <2>1. cgot # <<>> => Len(cgot) \in DOMAIN cgot
    BY <1>2
  <2> QED
    BY <1>1, <1>4, <2>1 DEF Whole, Cut, Last, Kind
<1>7. AnswerInv'
  BY <1>1, <1>3, <1>6, RequestsStay
     DEF Answers, AnswerInv, Alive, Open, Reached, Complete, Last, Sent
<1> QED
  BY <1>5, <1>7 DEF Answers

LEMMA ClientDataAnswers == ASSUME Base, Answers, ClientData PROVE Answers'
<1>1. RepliesAreOwn'
  BY NotWriting DEF Answers, ClientData, client
<1>2. AnswerInv'
  BY DEF Answers, AnswerInv, Open, Alive, Reached, Complete, Last, Whole, Cut, Kind, Base,
         ControlInv, ClientData, client, server, locals
<1> QED
  BY <1>1, <1>2 DEF Answers

LEMMA AnswersThread == ASSUME Streams, Answers, Thread PROVE Answers'
BY ReadAnswers, DecideAnswers, ForwardAnswers, ForwardNextAnswers, ReturnedAnswers,
   ConnectAnswers, EstablishedAnswers, TunnelAnswers, SendHeadAnswers, SendBodyAnswers,
   ReceiveAnswers, UnauthorizedAnswers, AuthDropAnswers, AuthProbeAnswers,
   AuthReceiveAnswers, AuthChallengeAnswers, AuthAnswerAnswers, AuthFinalAnswers,
   RespondAnswers, BodyAnswers, WhileAnswers, NextRequestAnswers, BailoutAnswers
DEF Thread, Streams

LEMMA AnswersNext == ASSUME Streams, Answers, [Next]_vars PROVE Answers'
<1>1. CASE UNCHANGED vars
  <2>1. RepliesAreOwn'
    BY <1>1, NotWriting DEF vars, client, Answers
  <2> QED
    BY <1>1, <2>1 DEF vars, client, server, locals, Answers, AnswerInv, Alive, Open,
                      Reached, Complete, Last, Whole, Cut, Kind, Sent
<1> QED
  BY <1>1, AnswersThread, ServerReplyAnswers, ServerDataAnswers, ServerCloseAnswers,
     ClientCloseAnswers, ClientRequestAnswers, ClientDataAnswers DEF Next, Server, Streams

LEMMA InitAnswers == Init => Streams /\ Answers
<1>1. Init => Streams
  BY InitBase DEF Init, Streams, ClientInv, ServerInv, Alive, First, Unread, Item
<1>2. ASSUME Init PROVE Answers
  <2>1. DOMAIN cgot = {}
    BY <1>2 DEF Init
  <2> QED
    BY <1>2, <2>1 DEF Init, Answers, RepliesAreOwn, AnswerInv, Alive, Open, Reached,
                      Complete
<1> QED
  BY <1>1, <1>2

-----------------------------------------------------------------------------
(***************************************************************************)
(* ProxyThread implements OrderedServer.                                   *)
(***************************************************************************)

(* The answer as OrderedServer sees it *)
State ==
    CASE cgot = <<>> -> "whole"
      [] cgot # <<>> /\ Final(Last) -> "final"
      [] cgot # <<>> /\ ~Final(Last) ->
             IF Cut(Last) THEN "cut" ELSE IF Whole(Last) THEN "whole" ELSE "begun"

Count == IF cgot = <<>> THEN 0 ELSE Last.of

Mapped == <<Len(reqs), Count, State, pc = "end">>

(* What a step may write: nothing, ... *)
Silent == UNCHANGED <<reqs, cgot>>

(* ... the first part of the answer to the request at hand, ... *)
Begins(item) ==
    /\ Alive /\ Open /\ cur # 0
    /\ item \in Gots /\ item.of = cur /\ item.part # "body"
    /\ Write(item) /\ UNCHANGED reqs

(* ... or some more of it. *)
Continues(item) ==
    /\ pc # "end" /\ Reached(cur) /\ ~Cut(Last)
    /\ item \in Gots /\ item.of = cur /\ item.part = "body"
    /\ Final(item) <=> Final(Last)
    /\ Write(item) /\ UNCHANGED reqs

LEMMA WroteLast ==
    ASSUME Base, NEW item \in Gots, Write(item)
    PROVE  cgot' # <<>> /\ Last' = item
<1>1. cgot \in Seq(Gots) /\ Len(cgot) \in Nat
  BY Typed DEF Base, StreamTypes
<1> QED
  BY <1>1, AppendType DEF Write, Last

LEMMA BeginsAnswer ==
    ASSUME Base, Answers, Answers', FinalInv, NEW item, Begins(item), pc' # "end"
    PROVE  Ordered!Answer
<1>1. cgot' # <<>> /\ Last' = item
  BY WroteLast DEF Begins
<1>2. Reached(cur - 1) /\ Complete /\ cur \in Nat \ {0} /\ pc # "end" /\ Len(reqs') = Len(reqs)
  BY DEF Begins, Answers, AnswerInv, Base, TypeOK, Alive
<1>3. Count = cur - 1 /\ Count' = cur /\ cur <= Len(reqs)
  BY <1>1, <1>2 DEF Count, Reached, Begins, Base, TypeOK
<1>4. State \in {"whole", "cut"}
  BY <1>2 DEF State, Complete, FinalInv, Begins
<1>5. State' \in {"begun", "whole", "cut", "final"}
  BY <1>1 DEF State
<1>6. Count < Len(reqs) /\ Count' = Count + 1
  BY <1>2, <1>3 DEF Base, TypeOK
<1> QED
  BY <1>2, <1>4, <1>5, <1>6 DEF Ordered!Answer, Count, State

LEMMA ContinuesAnswer ==
    ASSUME Base, NEW item, Continues(item), pc' # "end"
    PROVE  Ordered!Complete \/ UNCHANGED Mapped
<1>1. cgot' # <<>> /\ Last' = item
  BY WroteLast DEF Continues
<1>2. /\ cgot # <<>> /\ Last.of = cur /\ pc # "end" /\ Len(reqs') = Len(reqs) /\ cur # 0
      /\ item.of = cur /\ item.part = "body" /\ (Final(item) <=> Final(Last))
      /\ ~Cut(Last)
  BY DEF Continues, Reached, Gots, Numbers
<1>3. Count' = Count
  BY <1>1, <1>2 DEF Count
<1>4. (Final(Last)' <=> Final(item)) /\ Whole(Last)' /\ ~Cut(Last)'
  BY <1>1, <1>2 DEF Final, Agreed, Whole, Cut, Kind, Continues
<1>5. CASE Final(Last)
  <2>1. State = "final" /\ State' = "final"
    BY <1>1, <1>2, <1>4, <1>5 DEF State
  <2> QED
    BY <1>2, <1>3, <2>1 DEF Mapped
<1>6. CASE ~Final(Last)
  <2>1. State \in {"begun", "whole"} /\ State' = "whole"
    BY <1>1, <1>2, <1>4, <1>6 DEF State
  <2> QED
    BY <1>2, <1>3, <2>1 DEF Mapped, Ordered!Complete, Count, State
<1> QED
  BY <1>5, <1>6

LEMMA SilentMapped ==
    ASSUME Silent
    PROVE  UNCHANGED <<Len(reqs), Count, State>>
BY DEF Silent, Count, State, Last, Final, Agreed, Whole, Cut, Kind

(* What a step of the thread does to the answers *)
Serves ==
    /\ FinalInv'
    /\ \/ Silent
       \/ pc' # "end" /\ \E item : Begins(item) \/ Continues(item)

LEMMA StaysFinal ==
    ASSUME FinalInv, Silent, Alive' => Alive, pc' # "body" \/ (pc = "body" /\ reply' = reply)
    PROVE  Serves
BY DEF FinalInv, Silent, Serves, Last, Final, Agreed, Cut, Kind

LEMMA PageIsFinal ==
    ASSUME Base, FinalInv, Alive, Open, cur # 0, UNCHANGED reqs, PageAndDrop
    PROVE  Serves
<1>1. Page \in Gots /\ Page.of = cur /\ Page.part = "page"
  BY Written DEF Page, Sent
<1>2. Write(Page) /\ pc' = "bailout" /\ ~Alive'
  BY DEF PageAndDrop, Drop, Goto, Alive
<1>3. Begins(Page)
  BY <1>1, <1>2 DEF Begins
<1> QED
  BY <1>2, <1>3 DEF Serves, FinalInv

(* Steps that write nothing *)
LEMMA SilentServes ==
    ASSUME Base, FinalInv,
           Read \/ Decide \/ ForwardNext \/ Returned \/ SendHead \/ SendBody
           \/ Receive \/ While \/ NextRequest \/ Bailout
    PROVE  Serves
<1>1. CASE Read
  BY <1>1, StaysFinal DEF Read, client, server, locals, Goto, Drop, Silent, Alive, Base,
     ControlInv, HeadReady, HeadFails
<1>2. CASE Decide
  BY <1>2, StaysFinal DEF Decide, client, server, locals, Goto, Drop, Silent, Alive, Base,
     ControlInv
<1>3. CASE ForwardNext
  BY <1>3, StaysFinal DEF ForwardNext, client, server, locals, Goto, Drop, Silent, Alive, Base,
     ControlInv, HeadReady, HeadFails, SameHost
<1>4. CASE Returned
  BY <1>4, StaysFinal DEF Returned, client, server, locals, Goto, Drop, Silent, Alive, Base,
     ControlInv
<1>5. CASE SendHead
  BY <1>5, StaysFinal DEF SendHead, client, server, locals, Goto, Drop, Silent, Alive, Base,
     ControlInv
<1>6. CASE SendBody
  BY <1>6, StaysFinal DEF SendBody, client, server, locals, Goto, Drop, Silent, Alive, Base,
     ControlInv
<1>7. CASE Receive
  BY <1>7, StaysFinal DEF Receive, client, server, locals, Goto, Drop, Silent, Alive, Base,
     ControlInv, HeadReady, HeadFails
<1>8. CASE While
  BY <1>8, StaysFinal DEF While, client, server, locals, Goto, Drop, Silent, Alive, Base,
     ControlInv
<1>9. CASE NextRequest
  BY <1>9, StaysFinal DEF NextRequest, client, server, locals, Goto, Drop, Silent, Alive, Base,
     ControlInv, HeadReady, HeadFails, SameHost, Begin
<1>10. CASE Bailout
  BY <1>10, StaysFinal DEF Bailout, client, server, locals, Goto, Drop, Silent, Alive, Base,
     ControlInv, NotConnected
<1> QED
  BY <1>1, <1>2, <1>3, <1>4, <1>5, <1>6, <1>7, <1>8, <1>9, <1>10

(* Steps that write nothing or a page *)
LEMMA PageServes ==
    ASSUME Base, FinalInv,
           Connect \/ Unauthorized \/ AuthDrop \/ AuthProbe \/ AuthReceive
           \/ AuthChallenge \/ AuthAnswer \/ AuthFinal
    PROVE  Serves
<1>1. Alive /\ Open /\ cur # 0 /\ UNCHANGED reqs
  BY DEF Connect, Unauthorized, AuthDrop, AuthProbe, AuthReceive, AuthChallenge, AuthAnswer,
         AuthFinal, AuthSend, AuthRead, Dropped, Alive, Open, Base, ControlInv, client
<1>2. PageAndDrop \/ (UNCHANGED cgot /\ pc' # "body")
  <2>1. CASE Connect
    BY <2>1 DEF Connect, Goto, Drop, Base, ControlInv, Begin
  <2>2. CASE Unauthorized
    BY <2>2 DEF Unauthorized, Goto, Drop, Base, ControlInv
  <2>3. CASE AuthDrop
    BY <2>3 DEF AuthDrop, Goto, Drop, Base, ControlInv, Dropped
  <2>4. CASE AuthProbe
    BY <2>4 DEF AuthProbe, Goto, Drop, Base, ControlInv, AuthSend
  <2>5. CASE AuthReceive
    BY <2>5 DEF AuthReceive, Goto, Drop, Base, ControlInv, AuthRead
  <2>6. CASE AuthChallenge
    BY <2>6 DEF AuthChallenge, Goto, Drop, Base, ControlInv, Dropped
  <2>7. CASE AuthAnswer
    BY <2>7 DEF AuthAnswer, Goto, Drop, Base, ControlInv, AuthSend
  <2>8. CASE AuthFinal
    BY <2>8 DEF AuthFinal, Goto, Drop, Base, ControlInv, AuthRead
  <2> QED
    BY <2>1, <2>2, <2>3, <2>4, <2>5, <2>6, <2>7, <2>8
<1> QED
  BY <1>1, <1>2, PageIsFinal, StaysFinal DEF Silent

(* Steps that begin an answer: a reply of forward_request(), *)
LEMMA ForwardServes == ASSUME Base, FinalInv, Forward PROVE Serves
<1>1. /\ Alive /\ Open /\ cur # 0 /\ UNCHANGED <<reqs, cur>>
      /\ pc' \in {"returned", "forward_next"}
  BY DEF Forward, Alive, Open, Base, ControlInv, client, Goto
<1>2. CASE UNCHANGED cgot
  BY <1>1, <1>2, StaysFinal DEF Silent
<1>3. CASE Write(Page) /\ ret' = "drop"
  <2>1. Page \in Gots /\ Page.of = cur /\ Page.part = "page"
    BY <1>1, Written DEF Page, Sent
  <2>2. Begins(Page)
    BY <1>1, <1>3, <2>1 DEF Begins
  <2> QED
    BY <1>1, <1>3, <2>2 DEF Serves, FinalInv, Alive
<1>4. ASSUME NEW r \in ParentReply(Kind(cur)), Write(Sent(cur, "head", r)),
             ret' = "drop" \/ ~Agreed(Kind(cur), r)
      PROVE  Serves
  <2> DEFINE item == Sent(cur, "head", r)
  <2>0. r \in Reply /\ r.framing = "none"
    BY ParentReplies
  <2>1. item \in Gots /\ item.of = cur /\ item.part = "head" /\ item.reply = r
    BY <1>1, <2>0, Written DEF Sent
  <2>6. Write(item)
    BY <1>4
  <2> HIDE DEF item
  <2>2. Begins(item)
    BY <1>1, <2>1, <2>6 DEF Begins
  <2>3. Last' = item
    BY <2>1, <2>6, WroteLast
  <2>4. Final(Last)' => Agreed(Kind(cur), r)
    BY <1>1, <2>0, <2>1, <2>3 DEF Final, Kind
  <2>5. FinalInv'
    BY <1>1, <1>4, <2>4 DEF FinalInv, Alive
  <2> QED
    BY <1>1, <2>2, <2>5 DEF Serves
<1> QED
  BY <1>2, <1>3, <1>4 DEF Forward

(* cntlm's reply to CONNECT, *)
LEMMA EstablishedServes == ASSUME Base, FinalInv, Established PROVE Serves
<1> DEFINE item == Sent(cur, "head", NoReply)
<1>1. Alive /\ Open /\ cur # 0 /\ UNCHANGED <<reqs, cur>>
  BY DEF Established, Alive, Open, Base, ControlInv, client
<1>2. CASE ClientClosed
  BY <1>1, <1>2, StaysFinal DEF Established, Drop, Goto, Silent
<1>3. CASE ~ClientClosed
  <2>1. item \in Gots /\ item.of = cur /\ item.part = "head"
    BY <1>1, Written DEF Sent
  <2>2. Write(item) /\ pc' = "tunnel"
    BY <1>3 DEF Established, Goto
  <2> HIDE DEF item
  <2>3. Begins(item)
    BY <1>1, <2>1, <2>2 DEF Begins
  <2> QED
    BY <2>2, <2>3 DEF Serves, FinalInv, Alive
<1> QED
  BY <1>2, <1>3

(* and the head of a reply of the server.                                    *)
LEMMA RespondServes == ASSUME Base, FinalInv, Respond PROVE Serves
<1> DEFINE item == Sent(cur, "head", reply)
<1>1. Alive /\ Open /\ cur # 0 /\ UNCHANGED <<reqs, cur, reply>> /\ Kind(cur) # "connect"
  BY DEF Respond, Alive, Open, Base, ControlInv, client, Served
<1>2. CASE ClientClosed
  BY <1>1, <1>2, StaysFinal DEF Respond, Drop, Goto, Silent
<1>3. CASE ~ClientClosed
  <2>1. item \in Gots /\ item.of = cur /\ item.part = "head" /\ item.reply = reply
    BY <1>1, Written DEF Sent
  <2>2. Write(item) /\ pc' = "body"
    BY <1>3 DEF Respond, Goto
  <2> HIDE DEF item
  <2>3. Begins(item)
    BY <1>1, <2>1, <2>2 DEF Begins
  <2>4. cgot' # <<>> /\ Last' = item
    BY <2>1, <2>2, WroteLast
  <2>5. Final(Last)' => HasBody(Kind(cur), reply) = "eof"
    BY <1>1, <2>1, <2>4 DEF Final, Agreed, Cut, Kind, HasBody
  <2>6. HasBody(Kind(cur), reply) = "eof" => ret' = "drop"
    BY <1>3 DEF Respond
  <2>7. FinalInv'
    BY <1>1, <2>1, <2>4, <2>5, <2>6 DEF FinalInv, Alive
  <2> QED
    BY <2>2, <2>3, <2>7 DEF Serves
<1> QED
  BY <1>2, <1>3

(* Steps that go on with it *)
LEMMA MoreIsSame ==
    ASSUME Base, cur # 0, pc # "end", pc' # "end", Reached(cur), ~Cut(Last), UNCHANGED reqs,
           NEW item \in Gots, item.of = cur, item.part = "body", Write(item),
           Final(item) <=> Final(Last), Final(Last) => ~Alive',
           pc' = "body" => item.reply = reply'
    PROVE  Serves
<1>1. Continues(item)
  BY DEF Continues
<1>2. cgot' # <<>> /\ Last' = item
  BY WroteLast
<1>3. Final(Last)' <=> Final(Last)
  BY <1>2 DEF Final, Agreed, Cut, Kind
<1>4. FinalInv'
  BY <1>2, <1>3 DEF FinalInv
<1> QED
  BY <1>1, <1>4 DEF Serves

LEMMA TunnelServes == ASSUME Base, ServerInv, Answers, FinalInv, Tunnel PROVE Serves
<1>1. /\ cur # 0 /\ UNCHANGED <<reqs, cur>> /\ Kind(cur) = "connect" /\ Reached(cur)
      /\ pc = "tunnel" /\ pc' \in {"tunnel", "bailout"} /\ ~Alive' /\ Last.reply = NoReply
  BY DEF Tunnel, Base, ControlInv, client, Answers, AnswerInv, Drop, Goto, Alive
<1>2. CASE UNCHANGED cgot
  BY <1>1, <1>2, StaysFinal DEF Silent
<1>3. CASE Write(Sent(cur, "body", NoReply))
  <2> DEFINE item == Sent(cur, "body", NoReply)
  <2>1. item \in Gots /\ item.of = cur /\ item.part = "body" /\ item.reply = NoReply
    BY <1>1, Written DEF Sent
  <2> HIDE DEF item
  <2>2. Final(item) /\ Final(Last) /\ ~Cut(Last)
    BY <1>1, <2>1 DEF Final, Agreed, Cut, Unannounced, NoReply, Reached
  <2>3. Write(item)
    BY <1>3 DEF item
  <2> QED
    BY <1>1, <2>1, <2>2, <2>3, MoreIsSame
<1> QED
  BY <1>2, <1>3 DEF Tunnel, Data

LEMMA BodyServes == ASSUME Base, ServerInv, Answers, FinalInv, Body PROVE Serves
<1>1. /\ cur # 0 /\ UNCHANGED <<reqs, cur, reply>> /\ Reached(cur) /\ pc = "body"
      /\ cgot # <<>> /\ Last.reply = reply /\ Last.of = cur /\ Last.part # "page"
  BY DEF Body, Base, ControlInv, client, Answers, AnswerInv, FinalInv, Reached, Sent
<1>2. pc' \in {"body", "while", "bailout"} /\ (ret = "drop" => ret' = "drop")
  BY DEF Body, BodySend, Drop, Goto
<1>3. Alive' => Alive
  BY <1>1, <1>2, Typed DEF Alive, Body, BodySend, Drop
<1>4. CASE UNCHANGED cgot
  BY <1>1, <1>3, <1>4, StaysFinal DEF Silent
<1>5. CASE down # <<>> /\ Write(Head(down))
  <2>1. Head(down) = Sent(cur, "body", reply)
    BY <1>1, <1>5, Rested DEF ServerInv
  <2>2. /\ Head(down) \in Gots /\ Head(down).of = cur /\ Head(down).part = "body"
        /\ Head(down).reply = reply
    BY <1>1, <1>5, <2>1, Written DEF Sent
  <2>6. ~Cut(Last)
    BY <1>1, <1>5, BodyWrites DEF Cut, HasBody
  <2>3. Final(Head(down)) <=> Final(Last)
    BY <1>1, <2>2, <2>6 DEF Final, Cut
  <2>4. Final(Last) => ~Alive'
    BY <1>1, <1>3 DEF FinalInv
  <2>5. pc' # "end" /\ pc # "end" /\ UNCHANGED reqs /\ (pc' = "body" => Head(down).reply = reply')
    BY <1>1, <1>2, <2>2
  <2> QED
    BY <1>1, <1>5, <2>2, <2>3, <2>4, <2>5, <2>6, MoreIsSame
<1> QED
  BY <1>4, <1>5 DEF Body, BodySend, Drop, Goto

LEMMA ThreadServes == ASSUME Streams, Answers, FinalInv, Thread PROVE Serves
BY SilentServes, PageServes, ForwardServes, EstablishedServes, RespondServes, TunnelServes,
   BodyServes
DEF Thread, Streams

LEMMA EndStays == ASSUME Thread PROVE pc # "end"
BY DEF Thread, Read, Decide, Forward, ForwardNext, Returned, Connect, Established, Tunnel,
       SendHead, SendBody, Receive, Unauthorized, AuthDrop, AuthProbe, AuthReceive,
       AuthChallenge, AuthAnswer, AuthFinal, Respond, Body, While, NextRequest, Bailout

(* A step of the thread gives the client some of an answer, closes the       *)
(* connection, or is nothing to the client.                                  *)
LEMMA ThreadOrdered ==
    ASSUME Streams, Answers, Answers', FinalInv, Thread
    PROVE  FinalInv' /\ (Ordered!Next \/ UNCHANGED Mapped)
<1>1. FinalInv' /\ pc # "end"
  BY ThreadServes, EndStays DEF Serves
<1>2. CASE Silent
  <2>1. UNCHANGED <<Len(reqs), Count, State>>
    BY <1>2, SilentMapped
  <2>2. CASE pc' = "end"
    <3>1. Ordered!Close
      BY <1>1, <2>1, <2>2 DEF Ordered!Close, Count, State
    <3> QED
      BY <1>1, <3>1 DEF Ordered!Next
  <2>3. CASE pc' # "end"
    BY <1>1, <2>1, <2>3 DEF Mapped
  <2> QED
    BY <2>2, <2>3
<1>3. CASE pc' # "end" /\ \E item : Begins(item) \/ Continues(item)
  BY <1>1, <1>3, BeginsAnswer, ContinuesAnswer DEF Streams, Ordered!Next
<1> QED
  BY <1>2, <1>3, ThreadServes DEF Serves

(* Another request leaves the answers as they are.                           *)
LEMMA RequestOrdered ==
    ASSUME Base, Answers, FinalInv, ClientRequest
    PROVE  FinalInv' /\ Ordered!Request
<1>1. UNCHANGED <<cgot, pc, cur, ret, reply>> /\ pc # "end"
  BY DEF ClientRequest, server, locals
<1>2. cgot # <<>> => Last.of \in 1 .. Len(reqs)
  <2>1. cgot \in Seq(Gots) /\ Len(cgot) \in Nat
    BY Typed DEF Base, StreamTypes
  <2>2. cgot # <<>> => Len(cgot) \in DOMAIN cgot /\ Last \in Gots
    BY <2>1 DEF Last
  <2> QED
    BY <2>2, RequestsStay DEF Gots, Numbers, Last, Answers, AnswerInv
<1>3. Len(reqs') = Len(reqs) + 1 /\ (cgot # <<>> => reqs'[Last.of] = reqs[Last.of])
  BY <1>2, RequestsStay
<1>4. cgot # <<>> => /\ Final(Last)' <=> Final(Last)
                     /\ Whole(Last)' <=> Whole(Last)
                     /\ Cut(Last)' <=> Cut(Last)
  BY <1>1, <1>3 DEF Final, Agreed, Whole, Cut, Last, Kind
<1>5. FinalInv'
  BY <1>1, <1>4 DEF FinalInv, Last, Alive
<1>6. State' = State /\ Count' = Count
  BY <1>1, <1>4 DEF State, Count, Last
<1>7. Ordered!Request
  BY <1>1, <1>3, <1>6 DEF Ordered!Request, State, Count
<1> QED
  BY <1>5, <1>7

(* Everything else is nothing to the client.                                 *)
LEMMA OthersOrdered ==
    ASSUME FinalInv, Server \/ ClientData \/ ClientClose \/ UNCHANGED vars
    PROVE  FinalInv' /\ UNCHANGED Mapped
<1>1. UNCHANGED <<reqs, cgot, pc, ret, reply>>
  BY DEF Server, ServerReply, ServerData, ServerClose, ClientData, ClientClose, vars, client,
         server, locals
<1>2. UNCHANGED <<Len(reqs), Count, State>>
  BY <1>1, SilentMapped DEF Silent
<1>3. FinalInv'
  BY <1>1 DEF FinalInv, Last, Final, Agreed, Cut, Kind, Alive
<1> QED
  BY <1>1, <1>2, <1>3 DEF Mapped

(* The invariant of every run *)
Invariant == Streams /\ Answers /\ FinalInv

LEMMA InvariantStep ==
    ASSUME Invariant, [Next]_vars
    PROVE  Invariant' /\ (Ordered!Next \/ UNCHANGED Mapped)
<1>1. Streams' /\ Answers'
  BY NextBase, ClientNext, ServerNext, AnswersNext DEF Streams, Invariant
<1>2. FinalInv' /\ (Ordered!Next \/ UNCHANGED Mapped)
  BY <1>1, ThreadOrdered, RequestOrdered, OthersOrdered
  DEF Next, Streams, Ordered!Next, Invariant
<1> QED
  BY <1>1, <1>2 DEF Invariant

LEMMA InvariantHolds == Spec => []Invariant
<1>1. Init => Invariant
  BY InitAnswers DEF Init, FinalInv, Invariant
<1>2. Invariant /\ [Next]_vars => Invariant'
  BY InvariantStep
<1> QED
  BY <1>1, <1>2, PTL DEF Spec

(* However requests are pipelined, cut short, refused and authenticated, and *)
(* however replies announce their bodies or fail to: what is read next is    *)
(* what the thread takes it for, but for a body that no header announced.    *)
THEOREM InStep == Spec => []FramesInStep
<1>1. Invariant => FramesInStep
  BY InStepNow DEF Invariant
<1> QED
  BY <1>1, InvariantHolds, PTL

(* The client gets the replies to its requests, one for each, in their order *)
(* and whole unless no header announced a body, and never what was meant for *)
(* www_authenticate().                                                       *)
THEOREM RepliesOwn == Spec => []RepliesAreOwn
<1>1. Invariant => RepliesAreOwn
  BY DEF Invariant, Answers
<1> QED
  BY <1>1, InvariantHolds, PTL

(* The promise of OrderedServer is kept for any hosts, requests, replies and *)
(* interleavings: one answer to each request, in order, whole before the     *)
(* next unless its body was announced nowhere, and none after one that only  *)
(* the end of the connection ends.                                           *)
THEOREM OrderKept == Spec => ImplementsOrdered
<1>1. Init => Invariant /\ Ordered!Init
  BY InitAnswers DEF Init, FinalInv, Invariant, Ordered!Init
<1>2. Invariant /\ [Next]_vars => Invariant' /\ [Ordered!Next]_(Ordered!vars)
  <2>1. UNCHANGED Mapped => UNCHANGED Ordered!vars
    BY DEF Mapped, Count, State, Ordered!vars
  <2> QED
    BY <2>1, InvariantStep
<1> QED
  BY <1>1, <1>2, PTL DEF Spec, ImplementsOrdered, Ordered!Spec

=============================================================================
