------------------------- MODULE ProxyConnect_proofs -------------------------
(***************************************************************************)
(* Proofs about ProxyConnect: for any number of threads, parents and       *)
(* descriptors.                                                            *)
(***************************************************************************)
EXTENDS ProxyConnect, SequenceTheorems, TLAPS

(* A thread in proxy_connect() has attempts left while it tries.  A call     *)
(* that has not connected holds no descriptor.                               *)
CallInv ==
    \A t \in Threads :
        /\ at[t] \in {"select", "pick", "try", "advance"} => loop[t] < ParentCount
        /\ at[t] \in {"idle", "select", "pick", "try", "advance"} => sd[t] \notin Fds
        /\ at[t] = "holding" => sd[t] \in Fds

(* Only a list with nodes can have been freed. *)
FreedInv == heap = "freed" => connection_list # << >>

ControlInv == TypeOK /\ ParentExists /\ CallInv /\ FreedInv

-----------------------------------------------------------------------------
LEMMA NextParentExists ==
    ASSUME parent_curr \in 0..ParentCount
    PROVE  NextParent \in Parents
BY ParentsAssumption DEF NextParent, Parents

LEMMA CloseAllType ==
    ASSUME TypeOK, NEW S, CloseAll(S)
    PROVE  sock' \in [Fds -> SockState] /\ peer' \in [Fds -> 0..ParentCount]
BY ParentsAssumption DEF TypeOK, CloseAll, SockState

LEMMA PoppedList ==
    ASSUME connection_list \in Seq(Fds),
           NEW k \in 1..Len(connection_list) + 1,
           connection_list' = SubSeq(connection_list, k + 1, Len(connection_list))
    PROVE  /\ connection_list' \in Seq(Fds)
           /\ k <= Len(connection_list) => Len(connection_list') = Len(connection_list) - k
           /\ k > Len(connection_list) => Len(connection_list') = 0
           /\ \A i \in 1..Len(connection_list') :
                 connection_list'[i] = connection_list[i + k]
OBVIOUS

-----------------------------------------------------------------------------
(* Types, and the parent a thread uses *)

LEMMA InitControl == Init => ControlInv
BY ParentsAssumption, FdsAssumption
DEF Init, ControlInv, TypeOK, ParentExists, CallInv, FreedInv, Parents,
    HeapState, SockState, Position, NotFds

LEMMA PopControl ==
    ASSUME ControlInv, NEW t \in Threads, Pop(t)
    PROVE  ControlInv'
<1>1. PICK k \in 1..Len(connection_list) + 1 : PopTo(t, k)
  BY DEF Pop
<1>2. connection_list' \in Seq(Fds)
  BY <1>1, PoppedList DEF PopTo, ControlInv, TypeOK
<1>3. sock' \in [Fds -> SockState] /\ peer' \in [Fds -> 0..ParentCount]
  BY <1>1, CloseAllType DEF PopTo, ControlInv
<1>4. heap' \in HeapState /\ FreedInv'
  <2>1. heap = "freed" => heap' = "undefined"
    BY DEF Pop, TouchNodes, ControlInv, FreedInv
  <2>2. heap # "freed" => heap' = heap
    BY DEF Pop, TouchNodes
  <2>. QED
    BY <2>1, <2>2 DEF ControlInv, TypeOK, FreedInv, HeapState
<1>5. CASE k <= Len(connection_list)
  <2>1. connection_list[k] \in Fds
    BY <1>5 DEF ControlInv, TypeOK
  <2>2. /\ sd' = [sd EXCEPT ![t] = connection_list[k]]
        /\ at' = [at EXCEPT ![t] = "holding"]
    BY <1>1, <1>5 DEF PopTo, Goto, ControlInv, TypeOK
  <2>3. TypeOK'
    BY <2>1, <2>2, <1>2, <1>3, <1>4 DEF Pop, ControlInv, TypeOK, Position
  <2>4. ParentExists' /\ CallInv'
    BY <2>1, <2>2 DEF Pop, ControlInv, TypeOK, ParentExists, CallInv
  <2>. QED
    BY <2>3, <2>4, <1>4 DEF ControlInv
<1>6. CASE k > Len(connection_list)
  <2>1. sd' = [sd EXCEPT ![t] = NoFd] /\ at' = at
    BY <1>1, <1>6 DEF PopTo, ControlInv, TypeOK
  <2>2. TypeOK'
    BY <2>1, <1>2, <1>3, <1>4 DEF Pop, ControlInv, TypeOK, NotFds
  <2>3. ParentExists' /\ CallInv'
    BY <2>1, FdsAssumption DEF Pop, ControlInv, TypeOK, ParentExists, CallInv
  <2>. QED
    BY <2>2, <2>3, <1>4 DEF ControlInv
<1>7. k <= Len(connection_list) \/ k > Len(connection_list)
  BY DEF ControlInv, TypeOK
<1>. QED
  BY <1>5, <1>6, <1>7

LEMMA StoreControl ==
    ASSUME ControlInv, NEW t \in Threads, Store(t)
    PROVE  ControlInv'
<1>1. sd[t] \in Fds
  BY DEF Store, ControlInv, CallInv
<1>2. /\ connection_list' \in Seq(Fds)
      /\ connection_list' # << >>
  BY <1>1 DEF Store, ControlInv, TypeOK
<1>3. heap' \in HeapState
  BY DEF Store, TouchNodes, ControlInv, TypeOK, HeapState
<1>4. TypeOK'
  BY <1>2, <1>3 DEF Store, Goto, ControlInv, TypeOK, Position, NotFds
<1>5. ParentExists' /\ CallInv' /\ FreedInv'
  BY <1>2, FdsAssumption
  DEF Store, Goto, ControlInv, TypeOK, ParentExists, CallInv, FreedInv
<1>. QED
  BY <1>4, <1>5 DEF ControlInv

LEMMA CloseControl ==
    ASSUME ControlInv, NEW t \in Threads, Close(t)
    PROVE  ControlInv'
<1>1. sock' \in [Fds -> SockState] /\ peer' \in [Fds -> 0..ParentCount]
  BY CloseAllType DEF Close, ControlInv
<1>2. TypeOK'
  BY <1>1 DEF Close, Goto, pool, ControlInv, TypeOK, Position, NotFds
<1>3. ParentExists' /\ CallInv' /\ FreedInv'
  BY FdsAssumption
  DEF Close, Goto, pool, ControlInv, TypeOK, ParentExists, CallInv, FreedInv
<1>. QED
  BY <1>2, <1>3 DEF ControlInv

LEMMA RemoteCloseControl ==
    ASSUME ControlInv, NEW fd \in Fds, RemoteClose(fd)
    PROVE  ControlInv'
BY DEF RemoteClose, pool, locals, ControlInv, TypeOK, ParentExists, CallInv,
       FreedInv, SockState

LEMMA EnterControl ==
    ASSUME ControlInv, NEW t \in Threads, Enter(t)
    PROVE  ControlInv'
<1>1. TypeOK'
  BY ParentsAssumption DEF Enter, Goto, pool, ControlInv, TypeOK, Position, NotFds
<1>2. ParentExists' /\ CallInv' /\ FreedInv'
  BY ParentsAssumption, FdsAssumption
  DEF Enter, Goto, pool, ControlInv, TypeOK, ParentExists, CallInv, FreedInv
<1>. QED
  BY <1>1, <1>2 DEF ControlInv

LEMMA SelectFirstControl ==
    ASSUME ControlInv, NEW t \in Threads, SelectFirst(t)
    PROVE  ControlInv'
<1>1. TypeOK'
  BY ParentsAssumption DEF SelectFirst, Goto, pool, ControlInv, TypeOK, Position
<1>2. parent_curr' \in Parents
  BY ParentsAssumption DEF SelectFirst, ControlInv, TypeOK, Parents
<1>3. ParentExists'
  BY <1>2 DEF SelectFirst, Goto, ControlInv, TypeOK, ParentExists
<1>4. CallInv' /\ FreedInv'
  BY DEF SelectFirst, Goto, pool, ControlInv, TypeOK, CallInv, FreedInv
<1>. QED
  BY <1>1, <1>3, <1>4 DEF ControlInv

LEMMA PickControl ==
    ASSUME ControlInv, NEW t \in Threads, Pick(t)
    PROVE  ControlInv'
<1>1. TypeOK'
  BY DEF Pick, Goto, pool, ControlInv, TypeOK, Position
<1>2. ParentExists' /\ CallInv' /\ FreedInv'
  BY DEF Pick, Goto, pool, ControlInv, TypeOK, ParentExists, CallInv, FreedInv
<1>. QED
  BY <1>1, <1>2 DEF ControlInv

LEMMA AttemptControl ==
    ASSUME ControlInv, NEW t \in Threads, Attempt(t)
    PROVE  ControlInv'
<1>1. aux[t] \in Parents /\ aux[t] \in 0..ParentCount
  BY DEF Attempt, ControlInv, TypeOK, ParentExists
<1>2. FreedInv'
  BY DEF Attempt, pool, ControlInv, FreedInv
<1>3. CASE Unresolved(t)
  BY <1>2, <1>3, FdsAssumption
  DEF Attempt, Unresolved, Goto, pool, ControlInv, TypeOK, ParentExists, CallInv,
      Position, NotFds
<1>4. CASE Refused(t)
  BY <1>1, <1>2, <1>4, FdsAssumption
  DEF Attempt, Refused, Goto, pool, ControlInv, TypeOK, ParentExists, CallInv,
      Position, NotFds
<1>5. ASSUME NEW fd \in Fds, Connected(t, fd)
      PROVE  ControlInv'
  BY <1>1, <1>2, <1>5
  DEF Attempt, Connected, Goto, pool, ControlInv, TypeOK, ParentExists, CallInv,
      Position, SockState
<1>. QED
  BY <1>3, <1>4, <1>5 DEF Attempt

LEMMA AdvanceControl ==
    ASSUME ControlInv, NEW t \in Threads, Advance(t)
    PROVE  ControlInv'
<1>1. parent_curr' \in Parents /\ aux'[t] \in Parents
  BY NextParentExists DEF Advance, ControlInv, TypeOK
<1>2. loop[t] + 1 \in 0..ParentCount
  BY ParentsAssumption DEF Advance, ControlInv, TypeOK, CallInv
<1>3. TypeOK'
  BY <1>1, <1>2, NextParentExists
  DEF Advance, Goto, pool, ControlInv, TypeOK, Position, Parents
<1>4. ParentExists'
  BY <1>1 DEF Advance, Goto, ControlInv, TypeOK, ParentExists
<1>5. CallInv' /\ FreedInv'
  BY DEF Advance, Goto, pool, ControlInv, TypeOK, CallInv, FreedInv
<1>. QED
  BY <1>3, <1>4, <1>5 DEF ControlInv

LEMMA ReturnControl ==
    ASSUME ControlInv, NEW t \in Threads, Return(t),
           UNCHANGED <<parent_curr, sd>>
    PROVE  /\ at' \in [Threads -> Position]
           /\ prev' \in [Threads -> 0..ParentCount]
           /\ loop' \in [Threads -> 0..ParentCount]
           /\ aux' \in [Threads -> 0..ParentCount]
           /\ ParentExists' /\ CallInv'
BY ParentsAssumption
DEF Return, Outcome, Goto, ControlInv, TypeOK, ParentExists, CallInv, Position

LEMMA CheckMovedControl ==
    ASSUME ControlInv, NEW t \in Threads, CheckMoved(t)
    PROVE  ControlInv'
<1>1. FreedInv'
  BY DEF CheckMoved, pool, ControlInv, FreedInv
<1>2. CASE Return(t)
  BY <1>1, <1>2, ReturnControl DEF CheckMoved, pool, ControlInv, TypeOK
<1>3. CASE Goto(t, "invalidate") /\ UNCHANGED <<prev, loop, aux>>
  BY <1>1, <1>3
  DEF CheckMoved, Goto, pool, ControlInv, TypeOK, ParentExists, CallInv, Position
<1>. QED
  BY <1>2, <1>3 DEF CheckMoved

LEMMA InvalidateControl ==
    ASSUME ControlInv, NEW t \in Threads, Invalidate(t)
    PROVE  ControlInv'
<1>1. sock' \in [Fds -> SockState] /\ peer' \in [Fds -> 0..ParentCount]
  BY CloseAllType DEF Invalidate, ControlInv
<1>2. heap' \in HeapState /\ FreedInv'
  BY DEF Invalidate, ControlInv, TypeOK, FreedInv, HeapState
<1>3. Return(t) /\ UNCHANGED <<parent_curr, sd>>
  BY DEF Invalidate
<1>. QED
  BY <1>1, <1>2, <1>3, ReturnControl DEF Invalidate, ControlInv, TypeOK

LEMMA NextControl == ControlInv /\ [Next]_vars => ControlInv'
<1>1. ASSUME ControlInv, Next
      PROVE  ControlInv'
  <2>1. ASSUME NEW t \in Threads, Call(t)
        PROVE  ControlInv'
    BY <1>1, <2>1, EnterControl, SelectFirstControl, PickControl, AttemptControl,
       AdvanceControl, CheckMovedControl, InvalidateControl DEF Call
  <2>. QED
    BY <1>1, <2>1, PopControl, StoreControl, CloseControl, RemoteCloseControl
    DEF Next
<1>2. ControlInv /\ UNCHANGED vars => ControlInv'
  BY DEF vars, pool, locals, ControlInv, TypeOK, ParentExists, CallInv, FreedInv
<1>. QED
  BY <1>1, <1>2

(* Types are right in every reachable state.                                 *)
THEOREM TypeCorrect == Spec => []TypeOK
<1>1. ControlInv => TypeOK
  BY DEF ControlInv
<1>. QED
  BY InitControl, NextControl, <1>1, PTL DEF Spec

(* However many threads move parent_curr under each other, proxy_connect()   *)
(* never looks up a parent that does not exist.                              *)
THEOREM ParentAlwaysExists == Spec => []ParentExists
<1>1. ControlInv => ParentExists
  BY DEF ControlInv
<1>. QED
  BY InitControl, NextControl, <1>1, PTL DEF Spec

-----------------------------------------------------------------------------
(* Who owns a socket *)

InList(fd, list) == \E i \in DOMAIN list : list[i] = fd

(* Every open socket has one owner: a thread, or an entry of the list.  s is *)
(* the state of the sockets, d what the threads hold.                        *)
Owned(list, s, d) ==
    /\ \A t \in Threads : d[t] \in Fds => s[d[t]] # "free" /\ ~InList(d[t], list)
    /\ \A t, u \in Threads : d[t] \in Fds /\ d[u] = d[t] => u = t
    /\ \A i \in DOMAIN list : s[list[i]] # "free"
    /\ \A i, j \in DOMAIN list : list[i] = list[j] => i = j
    /\ \A fd \in Fds : s[fd] # "free" =>
          InList(fd, list) \/ \E t \in Threads : d[t] = fd

SockType == [Fds -> SockState]
HeldType == [Threads -> Fds \cup NotFds]

Closed(s, S) == [fd \in Fds |-> IF fd \in S THEN "free" ELSE s[fd]]

(* A thread without a descriptor gets none. *)
LEMMA OwnedNone ==
    ASSUME NEW list \in Seq(Fds), NEW s \in SockType, NEW d \in HeldType,
           Owned(list, s, d), NEW t \in Threads, d[t] \notin Fds,
           NEW x \in NotFds
    PROVE  Owned(list, s, [d EXCEPT ![t] = x])
BY FdsAssumption DEF Owned, HeldType, NotFds

(* The first entries of the list are closed. *)
LEMMA OwnedDrop ==
    ASSUME NEW list \in Seq(Fds), NEW s \in SockType, NEW d \in HeldType,
           Owned(list, s, d), NEW k \in 1..Len(list) + 1
    PROVE  Owned(SubSeq(list, k, Len(list)),
                 Closed(s, {list[j] : j \in 1..k - 1}), d)
<1>. DEFINE rest == SubSeq(list, k, Len(list))
            S == {list[j] : j \in 1..k - 1}
<1>1. /\ DOMAIN list = 1..Len(list)
      /\ DOMAIN rest = 1..Len(list) - k + 1
      /\ \A i \in DOMAIN rest : i + k - 1 \in DOMAIN list /\ rest[i] = list[i + k - 1]
  OBVIOUS
<1>2. \A fd \in S : fd \in Fds /\ InList(fd, list)
  BY <1>1 DEF InList
<1>3. \A i \in DOMAIN rest : rest[i] \in Fds /\ InList(rest[i], list) /\ rest[i] \notin S
  <2>. SUFFICES ASSUME NEW i \in DOMAIN rest
                PROVE  rest[i] \in Fds /\ InList(rest[i], list) /\ rest[i] \notin S
    OBVIOUS
  <2>1. i + k - 1 \in DOMAIN list /\ rest[i] = list[i + k - 1]
    BY <1>1
  <2>2. \A j \in 1..k - 1 : j \in DOMAIN list /\ j # i + k - 1
    BY <1>1
  <2>3. \A j \in 1..k - 1 : list[j] # list[i + k - 1]
    BY <2>1, <2>2 DEF Owned
  <2>. QED
    BY <2>1, <2>3, <1>1 DEF InList
<1>4. \A fd \in Fds : Closed(s, S)[fd] = IF fd \in S THEN "free" ELSE s[fd]
  BY DEF Closed
<1>5. \A fd : InList(fd, list) => fd \in S \/ InList(fd, rest)
  <2>. SUFFICES ASSUME NEW i \in DOMAIN list
                PROVE  list[i] \in S \/ InList(list[i], rest)
    BY DEF InList
  <2>1. CASE i < k
    BY <2>1, <1>1
  <2>2. CASE i >= k
    <3>1. i - k + 1 \in DOMAIN rest /\ rest[i - k + 1] = list[i]
      BY <2>2, <1>1
    <3>. QED
      BY <3>1 DEF InList
  <2>. QED
    BY <2>1, <2>2, <1>1
<1>6. \A fd : InList(fd, rest) => InList(fd, list)
  BY <1>3 DEF InList
<1>7. \A i, j \in DOMAIN rest : rest[i] = rest[j] => i = j
  <2>. SUFFICES ASSUME NEW i \in DOMAIN rest, NEW j \in DOMAIN rest, rest[i] = rest[j]
                PROVE  i = j
    OBVIOUS
  <2>1. i + k - 1 = j + k - 1
    BY <1>1 DEF Owned
  <2>. QED
    BY <2>1, <1>1
<1>8. \A t \in Threads : d[t] \in Fds =>
         Closed(s, S)[d[t]] # "free" /\ ~InList(d[t], rest)
  BY <1>2, <1>4, <1>6 DEF Owned
<1>9. \A i \in DOMAIN rest : Closed(s, S)[rest[i]] # "free"
  <2>1. \A fd \in Fds : InList(fd, list) => s[fd] # "free"
    BY DEF Owned, InList
  <2>. QED
    BY <2>1, <1>3, <1>4
<1>10. \A fd \in Fds : Closed(s, S)[fd] # "free" =>
          InList(fd, rest) \/ \E t \in Threads : d[t] = fd
  BY <1>4, <1>5 DEF Owned
<1>11. \A t, u \in Threads : d[t] \in Fds /\ d[u] = d[t] => u = t
  BY DEF Owned
<1>12. Owned(rest, Closed(s, S), d)
  <2>. HIDE DEF rest, S
  <2>. QED
    BY <1>7, <1>8, <1>9, <1>10, <1>11 DEF Owned
<1>. QED
  BY <1>12

(* A thread without a descriptor takes the first entry of the list. *)
LEMMA OwnedTake ==
    ASSUME NEW list \in Seq(Fds), NEW s \in SockType, NEW d \in HeldType,
           Owned(list, s, d), NEW t \in Threads, d[t] \notin Fds, list # << >>
    PROVE  Owned(Tail(list), s, [d EXCEPT ![t] = list[1]])
<1>. DEFINE rest == Tail(list)
            e == [d EXCEPT ![t] = list[1]]
<1>1. /\ DOMAIN list = 1..Len(list) /\ 1 \in DOMAIN list /\ list[1] \in Fds
      /\ DOMAIN rest = 1..Len(list) - 1
      /\ \A i \in DOMAIN rest : i + 1 \in DOMAIN list /\ i + 1 # 1 /\ rest[i] = list[i + 1]
  OBVIOUS
<1>2. e[t] = list[1] /\ \A u \in Threads : u # t => e[u] = d[u]
  BY DEF HeldType
<1>3. ~InList(list[1], rest)
  BY <1>1 DEF Owned, InList
<1>4. \A fd : InList(fd, rest) => InList(fd, list)
  BY <1>1 DEF InList
<1>5. \A fd : InList(fd, list) => fd = list[1] \/ InList(fd, rest)
  <2>. SUFFICES ASSUME NEW i \in DOMAIN list
                PROVE  list[i] = list[1] \/ InList(list[i], rest)
    BY DEF InList
  <2>1. CASE i # 1
    <3>1. i - 1 \in DOMAIN rest /\ rest[i - 1] = list[i]
      BY <2>1, <1>1
    <3>. QED
      BY <3>1 DEF InList
  <2>. QED
    BY <2>1
<1>6. s[list[1]] # "free" /\ InList(list[1], list)
  BY <1>1 DEF Owned, InList
<1>7. \A u \in Threads : e[u] \in Fds => s[e[u]] # "free" /\ ~InList(e[u], rest)
  BY <1>2, <1>3, <1>4, <1>6 DEF Owned
<1>8. \A u, v \in Threads : e[u] \in Fds /\ e[v] = e[u] => v = u
  BY <1>1, <1>2, <1>6 DEF Owned
<1>9. \A i \in DOMAIN rest : s[rest[i]] # "free"
  BY <1>1 DEF Owned
<1>10. \A i, j \in DOMAIN rest : rest[i] = rest[j] => i = j
  <2>. SUFFICES ASSUME NEW i \in DOMAIN rest, NEW j \in DOMAIN rest, rest[i] = rest[j]
                PROVE  i = j
    OBVIOUS
  <2>1. i + 1 = j + 1
    BY <1>1 DEF Owned
  <2>. QED
    BY <2>1, <1>1
<1>11. \A fd \in Fds : s[fd] # "free" =>
          InList(fd, rest) \/ \E u \in Threads : e[u] = fd
  <2>. SUFFICES ASSUME NEW fd \in Fds, s[fd] # "free", ~InList(fd, rest)
                PROVE  \E u \in Threads : e[u] = fd
    OBVIOUS
  <2>1. CASE fd = list[1]
    BY <2>1, <1>2
  <2>2. CASE fd # list[1]
    <3>1. PICK u \in Threads : d[u] = fd
      BY <2>2, <1>5 DEF Owned
    <3>. QED
      BY <3>1, <1>2
  <2>. QED
    BY <2>1, <2>2
<1>12. Owned(rest, s, e)
  <2>. HIDE DEF rest, e
  <2>. QED
    BY <1>7, <1>8, <1>9, <1>10, <1>11 DEF Owned
<1>. QED
  BY <1>12

(* A thread appends its descriptor to the list and gives it up. *)
LEMMA OwnedGive ==
    ASSUME NEW list \in Seq(Fds), NEW s \in SockType, NEW d \in HeldType,
           Owned(list, s, d), NEW t \in Threads, d[t] \in Fds
    PROVE  Owned(Append(list, d[t]), s, [d EXCEPT ![t] = NoFd])
<1>. DEFINE more == Append(list, d[t])
            e == [d EXCEPT ![t] = NoFd]
<1>1. /\ DOMAIN list = 1..Len(list)
      /\ DOMAIN more = 1..Len(list) + 1
      /\ \A i \in DOMAIN list : i \in DOMAIN more /\ more[i] = list[i]
      /\ Len(list) + 1 \in DOMAIN more /\ more[Len(list) + 1] = d[t]
      /\ \A i \in DOMAIN more : i \in DOMAIN list \/ i = Len(list) + 1
  OBVIOUS
<1>2. e[t] = NoFd /\ \A u \in Threads : u # t => e[u] = d[u]
  BY DEF HeldType
<1>3. \A fd : InList(fd, more) <=> InList(fd, list) \/ fd = d[t]
  <2>1. \A fd : InList(fd, more) => InList(fd, list) \/ fd = d[t]
    BY <1>1 DEF InList
  <2>2. \A fd : InList(fd, list) => InList(fd, more)
    BY <1>1 DEF InList
  <2>3. InList(d[t], more)
    BY <1>1 DEF InList
  <2>. QED
    BY <2>1, <2>2, <2>3
<1>4. \A u \in Threads : e[u] \in Fds => u # t /\ e[u] = d[u]
  BY <1>2, FdsAssumption
<1>5. \A u \in Threads : u # t => d[u] # d[t]
  BY DEF Owned
<1>6. \A u \in Threads : e[u] \in Fds => s[e[u]] # "free" /\ ~InList(e[u], more)
  BY <1>3, <1>4, <1>5 DEF Owned
<1>7. \A u, v \in Threads : e[u] \in Fds /\ e[v] = e[u] => v = u
  BY <1>4 DEF Owned
<1>8. \A i \in DOMAIN more : s[more[i]] # "free"
  BY <1>1 DEF Owned
<1>9. \A i, j \in DOMAIN more : more[i] = more[j] => i = j
  <2>1. \A i \in DOMAIN list : list[i] # d[t]
    BY DEF Owned, InList
  <2>. QED
    BY <2>1, <1>1 DEF Owned
<1>10. \A fd \in Fds : s[fd] # "free" =>
          InList(fd, more) \/ \E u \in Threads : e[u] = fd
  BY <1>2, <1>3 DEF Owned
<1>11. Owned(more, s, e)
  <2>. HIDE DEF more, e
  <2>. QED
    BY <1>6, <1>7, <1>8, <1>9, <1>10 DEF Owned
<1>. QED
  BY <1>11

(* A thread closes its descriptor. *)
LEMMA OwnedClose ==
    ASSUME NEW list \in Seq(Fds), NEW s \in SockType, NEW d \in HeldType,
           Owned(list, s, d), NEW t \in Threads, d[t] \in Fds
    PROVE  Owned(list, Closed(s, {d[t]}), [d EXCEPT ![t] = NoFd])
<1>. DEFINE r == Closed(s, {d[t]})
            e == [d EXCEPT ![t] = NoFd]
<1>1. \A fd \in Fds : r[fd] = IF fd = d[t] THEN "free" ELSE s[fd]
  BY DEF Closed
<1>2. e[t] = NoFd /\ \A u \in Threads : u # t => e[u] = d[u]
  BY DEF HeldType
<1>3. \A u \in Threads : e[u] \in Fds => u # t /\ e[u] = d[u] /\ d[u] # d[t]
  BY <1>2, FdsAssumption DEF Owned
<1>4. \A i \in DOMAIN list : list[i] \in Fds /\ list[i] # d[t]
  BY DEF Owned, InList
<1>5. \A u \in Threads : e[u] \in Fds => r[e[u]] # "free" /\ ~InList(e[u], list)
  BY <1>1, <1>3 DEF Owned
<1>6. \A u, v \in Threads : e[u] \in Fds /\ e[v] = e[u] => v = u
  BY <1>3 DEF Owned
<1>7. \A i \in DOMAIN list : r[list[i]] # "free"
  BY <1>1, <1>4 DEF Owned
<1>8. \A fd \in Fds : r[fd] # "free" =>
          InList(fd, list) \/ \E u \in Threads : e[u] = fd
  BY <1>1, <1>2 DEF Owned
<1>9. \A i, j \in DOMAIN list : list[i] = list[j] => i = j
  BY DEF Owned
<1>10. Owned(list, r, e)
  <2>. HIDE DEF r, e
  <2>. QED
    BY <1>5, <1>6, <1>7, <1>8, <1>9 DEF Owned
<1>. QED
  BY <1>10

(* A thread without a descriptor gets a new one. *)
LEMMA OwnedOpen ==
    ASSUME NEW list \in Seq(Fds), NEW s \in SockType, NEW d \in HeldType,
           Owned(list, s, d), NEW t \in Threads, d[t] \notin Fds,
           NEW fd \in Fds, s[fd] = "free"
    PROVE  Owned(list, [s EXCEPT ![fd] = "open"], [d EXCEPT ![t] = fd])
<1>. DEFINE r == [s EXCEPT ![fd] = "open"]
            e == [d EXCEPT ![t] = fd]
<1>1. r[fd] = "open" /\ \A x \in Fds : x # fd => r[x] = s[x]
  BY DEF SockType
<1>2. e[t] = fd /\ \A u \in Threads : u # t => e[u] = d[u]
  BY DEF HeldType
<1>3. ~InList(fd, list) /\ \A u \in Threads : d[u] # fd
  BY DEF Owned, InList
<1>4. \A u \in Threads : e[u] \in Fds => r[e[u]] # "free" /\ ~InList(e[u], list)
  BY <1>1, <1>2, <1>3 DEF Owned
<1>5. \A u, v \in Threads : e[u] \in Fds /\ e[v] = e[u] => v = u
  BY <1>2, <1>3 DEF Owned
<1>6. \A i \in DOMAIN list : list[i] \in Fds /\ r[list[i]] # "free"
  BY <1>1 DEF Owned
<1>7. \A x \in Fds : r[x] # "free" =>
          InList(x, list) \/ \E u \in Threads : e[u] = x
  BY <1>1, <1>2 DEF Owned
<1>8. \A i, j \in DOMAIN list : list[i] = list[j] => i = j
  BY DEF Owned
<1>9. Owned(list, r, e)
  <2>. HIDE DEF r, e
  <2>. QED
    BY <1>4, <1>5, <1>6, <1>7, <1>8 DEF Owned
<1>. QED
  BY <1>9

-----------------------------------------------------------------------------
(* The list the cache owns; freed nodes own nothing. *)
OwnedList == IF heap = "ok" THEN connection_list ELSE << >>

OwnerInv == heap # "undefined" => Owned(OwnedList, sock, sd)

(* OwnerInv says what the two properties say. *)
LEMMA OwnerEquiv ==
    ASSUME ControlInv
    PROVE  OwnerInv <=> ExclusiveSockets /\ NoSocketLeak
<1>1. \A fd : Cached(fd) <=> InList(fd, OwnedList)
  BY DEF Cached, InList, OwnedList
<1>2. heap \in HeapState
  BY DEF ControlInv, TypeOK
<1>3. CASE heap = "ok"
  BY <1>1, <1>3 DEF OwnerInv, Owned, OwnedList, ExclusiveSockets, NoSocketLeak, Held
<1>4. CASE heap = "freed"
  BY <1>1, <1>4 DEF OwnerInv, Owned, OwnedList, ExclusiveSockets, NoSocketLeak, Held
<1>5. CASE heap = "undefined"
  BY <1>5 DEF OwnerInv, ExclusiveSockets, NoSocketLeak
<1>. QED
  BY <1>2, <1>3, <1>4, <1>5 DEF HeapState

LEMMA OwnerTypes ==
    ASSUME ControlInv
    PROVE  OwnedList \in Seq(Fds) /\ sock \in SockType /\ sd \in HeldType
BY DEF ControlInv, TypeOK, OwnedList, SockType, HeldType

LEMMA CloseAllClosed ==
    ASSUME NEW S, CloseAll(S)
    PROVE  sock' = Closed(sock, S)
BY DEF CloseAll, Closed

(* Whoever touches the nodes and meets no undefined behaviour found them     *)
(* allocated.                                                                *)
LEMMA TouchedList ==
    ASSUME ControlInv, TouchNodes, heap' # "undefined"
    PROVE  heap = "ok" /\ heap' = "ok"
BY DEF TouchNodes, ControlInv, TypeOK, HeapState, FreedInv

LEMMA TailOfRest ==
    ASSUME NEW list \in Seq(Fds), NEW k \in 1..Len(list)
    PROVE  LET rest == SubSeq(list, k, Len(list))
           IN  /\ SubSeq(list, k + 1, Len(list)) = Tail(rest)
               /\ rest # << >>
               /\ rest[1] = list[k]
<1>. DEFINE rest == SubSeq(list, k, Len(list))
<1>1. Len(list) \in k..Len(list)
  OBVIOUS
<1>2. SubSeq(list, k + 1, Len(list)) = Tail(rest)
  BY <1>1, HeadTailOfSubSeq
<1>3. Len(rest) # 0 /\ rest[1] = list[k]
  OBVIOUS
<1>4. rest # << >>
  <2>. HIDE DEF rest
  <2>. QED
    BY <1>3
<1>. QED
  BY <1>2, <1>3, <1>4

LEMMA PopOwner ==
    ASSUME ControlInv, OwnerInv, NEW t \in Threads, Pop(t)
    PROVE  OwnerInv'
<1>. SUFFICES ASSUME heap' # "undefined"
              PROVE  Owned(OwnedList, sock, sd)'
  BY DEF OwnerInv
<1>1. heap = "ok" /\ heap' = "ok"
  BY TouchedList DEF Pop
<1>2. PICK k \in 1..Len(connection_list) + 1 : PopTo(t, k)
  BY DEF Pop
<1>. DEFINE rest == SubSeq(connection_list, k, Len(connection_list))
<1>3. connection_list \in Seq(Fds) /\ sock \in SockType /\ sd \in HeldType
      /\ Owned(connection_list, sock, sd)
  BY <1>1, OwnerTypes DEF OwnerInv, OwnedList
<1>4. sock' = Closed(sock, {connection_list[j] : j \in 1..k - 1})
  BY <1>2, CloseAllClosed DEF PopTo, Before
<1>5. Owned(rest, sock', sd)
  BY <1>3, <1>4, OwnedDrop
<1>6. sock' \in SockType /\ rest \in Seq(Fds) /\ sd[t] \notin Fds
  <2>1. sock' \in SockType
    <3>. HIDE DEF rest
    <3>. QED
      BY <1>3, <1>4 DEF Closed, SockType, SockState
  <2>2. rest \in Seq(Fds)
    BY <1>3
  <2>3. sd[t] \notin Fds
    BY DEF Pop, ControlInv, CallInv
  <2>. QED
    BY <2>1, <2>2, <2>3
<1>7. CASE k <= Len(connection_list)
  <2>1. connection_list' = Tail(rest) /\ rest # << >> /\ rest[1] = connection_list[k]
    <3>1. k \in 1..Len(connection_list)
      BY <1>7
    <3>2. connection_list' = SubSeq(connection_list, k + 1, Len(connection_list))
      BY <1>2 DEF PopTo
    <3>. QED
      BY <1>3, <3>1, <3>2, TailOfRest
  <2>2. sd' = [sd EXCEPT ![t] = rest[1]]
    BY <1>2, <1>7, <2>1 DEF PopTo, ControlInv, TypeOK
  <2>3. Owned(Tail(rest), sock', [sd EXCEPT ![t] = rest[1]])
    <3>. HIDE DEF rest
    <3>. QED
      BY <1>3, <1>5, <1>6, <2>1, OwnedTake
  <2>. QED
    BY <1>1, <2>1, <2>2, <2>3 DEF OwnedList
<1>8. CASE k > Len(connection_list)
  <2>1. connection_list' = rest
    BY <1>2, <1>3, <1>8 DEF PopTo
  <2>2. sd' = [sd EXCEPT ![t] = NoFd]
    BY <1>2, <1>8 DEF PopTo, ControlInv, TypeOK
  <2>3. Owned(rest, sock', [sd EXCEPT ![t] = NoFd])
    BY <1>3, <1>5, <1>6, OwnedNone DEF NotFds
  <2>. QED
    BY <1>1, <2>1, <2>2, <2>3 DEF OwnedList
<1>. QED
  BY <1>3, <1>7, <1>8

LEMMA StoreOwner ==
    ASSUME ControlInv, OwnerInv, NEW t \in Threads, Store(t)
    PROVE  OwnerInv'
<1>. SUFFICES ASSUME heap' # "undefined"
              PROVE  Owned(OwnedList, sock, sd)'
  BY DEF OwnerInv
<1>1. heap = "ok" /\ heap' = "ok"
  BY TouchedList DEF Store
<1>2. connection_list \in Seq(Fds) /\ sock \in SockType /\ sd \in HeldType
      /\ Owned(connection_list, sock, sd)
  BY <1>1, OwnerTypes DEF OwnerInv, OwnedList
<1>3. sd[t] \in Fds
  BY DEF Store, ControlInv, CallInv
<1>4. Owned(Append(connection_list, sd[t]), sock, [sd EXCEPT ![t] = NoFd])
  BY <1>2, <1>3, OwnedGive
<1>. QED
  BY <1>1, <1>4 DEF Store, OwnedList

LEMMA CloseOwner ==
    ASSUME ControlInv, OwnerInv, NEW t \in Threads, Close(t)
    PROVE  OwnerInv'
<1>. SUFFICES ASSUME heap' # "undefined"
              PROVE  Owned(OwnedList, sock, sd)'
  BY DEF OwnerInv
<1>1. OwnedList' = OwnedList /\ Owned(OwnedList, sock, sd)
  BY DEF Close, pool, OwnedList, OwnerInv
<1>2. sd[t] \in Fds
  BY DEF Close, ControlInv, CallInv
<1>3. sock' = Closed(sock, {sd[t]})
  BY CloseAllClosed DEF Close
<1>. QED
  BY <1>1, <1>2, <1>3, OwnerTypes, OwnedClose DEF Close

LEMMA RemoteCloseOwner ==
    ASSUME ControlInv, OwnerInv, NEW fd \in Fds, RemoteClose(fd)
    PROVE  OwnerInv'
<1>. SUFFICES ASSUME heap' # "undefined"
              PROVE  Owned(OwnedList, sock, sd)'
  BY DEF OwnerInv
<1>1. OwnedList' = OwnedList /\ sd' = sd /\ Owned(OwnedList, sock, sd)
  BY DEF RemoteClose, pool, OwnedList, OwnerInv
<1>2. \A x \in Fds : sock'[x] = "free" <=> sock[x] = "free"
  BY DEF RemoteClose, ControlInv, TypeOK
<1>3. \A i \in DOMAIN OwnedList : OwnedList[i] \in Fds
  BY OwnerTypes
<1>4. Owned(OwnedList, sock', sd)
  BY <1>1, <1>2, <1>3 DEF Owned
<1>. QED
  BY <1>1, <1>4

(* A step that leaves list and sockets alone and takes a thread without a    *)
(* descriptor to none. *)
LEMMA NoneOwner ==
    ASSUME ControlInv, OwnerInv, NEW t \in Threads, sd[t] \notin Fds,
           UNCHANGED <<connection_list, heap, sock>>,
           NEW x \in NotFds, sd' = [sd EXCEPT ![t] = x]
    PROVE  OwnerInv'
BY OwnerTypes, OwnedNone DEF OwnerInv, OwnedList

LEMMA SameOwner ==
    ASSUME OwnerInv, UNCHANGED <<connection_list, heap, sock, sd>>
    PROVE  OwnerInv'
<1>1. OwnedList' = OwnedList /\ heap' = heap /\ sock' = sock /\ sd' = sd
  BY DEF OwnedList
<1>. QED
  BY <1>1 DEF OwnerInv

LEMMA AttemptOwner ==
    ASSUME ControlInv, OwnerInv, NEW t \in Threads, Attempt(t)
    PROVE  OwnerInv'
<1>1. sd[t] \notin Fds
  BY DEF Attempt, ControlInv, CallInv
<1>2. ASSUME Unresolved(t) \/ Refused(t)
      PROVE  OwnerInv'
  BY <1>1, <1>2, NoneOwner DEF Attempt, pool, Unresolved, Refused, NotFds
<1>3. ASSUME NEW fd \in Fds, Connected(t, fd)
      PROVE  OwnerInv'
  <2>. SUFFICES ASSUME heap' # "undefined"
                PROVE  Owned(OwnedList, sock, sd)'
    BY DEF OwnerInv
  <2>1. OwnedList' = OwnedList /\ Owned(OwnedList, sock, sd)
    BY DEF Attempt, pool, OwnedList, OwnerInv
  <2>2. Owned(OwnedList, [sock EXCEPT ![fd] = "open"], [sd EXCEPT ![t] = fd])
    BY <1>1, <1>3, <2>1, OwnerTypes, OwnedOpen DEF Connected
  <2>. QED
    BY <1>3, <2>1, <2>2 DEF Connected
<1>. QED
  BY <1>2, <1>3 DEF Attempt

LEMMA InvalidateOwner ==
    ASSUME ControlInv, OwnerInv, NEW t \in Threads, Invalidate(t)
    PROVE  OwnerInv'
<1>. SUFFICES ASSUME heap' # "undefined"
              PROVE  Owned(OwnedList, sock, sd)'
  BY DEF OwnerInv
<1>1. /\ heap = "ok" /\ (heap' = "freed" \/ connection_list' = << >>)
      /\ OwnedList = connection_list
      /\ OwnedList' = << >>
      /\ sd' = sd
  BY DEF Invalidate, ControlInv, TypeOK, HeapState, FreedInv, OwnedList
<1>. DEFINE n == Len(connection_list)
<1>2. sock' = Closed(sock, {connection_list[j] : j \in 1..n + 1 - 1})
  BY CloseAllClosed DEF Invalidate, Before
<1>3. /\ connection_list \in Seq(Fds) /\ sock \in SockType /\ sd \in HeldType
      /\ Owned(connection_list, sock, sd)
      /\ n + 1 \in 1..n + 1
  BY <1>1, OwnerTypes DEF OwnerInv
<1>4. Owned(SubSeq(connection_list, n + 1, n), sock', sd)
  BY <1>2, <1>3, OwnedDrop
<1>5. SubSeq(connection_list, n + 1, n) = << >>
  BY <1>3
<1>. QED
  BY <1>1, <1>4, <1>5

LEMMA NextOwner == ControlInv /\ OwnerInv /\ [Next]_vars => OwnerInv'
<1>. SUFFICES ASSUME ControlInv, OwnerInv, [Next]_vars
              PROVE  OwnerInv'
  OBVIOUS
<1>1. ASSUME NEW t \in Threads, Call(t)
      PROVE  OwnerInv'
  <2>1. CASE Enter(t)
    BY <2>1, NoneOwner DEF Enter, pool, NotFds, ControlInv, CallInv
  <2>2. CASE SelectFirst(t) \/ Pick(t) \/ Advance(t) \/ CheckMoved(t)
    BY <2>2, SameOwner DEF SelectFirst, Pick, Advance, CheckMoved, pool
  <2>. QED
    BY <1>1, <2>1, <2>2, AttemptOwner, InvalidateOwner DEF Call
<1>2. CASE UNCHANGED vars
  BY <1>2, SameOwner DEF vars, pool
<1>. QED
  BY <1>1, <1>2, PopOwner, StoreOwner, CloseOwner, RemoteCloseOwner DEF Next

LEMMA InitOwner == Init => OwnerInv
BY FdsAssumption DEF Init, OwnerInv, OwnedList, Owned, InList

(* No two threads, nor a thread and the cache, ever use the same socket, and *)
(* none uses one that was closed.                                            *)
THEOREM SocketsExclusive == Spec => []ExclusiveSockets
<1>1. ControlInv /\ OwnerInv => ExclusiveSockets
  BY OwnerEquiv
<1>. QED
  BY InitControl, InitOwner, NextControl, NextOwner, <1>1, PTL DEF Spec

(* Every open socket has an owner that will close it. *)
THEOREM SocketsNotLeaked == Spec => []NoSocketLeak
<1>1. ControlInv /\ OwnerInv => NoSocketLeak
  BY OwnerEquiv
<1>. QED
  BY InitControl, InitOwner, NextControl, NextOwner, <1>1, PTL DEF Spec

-----------------------------------------------------------------------------
(***************************************************************************)
(* A call of proxy_connect() that nobody disturbs.  The parents it has     *)
(* tried are those before parent_curr, as many as it has made attempts,    *)
(* the list taken as a circle; none of them works.                         *)
(***************************************************************************)
Undisturbed == ParentCount = 1 \/ \E t : Threads = {t}

Tried(q, p, attempts) ==
    \/ q < p /\ p - q <= attempts
    \/ q >= p /\ p + ParentCount - q <= attempts

ScanInv(t) ==
    /\ at[t] = "select" => loop[t] = 0
    /\ at[t] \in {"pick", "try", "advance"} =>
          \A q \in Working : ~Tried(q, parent_curr, loop[t])
    /\ at[t] \in {"try", "advance"} => aux[t] = parent_curr
    /\ at[t] = "advance" => aux[t] \notin Working
    /\ at[t] = "moved" /\ sd[t] \in NotFds => Working = {}

LEMMA NoneTried ==
    ASSUME NEW p \in Parents, NEW q \in Working
    PROVE  ~Tried(q, p, 0)
BY ParentsAssumption DEF Tried, Parents

LEMMA OneMoreTried ==
    ASSUME NEW q \in Working, NEW n \in Nat, parent_curr \in Parents, q # parent_curr,
           ~Tried(q, parent_curr, n)
    PROVE  ~Tried(q, NextParent, n + 1)
BY ParentsAssumption DEF Tried, Parents, NextParent

LEMMA AllTried ==
    ASSUME NEW p \in Parents, NEW q \in Working, NEW n \in Nat, n >= ParentCount
    PROVE  Tried(q, p, n)
BY ParentsAssumption DEF Tried, Parents

(* What a thread does leaves the locals of the others alone. *)
LEMMA OtherLocals ==
    ASSUME ControlInv, NEW t \in Threads, Pop(t) \/ Store(t) \/ Close(t) \/ Call(t),
           NEW u \in Threads \ {t}
    PROVE  at'[u] = at[u] /\ loop'[u] = loop[u] /\ aux'[u] = aux[u] /\ sd'[u] = sd[u]
<1> USE DEF ControlInv, TypeOK, Goto
<1>1. CASE Pop(t) \/ Store(t) \/ Close(t)
  BY <1>1 DEF Pop, PopTo, Store, Close
<1>2. CASE Enter(t) \/ SelectFirst(t) \/ Pick(t) \/ Advance(t)
  BY <1>2 DEF Enter, SelectFirst, Pick, Advance
<1>3. CASE Attempt(t)
  BY <1>3 DEF Attempt, Unresolved, Refused, Connected
<1>4. CASE CheckMoved(t) \/ Invalidate(t)
  BY <1>4 DEF CheckMoved, Invalidate, Return
<1> QED
  BY <1>1, <1>2, <1>3, <1>4 DEF Call

LEMMA OwnScan ==
    ASSUME ControlInv, ControlInv', NEW t \in Threads, ScanInv(t),
           Pop(t) \/ Store(t) \/ Close(t) \/ Call(t)
    PROVE  ScanInv(t)'
<1> USE DEF ControlInv, TypeOK, Goto, ScanInv
<1>1. CASE Pop(t) \/ Store(t) \/ Close(t)
  BY <1>1 DEF Pop, PopTo, Store, Close
<1>2. CASE Enter(t)
  BY <1>2 DEF Enter
<1>3. CASE SelectFirst(t)
  <2>1. loop'[t] = 0 /\ at'[t] = "pick" /\ parent_curr' \in Parents
    BY <1>3 DEF SelectFirst, ParentExists
  <2> QED
    BY <2>1, NoneTried
<1>4. CASE Pick(t)
  BY <1>4 DEF Pick
<1>5. CASE Attempt(t)
  <2>1. CASE Unresolved(t) \/ Refused(t)
    BY <1>5, <2>1 DEF Attempt, Unresolved, Refused
  <2>2. ASSUME NEW fd \in Fds, Connected(t, fd) PROVE ScanInv(t)'
    BY <1>5, <2>2, FdsAssumption DEF Attempt, Connected, NotFds
  <2> QED
    BY <1>5, <2>1, <2>2 DEF Attempt
<1>6. CASE Advance(t)
  <2>1. /\ parent_curr \in Parents /\ parent_curr \notin Working /\ loop[t] \in Nat
        /\ \A q \in Working : ~Tried(q, parent_curr, loop[t])
    BY <1>6 DEF Advance, ParentExists
  <2>2. parent_curr' = NextParent /\ loop'[t] = loop[t] + 1 /\ NextParent \in Parents
    BY <1>6, <2>1, NextParentExists DEF Advance
  <2>3. \A q \in Working : ~Tried(q, NextParent, loop[t] + 1)
    BY <2>1, OneMoreTried
  <2>4. at'[t] = "pick" \/ (at'[t] = "moved" /\ loop[t] + 1 >= ParentCount)
    BY <1>6, <2>1, ParentsAssumption DEF Advance
  <2>5. CASE at'[t] = "pick"
    BY <2>2, <2>3, <2>5
  <2>6. CASE at'[t] = "moved"
    <3>1. loop[t] + 1 >= ParentCount /\ loop[t] + 1 \in Nat
      BY <2>1, <2>4, <2>6
    <3>2. Working = {}
      BY <2>2, <2>3, <3>1, AllTried
    <3> QED
      BY <2>6, <3>2
  <2> QED
    BY <2>4, <2>5, <2>6
<1>7. CASE CheckMoved(t) \/ Invalidate(t)
  BY <1>7 DEF CheckMoved, Invalidate, Return, Outcome
<1> QED
  BY <1>1, <1>2, <1>3, <1>4, <1>5, <1>6, <1>7 DEF Call

LEMMA NextScan ==
    ASSUME Undisturbed, ControlInv, ControlInv', \A t \in Threads : ScanInv(t), [Next]_vars
    PROVE  \A t \in Threads : ScanInv(t)'
<1>1. ASSUME NEW u \in Threads, Pop(u) \/ Store(u) \/ Close(u) \/ Call(u), NEW t \in Threads
      PROVE  ScanInv(t)'
  <2>1. CASE u = t
    BY <1>1, <2>1, OwnScan
  <2>2. CASE u # t
    <3>1. at'[t] = at[t] /\ loop'[t] = loop[t] /\ aux'[t] = aux[t] /\ sd'[t] = sd[t]
      BY <1>1, <2>2, OtherLocals
    <3>2. at[t] \in {"pick", "try", "advance"} => parent_curr = 1 /\ parent_curr' = 1
      <4>1. ParentCount = 1
        BY <2>2 DEF Undisturbed
      <4> QED
        BY <3>1, <4>1 DEF ControlInv, ParentExists, Parents
    <3> QED
      BY <3>1, <3>2 DEF ScanInv
  <2> QED
    BY <2>1, <2>2
<1>2. CASE UNCHANGED <<parent_curr, locals, sd>>
  BY <1>2 DEF locals, ScanInv
<1> QED
  BY <1>1, <1>2 DEF Next, RemoteClose, vars

(* "Each request scans the whole list until all items are tried or a working *)
(* proxy is found" (forward.c:46): so it is for any number of parents and    *)
(* whichever is selected when the call begins, if there is one thread (as in *)
(* serialized operation) or one parent.  Threads that move parent_curr under *)
(* each other may skip a parent that works.                                  *)
THEOREM WholeListScanned ==
    ASSUME Undisturbed
    PROVE  Spec => []ScansWholeList
<1> DEFINE Inv == \A t \in Threads : ScanInv(t)
<1>1. Init => Inv
  BY DEF Init, ScanInv
<1>2. ControlInv /\ ControlInv' /\ Inv /\ [Next]_vars => Inv'
  BY NextScan
<1>3. Inv => ScansWholeList
  BY DEF ScanInv, ScansWholeList
<1> HIDE DEF Inv
<1> QED
  BY <1>1, <1>2, <1>3, InitControl, NextControl, PTL DEF Spec

-----------------------------------------------------------------------------
(***************************************************************************)
(* Where the list of connections stays allocated: plist_free() finds it    *)
(* empty if a single thread connects and the first parent is the only one  *)
(* or never fails, as parent_curr is then only ever set once, before there *)
(* is a connection.                                                        *)
(***************************************************************************)
Steady == (\E t : Threads = {t}) /\ (ParentCount = 1 \/ 1 \in Working)

SteadyInv ==
    /\ parent_curr \in {0, 1}
    /\ parent_curr = 0 => connection_list = << >>
    /\ heap = "ok"
    /\ \A t \in Threads :
          /\ parent_curr = 0 => at[t] \in {"idle", "select"}
          /\ at[t] \in {"try", "advance"} => aux[t] = 1
          /\ at[t] = "advance" => ParentCount = 1
          /\ at[t] \in {"select", "pick", "try", "advance", "moved"} =>
                prev[t] = parent_curr \/ connection_list = << >>
          /\ at[t] = "invalidate" => connection_list = << >>

LEMMA SteadyStep ==
    ASSUME Steady, ControlInv, SteadyInv,
           NEW t \in Threads, Pop(t) \/ Store(t) \/ Close(t) \/ Call(t)
    PROVE  SteadyInv'
<1> USE DEF ControlInv, TypeOK, Goto, SteadyInv, pool
<1>0. Threads = {t}
  BY DEF Steady
<1>1. CASE Pop(t)
  <2>1. connection_list = << >> => connection_list' = << >>
    <3>1. PICK k \in 1..Len(connection_list) + 1 : PopTo(t, k)
      BY <1>1 DEF Pop
    <3> QED
      BY <3>1, PoppedList DEF PopTo
  <2>2. connection_list = << >> => at' = at
    BY <1>1 DEF Pop, PopTo
  <2>3. /\ at[t] = "idle" /\ at'[t] \in {"idle", "holding"}
        /\ heap' = "ok" /\ UNCHANGED <<parent_curr, aux, prev>>
    BY <1>1 DEF Pop, PopTo, TouchNodes
  <2> QED
    BY <1>0, <2>1, <2>2, <2>3
<1>2. CASE Store(t) \/ Close(t)
  BY <1>0, <1>2 DEF Store, Close, TouchNodes
<1>3. CASE Enter(t) \/ SelectFirst(t) \/ Pick(t)
  BY <1>0, <1>3 DEF Enter, SelectFirst, Pick, ParentExists, Parents
<1>4. CASE Attempt(t)
  <2>1. at[t] = "try" /\ aux[t] = 1 /\ UNCHANGED <<parent_curr, connection_list, heap, prev, aux>>
    BY <1>4 DEF Attempt
  <2>2. at'[t] = "moved" \/ (at'[t] = "advance" /\ 1 \notin Working)
    BY <1>4, <2>1 DEF Attempt, Unresolved, Refused, Connected
  <2> QED
    BY <1>0, <2>1, <2>2 DEF Steady
<1>5. CASE Advance(t)
  <2>1. ParentCount = 1 /\ parent_curr = 1 /\ parent_curr' = 1
    <3>1. at[t] = "advance" /\ parent_curr' = NextParent
      BY <1>5 DEF Advance
    <3>2. ParentCount = 1 /\ parent_curr = 1
      BY <3>1
    <3> QED
      BY <3>1, <3>2 DEF NextParent
  <2>2. connection_list' = connection_list /\ heap' = heap /\ prev' = prev
    BY <1>5 DEF Advance
  <2>3. at'[t] \in {"pick", "moved"} /\ at[t] = "advance"
    BY <1>5 DEF Advance
  <2> QED
    BY <1>0, <2>1, <2>2, <2>3
<1>6. CASE CheckMoved(t)
  BY <1>0, <1>6 DEF CheckMoved, Return, Outcome
<1>7. CASE Invalidate(t)
  BY <1>0, <1>7 DEF Invalidate, Return, Outcome
<1> QED
  BY <1>1, <1>2, <1>3, <1>4, <1>5, <1>6, <1>7 DEF Call

(* How far the use of the freed list reaches: ListIsAllocated, which fails   *)
(* otherwise, holds for a single thread whose first parent never fails or is *)
(* the only one.                                                            *)
THEOREM ListStaysAllocated ==
    ASSUME Steady
    PROVE  Spec => []ListIsAllocated
<1>1. Init => SteadyInv
  BY DEF Init, SteadyInv
<1>2. ControlInv /\ SteadyInv /\ [Next]_vars => SteadyInv'
  <2> SUFFICES ASSUME ControlInv, SteadyInv, [Next]_vars PROVE SteadyInv'
    OBVIOUS
  <2>1. ASSUME NEW fd \in Fds, RemoteClose(fd) PROVE SteadyInv'
    BY <2>1 DEF RemoteClose, pool, locals, SteadyInv
  <2>2. CASE UNCHANGED vars
    BY <2>2 DEF vars, pool, locals, SteadyInv
  <2> QED
    BY <2>1, <2>2, SteadyStep DEF Next
<1>3. SteadyInv => ListIsAllocated
  BY DEF SteadyInv, ListIsAllocated
<1> QED
  BY <1>1, <1>2, <1>3, InitControl, NextControl, PTL DEF Spec

=============================================================================
