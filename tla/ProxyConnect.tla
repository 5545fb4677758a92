---------------------------- MODULE ProxyConnect ----------------------------
(***************************************************************************)
(* The part of cntlm (src/cntlm-0.92.3) that every connection thread       *)
(* shares: the list of parent proxies with the one selected parent_curr,   *)
(* the failover of proxy_connect(), and the list of idle authenticated     *)
(* connections, connection_list.                                           *)
(*                                                                         *)
(* A caller of proxy_connect() is abstracted to what it may do with the    *)
(* pool: take a cached connection, connect, and when done store the        *)
(* connection or close it.  Module ForwardRequest is the detailed caller   *)
(* and implements Spec below.                                              *)
(*                                                                         *)
(* A code section under one mutex is one action; a variable read without   *)
(* the mutex is read in an action of its own.                              *)
(***************************************************************************)
EXTENDS Naturals, Sequences, FiniteSets

CONSTANTS
    Threads,      \* the connection threads
    ParentCount,  \* parent_count: configured parent proxies, numbered from 1
    Fds,          \* descriptors the process may open to a parent
    NoFd,         \* the -1 of a failed so_connect(), also "no connection"
    ZeroFd,       \* the 0 proxy_connect() returns when nothing was resolved
    Working,      \* parents that resolve and accept every connection
    MaxCached     \* bound: connections stored in connection_list

ASSUME ParentsAssumption ==
    /\ ParentCount \in Nat \ {0}       \* main() exits without a parent
    /\ Working \subseteq 1..ParentCount

ASSUME FdsAssumption ==
    /\ NoFd \notin Fds
    /\ ZeroFd \notin Fds
    /\ NoFd # ZeroFd

ASSUME BoundAssumption == MaxCached \in Nat

VARIABLES
    parent_curr,      \* 0 before the first connection, then the selected parent
    resolved,         \* aux->resolved of each parent
    connection_list,  \* keys of the cached connections, oldest first
    heap,             \* what the nodes of connection_list are, see below
    sock,             \* state of each descriptor
    peer,             \* the parent a descriptor is connected to, 0 if none
    at,               \* where each thread stands in proxy_connect()
    prev,             \* local prev of proxy_connect()
    loop,             \* local loop of proxy_connect()
    aux,              \* local aux of proxy_connect(), as the parent's number
    sd                \* the descriptor a thread holds

locals == <<at, prev, loop, aux>>
pool == <<connection_list, heap>>
vars == <<parent_curr, resolved, pool, sock, peer, locals, sd>>

Parents == 1..ParentCount
NotFds == {NoFd, ZeroFd}

(* "eof": the parent closed the connection and nothing is left to read. *)
SockState == {"free", "open", "eof"}

(***************************************************************************)
(* plist_free(connection_list) in proxy_connect() discards its result, so  *)
(* connection_list keeps pointing at freed nodes:                          *)
(*   "ok"        the nodes are allocated (or the list is empty)            *)
(*   "freed"     the nodes were freed, none was read since                 *)
(*   "undefined" a freed node was read: behaviour is undefined from here.  *)
(* Of the outcomes, an abort is a behaviour that takes no further step,    *)
(* which Spec always allows; the other one modelled is that the nodes      *)
(* still hold their old contents.                                          *)
(***************************************************************************)
HeapState == {"ok", "freed", "undefined"}

Position == {"idle", "select", "pick", "try", "advance", "moved",
             "invalidate", "holding"}

(* An access to the nodes of connection_list. *)
TouchNodes ==
    heap' = IF heap = "freed" /\ connection_list # << >>
            THEN "undefined" ELSE heap

(* so_closed(): the remote end is gone, or the descriptor is not open. *)
SoClosed(fd) == sock[fd] # "open"

(* plist_pop() stops at the first open entry, or past the end of the list. *)
FirstOpen(k) ==
    /\ \A j \in 1..k - 1 : SoClosed(connection_list[j])
    /\ k <= Len(connection_list) => ~SoClosed(connection_list[k])

Before(k) == {connection_list[j] : j \in 1..k - 1}

CloseAll(S) ==
    /\ sock' = [fd \in Fds |-> IF fd \in S THEN "free" ELSE sock[fd]]
    /\ peer' = [fd \in Fds |-> IF fd \in S THEN 0 ELSE peer[fd]]

Goto(t, position) == at' = [at EXCEPT ![t] = position]

Init ==
    /\ parent_curr = 0
    /\ resolved = [p \in Parents |-> FALSE]
    /\ connection_list = << >>
    /\ heap = "ok"
    /\ sock = [fd \in Fds |-> "free"]
    /\ peer = [fd \in Fds |-> 0]
    /\ at = [t \in Threads |-> "idle"]
    /\ prev = [t \in Threads |-> 0]
    /\ loop = [t \in Threads |-> 0]
    /\ aux = [t \in Threads |-> 0]
    /\ sd = [t \in Threads |-> NoFd]

-----------------------------------------------------------------------------
(* The cache of connections. *)

(* Mutant of PopTo: the popped entry stays in the list. *)
PopToKeepsEntry(t, k) ==
    /\ FirstOpen(k)
    /\ CloseAll(Before(k))
    /\ connection_list' = SubSeq(connection_list, k, Len(connection_list))
    /\ sd' = [sd EXCEPT ![t] = IF k <= Len(connection_list) THEN connection_list[k] ELSE NoFd]
    /\ IF k <= Len(connection_list) THEN Goto(t, "holding") ELSE UNCHANGED at

(* forward_request(): take the first open cached connection and close the   *)
(* dead ones before it; if there is none, go on without.                     *)
PopTo(t, k) ==
    /\ FirstOpen(k)
    /\ CloseAll(Before(k))
    /\ connection_list' = SubSeq(connection_list, k + 1, Len(connection_list))
    /\ \/ /\ k <= Len(connection_list)
          /\ sd' = [sd EXCEPT ![t] = connection_list[k]]
          /\ Goto(t, "holding")
       \/ /\ k > Len(connection_list)
          /\ sd' = [sd EXCEPT ![t] = NoFd]
          /\ UNCHANGED at

Pop(t) ==
    /\ at[t] = "idle"
    /\ \E k \in 1..Len(connection_list) + 1 : PopTo(t, k)
    /\ TouchNodes
    /\ UNCHANGED <<parent_curr, resolved, prev, loop, aux>>

(* The thread is done with a connection worth keeping. *)
Store(t) ==
    /\ at[t] = "holding"
    /\ Len(connection_list) < MaxCached
    /\ connection_list' = Append(connection_list, sd[t])
    /\ TouchNodes
    /\ sd' = [sd EXCEPT ![t] = NoFd]
    /\ Goto(t, "idle")
    /\ UNCHANGED <<parent_curr, resolved, sock, peer, prev, loop, aux>>

(* close(sd) *)
Close(t) ==
    /\ at[t] = "holding"
    /\ CloseAll({sd[t]})
    /\ sd' = [sd EXCEPT ![t] = NoFd]
    /\ Goto(t, "idle")
    /\ UNCHANGED <<parent_curr, resolved, pool, prev, loop, aux>>

(* The parent closes a connection, idle or in use. *)
RemoteClose(fd) ==
    /\ sock[fd] = "open"
    /\ sock' = [sock EXCEPT ![fd] = "eof"]
    /\ UNCHANGED <<parent_curr, resolved, pool, peer, locals, sd>>

-----------------------------------------------------------------------------
(* proxy_connect() *)

(* prev is read before parent_mtx is taken. *)
Enter(t) ==
    /\ at[t] = "idle"
    /\ prev' = [prev EXCEPT ![t] = parent_curr]
    /\ loop' = [loop EXCEPT ![t] = 0]
    /\ sd' = [sd EXCEPT ![t] = NoFd]
    /\ Goto(t, "select")
    /\ UNCHANGED <<parent_curr, resolved, pool, sock, peer, aux>>

(* The first caller ever selects parent 1. *)
SelectFirst(t) ==
    /\ at[t] = "select"
    /\ parent_curr' = IF parent_curr = 0 THEN 1 ELSE parent_curr
    /\ Goto(t, "pick")
    /\ UNCHANGED <<resolved, pool, sock, peer, prev, loop, aux, sd>>

Pick(t) ==
    /\ at[t] = "pick"
    /\ aux' = [aux EXCEPT ![t] = parent_curr]
    /\ Goto(t, "try")
    /\ UNCHANGED <<parent_curr, resolved, pool, sock, peer, prev, loop, sd>>

(* Resolve the parent if this was not done yet, then connect. *)
Unresolved(t) ==
    /\ ~resolved[aux[t]]
    /\ aux[t] \notin Working
    /\ sd' = [sd EXCEPT ![t] = ZeroFd]
    /\ Goto(t, "advance")
    /\ UNCHANGED <<resolved, sock, peer>>

Refused(t) ==
    /\ aux[t] \notin Working
    /\ resolved' = [resolved EXCEPT ![aux[t]] = TRUE]
    /\ sd' = [sd EXCEPT ![t] = NoFd]
    /\ Goto(t, "advance")
    /\ UNCHANGED <<sock, peer>>

Connected(t, fd) ==
    /\ sock[fd] = "free"
    /\ resolved' = [resolved EXCEPT ![aux[t]] = TRUE]
    /\ sock' = [sock EXCEPT ![fd] = "open"]
    /\ peer' = [peer EXCEPT ![fd] = aux[t]]
    /\ sd' = [sd EXCEPT ![t] = fd]
    /\ Goto(t, "moved")

Attempt(t) ==
    /\ at[t] = "try"
    /\ \/ Unresolved(t)
       \/ Refused(t)
       \/ \E fd \in Fds : Connected(t, fd)
    /\ UNCHANGED <<parent_curr, pool, prev, loop, aux>>

(* Mutant of NextParent: the first parent is taken as number 0. *)
NextParentFromZero == IF parent_curr >= ParentCount THEN 0 ELSE parent_curr + 1

(* Mutant of NextParent: the test for the last parent is off by one. *)
NextParentTooFar == IF parent_curr > ParentCount THEN 1 ELSE parent_curr + 1

(* The attempt failed: select the next parent for everybody. *)
NextParent == IF parent_curr >= ParentCount THEN 1 ELSE parent_curr + 1

(* Mutant of Advance: the last parent is not tried. *)
AdvanceSkipsLast(t) ==
    /\ at[t] = "advance"
    /\ parent_curr' = NextParent
    /\ aux' = [aux EXCEPT ![t] = NextParent]
    /\ loop' = [loop EXCEPT ![t] = @ + 1]
    /\ Goto(t, IF loop[t] + 2 < ParentCount THEN "pick" ELSE "moved")
    /\ UNCHANGED <<resolved, pool, sock, peer, prev, sd>>

Advance(t) ==
    /\ at[t] = "advance"
    /\ parent_curr' = NextParent
    /\ aux' = [aux EXCEPT ![t] = NextParent]
    /\ loop' = [loop EXCEPT ![t] = @ + 1]
    /\ Goto(t, IF loop[t] + 1 < ParentCount THEN "pick" ELSE "moved")
    /\ UNCHANGED <<resolved, pool, sock, peer, prev, sd>>

(* The call returns sd; its locals go out of scope. *)
Outcome(t) == IF sd[t] \in Fds THEN "holding" ELSE "idle"

Return(t) ==
    /\ Goto(t, Outcome(t))
    /\ prev' = [prev EXCEPT ![t] = 0]
    /\ loop' = [loop EXCEPT ![t] = 0]
    /\ aux' = [aux EXCEPT ![t] = 0]

(* prev # parent_curr is tested before connection_mtx is taken. *)
CheckMoved(t) ==
    /\ at[t] = "moved"
    /\ \/ /\ prev[t] = parent_curr
          /\ Return(t)
       \/ /\ prev[t] # parent_curr
          /\ Goto(t, "invalidate")
          /\ UNCHANGED <<prev, loop, aux>>
    /\ UNCHANGED <<parent_curr, resolved, pool, sock, peer, sd>>

(* Mutant of Invalidate: the nodes are freed, the connections not closed. *)
InvalidateLeavesOpen(t) ==
    /\ at[t] = "invalidate"
    /\ heap' = CASE connection_list = << >> -> heap
                 [] connection_list # << >> /\ heap = "ok" -> "freed"
                 [] OTHER -> "undefined"
    /\ Return(t)
    /\ UNCHANGED <<parent_curr, resolved, connection_list, sock, peer, sd>>

(* Close every cached connection and free the nodes; connection_list itself *)
(* is not reset.                                                            *)
Invalidate(t) ==
    /\ at[t] = "invalidate"
    /\ CloseAll(Before(Len(connection_list) + 1))
    /\ heap' = CASE connection_list = << >> -> heap
                 [] connection_list # << >> /\ heap = "ok" -> "freed"
                 [] OTHER -> "undefined"
    /\ Return(t)
    /\ UNCHANGED <<parent_curr, resolved, connection_list, sd>>

Call(t) ==
    \/ Enter(t)
    \/ SelectFirst(t)
    \/ Pick(t)
    \/ Attempt(t)
    \/ Advance(t)
    \/ CheckMoved(t)
    \/ Invalidate(t)

Next ==
    \/ \E t \in Threads : Pop(t) \/ Store(t) \/ Close(t) \/ Call(t)
    \/ \E fd \in Fds : RemoteClose(fd)

Spec == Init /\ [][Next]_vars

-----------------------------------------------------------------------------
(* Properties *)

(* Every variable has its type; in particular a thread inside              *)
(* proxy_connect() has an index of an existing parent wherever the code     *)
(* dereferences the result of plist_get(), and a thread outside it either   *)
(* holds a descriptor ("holding") or none.                                  *)
TypeOK ==
    /\ parent_curr \in 0..ParentCount
    /\ resolved \in [Parents -> BOOLEAN]
    /\ connection_list \in Seq(Fds)
    /\ heap \in HeapState
    /\ sock \in [Fds -> SockState]
    /\ peer \in [Fds -> 0..ParentCount]
    /\ at \in [Threads -> Position]
    /\ prev \in [Threads -> 0..ParentCount]
    /\ loop \in [Threads -> 0..ParentCount]
    /\ aux \in [Threads -> 0..ParentCount]
    /\ sd \in [Threads -> Fds \cup NotFds]

(* plist_get(parent_list, n) is dereferenced unchecked, so n must be a key  *)
(* of the list: whatever other threads do to parent_curr between two        *)
(* critical sections, the parent a thread uses exists.                      *)
ParentExists ==
    \A t \in Threads :
        /\ at[t] \in {"pick", "try", "advance", "moved", "invalidate"}
              => parent_curr \in Parents
        /\ at[t] \in {"try", "advance"} => aux[t] \in Parents

(* The sockets the cache owns.  After plist_free() the list owns nothing.   *)
Cached(fd) == heap = "ok" /\ \E i \in DOMAIN connection_list : connection_list[i] = fd
Held(fd) == \E t \in Threads : sd[t] = fd

(* Nobody uses a socket that another thread uses, that is in the cache, or  *)
(* that was closed (whose number the system may hand out again); the cache  *)
(* holds no socket twice.  This is what the mutexes and the order of close, *)
(* store and pop in forward_request() and proxy_connect() are for.          *)
ExclusiveSockets ==
    heap # "undefined" =>
        /\ \A t \in Threads : sd[t] \in Fds =>
              /\ sock[sd[t]] # "free"
              /\ ~Cached(sd[t])
              /\ \A u \in Threads : sd[u] = sd[t] => u = t
        /\ heap = "ok" =>
              /\ \A i \in DOMAIN connection_list : sock[connection_list[i]] # "free"
              /\ \A i, j \in DOMAIN connection_list :
                    connection_list[i] = connection_list[j] => i = j

(* No descriptor is leaked: every open one is held by a thread, which will  *)
(* store or close it, or is in the cache, from where it is popped or closed *)
(* by the next change of parent.                                            *)
NoSocketLeak ==
    heap # "undefined" =>
        \A fd \in Fds : sock[fd] # "free" => Held(fd) \/ Cached(fd)

(* "Each request scans the whole list until all items are tried or a        *)
(* working proxy is found" (forward.c:46): a call fails only if no parent   *)
(* works.  (Checked for the calls of ForwardRequest.)                       *)
ScansWholeList ==
    \A t \in Threads : at[t] = "moved" /\ sd[t] \in NotFds => Working = {}

(* The list plist_free() has freed is not read again: connection_list is    *)
(* always NULL or a list of allocated nodes, as every plist_t must be       *)
(* (utils.c:63).                                                            *)
ListIsAllocated == heap # "undefined"

=============================================================================
