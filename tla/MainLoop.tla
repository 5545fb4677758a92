------------------------------ MODULE MainLoop ------------------------------
(***************************************************************************)
(* The main thread of cntlm (main.c) and the life of the connection        *)
(* threads it starts: accepting connections, counting the threads created  *)
(* (tc) and joined (tj), the list of finished threads, and the shutdown    *)
(* upon signals.  What a thread does for its connection is ForwardRequest  *)
(* and left out here: it runs, and ends sooner or later.                   *)
(***************************************************************************)
EXTENDS Naturals, Sequences, FiniteSets

CONSTANTS
    Conns,      \* connections the clients make; each gets at most one thread
    Services,   \* kinds of listening ports in use
    SerializeSettings,  \* the settings of the -s option that are considered
    Debug,      \* debug mode: the first signal already forces the shutdown
    MaxQuit     \* bound: value of quit up to which signals are delivered

ASSUME ServicesAssumption == Services \subseteq {"proxy", "socks", "tunnel"}

ASSUME MainAssumption ==
    /\ IsFiniteSet(Conns)
    /\ SerializeSettings \subseteq BOOLEAN
    /\ Debug \in BOOLEAN
    /\ MaxQuit \in Nat

VARIABLES
    main,          \* where the main thread stands
    quit,          \* raised by the signal handler
    tc, tj,        \* threads created, threads joined
    tid,           \* result of the last pthread_create() in this iteration
    threads_list,  \* finished threads that wait to be joined
    mtx,           \* threads_mtx: held by main while it joins
    cursor,        \* the rest of threads_list that main still has to join
    thread,        \* life of each connection and of its thread
    service,       \* the port a connection was made to
    serialize      \* -s, set at the start: main serves proxy connections itself

vars == <<main, quit, tc, tj, tid, threads_list, mtx, cursor, thread, service,
          serialize>>

(* "accept": in the loop over the ports select() reported; "inline": main   *)
(* itself runs proxy_thread(); "reap": after the accepts; "freed": after    *)
(* the loop, the global lists are freed.                                    *)
MainState == {"test", "select", "accept", "inline", "reap", "lock", "join",
              "leave", "freed", "exited"}

(* "running" a thread, or main on its behalf; "listed" added itself to      *)
(* threads_list; "finished" returned.                                       *)
ThreadState == {"none", "refused", "running", "listed", "finished", "joined"}

SetThread(c, s) == thread' = [thread EXCEPT ![c] = s]

Init ==
    /\ main = "test"
    /\ quit = 0
    /\ tc = 0
    /\ tj = 0
    /\ tid = "ok"
    /\ threads_list = << >>
    /\ mtx = "free"
    /\ cursor = << >>
    /\ thread = [c \in Conns |-> "none"]
    /\ service = [c \in Conns |-> "proxy"]
    /\ serialize \in SerializeSettings

-----------------------------------------------------------------------------
(* The signal handler: the second signal, or any in debug mode, forces. *)
Signal ==
    /\ main # "exited"
    /\ quit < MaxQuit
    /\ quit' = IF quit # 0 \/ Debug THEN quit + 2 ELSE quit + 1
    /\ UNCHANGED <<main, tc, tj, tid, threads_list, mtx, cursor, thread, service,
                   serialize>>

(* Mutant of KeepRunning: connections are not waited for. *)
KeepRunningUntilQuit == quit = 0

(* The condition of the main loop *)
KeepRunning == quit = 0 \/ (tc # tj /\ quit < 2)

LoopTest ==
    /\ main = "test"
    /\ main' = IF KeepRunning THEN "select" ELSE "leave"
    /\ tid' = "ok"
    /\ UNCHANGED <<quit, tc, tj, threads_list, mtx, cursor, thread, service>>

(* select() reports ports with connections, or a second passed, or a signal *)
(* interrupted it.                                                          *)
Select ==
    /\ main = "select"
    /\ main' \in {"accept", "reap"}
    /\ UNCHANGED <<quit, tc, tj, tid, threads_list, mtx, cursor, thread, service>>

(* The access list denies the connection: the next port is looked at. *)
Deny(c) ==
    /\ SetThread(c, "refused")
    /\ UNCHANGED <<main, tc, tid, service>>

(* pthread_create() fails: the connection is left to itself. *)
CreateFails(c, s) ==
    /\ ~(serialize /\ s = "proxy")
    /\ SetThread(c, "refused")
    /\ tid' = "failed"
    /\ UNCHANGED <<main, tc, service>>

(* Mutant of Create: the thread is not counted. *)
CreateUncounted(c, s) ==
    /\ ~(serialize /\ s = "proxy")
    /\ SetThread(c, "running")
    /\ service' = [service EXCEPT ![c] = s]
    /\ tid' = "ok"
    /\ UNCHANGED <<main, tc>>

Create(c, s) ==
    /\ ~(serialize /\ s = "proxy")
    /\ SetThread(c, "running")
    /\ service' = [service EXCEPT ![c] = s]
    /\ tid' = "ok"
    /\ tc' = tc + 1
    /\ UNCHANGED main

(* main serves the connection; tid may be left over from another port. *)
ServeInline(c) ==
    /\ serialize
    /\ SetThread(c, "running")
    /\ service' = [service EXCEPT ![c] = "proxy"]
    /\ main' = "inline"
    /\ UNCHANGED <<tc, tid>>

(* accept() on one port, and a thread for the connection *)
Accept ==
    /\ main = "accept"
    /\ \E c \in Conns :
          /\ thread[c] = "none"
          /\ \/ Deny(c)
             \/ \E s \in Services : CreateFails(c, s) \/ Create(c, s)
             \/ "proxy" \in Services /\ ServeInline(c)
    /\ UNCHANGED <<quit, tj, threads_list, mtx, cursor>>

AllPortsSeen ==
    /\ main = "accept"
    /\ main' = "reap"
    /\ UNCHANGED <<quit, tc, tj, tid, threads_list, mtx, cursor, thread, service>>

(* threads_list is tested without the mutex ... *)
Reap ==
    /\ main = "reap"
    /\ main' = IF threads_list = << >> THEN "test" ELSE "lock"
    /\ UNCHANGED <<quit, tc, tj, tid, threads_list, mtx, cursor, thread, service>>

(* Mutant of Lock: threads_mtx is not taken. *)
LockNothing ==
    /\ main = "lock"
    /\ cursor' = threads_list
    /\ main' = "join"
    /\ UNCHANGED <<quit, tc, tj, tid, threads_list, mtx, thread, service>>

Lock ==
    /\ main = "lock"
    /\ mtx = "free"
    /\ mtx' = "main"
    /\ cursor' = threads_list
    /\ main' = "join"
    /\ UNCHANGED <<quit, tc, tj, tid, threads_list, thread, service>>

(* ... and every thread in it is joined with the mutex held. *)
Join ==
    /\ main = "join"
    /\ cursor # << >>
    /\ thread[Head(cursor)] = "finished"
    /\ SetThread(Head(cursor), "joined")
    /\ tj' = tj + 1
    /\ cursor' = Tail(cursor)
    /\ UNCHANGED <<main, quit, tc, tid, threads_list, mtx, service>>

(* Mutant of Unlock: the list is not reset. *)
UnlockKeepsList ==
    /\ main = "join"
    /\ cursor = << >>
    /\ mtx' = "free"
    /\ main' = "test"
    /\ UNCHANGED <<quit, tc, tj, tid, threads_list, cursor, thread, service>>

Unlock ==
    /\ main = "join"
    /\ cursor = << >>
    /\ threads_list' = << >>
    /\ mtx' = "free"
    /\ main' = "test"
    /\ UNCHANGED <<quit, tc, tj, tid, cursor, thread, service>>

(* After the loop: the global lists are freed, then exit() ends every thread *)
Free ==
    /\ main = "leave"
    /\ main' = "freed"
    /\ UNCHANGED <<quit, tc, tj, tid, threads_list, mtx, cursor, thread, service>>

Exit ==
    /\ main = "freed"
    /\ main' = "exited"
    /\ UNCHANGED <<quit, tc, tj, tid, threads_list, mtx, cursor, thread, service>>

-----------------------------------------------------------------------------
(* The connection threads *)

(* A thread of its own, not the main thread in serialized mode *)
OwnThread(c) == ~(serialize /\ service[c] = "proxy")

(* Mutant of AddToList: tunnel threads return unannounced. *)
AddToListProxyOnly(c) ==
    /\ main # "exited"
    /\ thread[c] = "running"
    /\ service[c] = "proxy"
    /\ mtx = "free"
    /\ threads_list' = Append(threads_list, c)
    /\ SetThread(c, "listed")
    /\ UNCHANGED <<main, quit, tc, tj, tid, mtx, cursor, service>>

(* Proxy and tunnel threads announce themselves in threads_list ... *)
AddToList(c) ==
    /\ main # "exited"
    /\ thread[c] = "running"
    /\ service[c] \in {"proxy", "tunnel"}
    /\ OwnThread(c)
    /\ mtx = "free"
    /\ threads_list' = Append(threads_list, c)
    /\ SetThread(c, "listed")
    /\ UNCHANGED <<main, quit, tc, tj, tid, mtx, cursor, service>>

(* ... before they return. *)
Finish(c) ==
    /\ main # "exited"
    /\ thread[c] = "listed"
    /\ SetThread(c, "finished")
    /\ UNCHANGED <<main, quit, tc, tj, tid, threads_list, mtx, cursor, service>>

(* socks5_thread() returns without an entry in threads_list. *)
FinishSocks(c) ==
    /\ main # "exited"
    /\ thread[c] = "running"
    /\ service[c] = "socks"
    /\ SetThread(c, "finished")
    /\ UNCHANGED <<main, quit, tc, tj, tid, threads_list, mtx, cursor, service>>

(* In serialized mode proxy_thread() returns to the loop over the ports. *)
FinishInline(c) ==
    /\ main = "inline"
    /\ thread[c] = "running"
    /\ ~OwnThread(c)
    /\ SetThread(c, "finished")
    /\ main' = "accept"
    /\ tc' = IF tid = "ok" THEN tc + 1 ELSE tc
    /\ UNCHANGED <<quit, tj, tid, threads_list, mtx, cursor, service>>

MainStep ==
    /\ \/ LoopTest \/ Select \/ Accept \/ AllPortsSeen \/ Reap
       \/ Lock \/ Join \/ Unlock \/ Free \/ Exit
    /\ UNCHANGED serialize

ThreadStep(c) ==
    /\ AddToList(c) \/ Finish(c) \/ FinishSocks(c) \/ FinishInline(c)
    /\ UNCHANGED serialize

Next ==
    \/ Signal
    \/ MainStep
    \/ \E c \in Conns : ThreadStep(c)

Spec == Init /\ [][Next]_vars

(* The system schedules every thread, and every connection ends. *)
FairSpec ==
    /\ Spec
    /\ WF_vars(MainStep)
    /\ \A c \in Conns : WF_vars(ThreadStep(c))

-----------------------------------------------------------------------------
(* Properties *)

(* Every variable has its type, and the list is walked under its mutex.      *)
TypeOK ==
    /\ main \in MainState
    /\ quit \in Nat
    /\ tc \in Nat
    /\ tj \in Nat
    /\ tid \in {"ok", "failed"}
    /\ threads_list \in Seq(Conns)
    /\ mtx \in {"free", "main"}
    /\ cursor \in Seq(Conns)
    /\ thread \in [Conns -> ThreadState]
    /\ service \in [Conns -> {"proxy", "socks", "tunnel"}]
    /\ serialize \in BOOLEAN
    /\ main = "join" <=> mtx = "main"

InState(S) == {c \in Conns : thread[c] \in S}

Started == {c \in InState({"running", "listed", "finished", "joined"}) : OwnThread(c)}

(* tc - tj, with which main decides whether it may leave, is the number of   *)
(* threads that were started and not joined: none is counted twice and none  *)
(* forgotten, whatever the order of accepts, ends and joins.  Connections    *)
(* that main serves itself are counted in tc as well.                        *)
CountsAreRight ==
    /\ tj = Cardinality(InState({"joined"}))
    /\ tc >= Cardinality(Started)
    /\ ~serialize => tc = Cardinality(Started)

Waiting(c) == \E i \in DOMAIN threads_list : threads_list[i] = c
Pending(c) == \E i \in DOMAIN cursor : cursor[i] = c

(* A thread is joined at most once and only after it has announced itself:   *)
(* what main still has to join was not joined before (pthread_join() of a    *)
(* joined thread is undefined), and no entry is lost that was added while    *)
(* main was joining.                                                         *)
JoinedOnce ==
    /\ \A i, j \in DOMAIN threads_list : threads_list[i] = threads_list[j] => i = j
    /\ \A c \in Conns :
          /\ Pending(c) => thread[c] \in {"listed", "finished"} /\ Waiting(c)
          /\ thread[c] = "listed" => Waiting(c)
          /\ thread[c] = "finished" /\ service[c] # "socks" /\ OwnThread(c)
                => IF mtx = "main" THEN Pending(c) ELSE Waiting(c)

(* "a "clean" shutdown (wait for all connections to finish after the first   *)
(* kill)" (main.c:1442): after one signal the global lists that the threads  *)
(* use are not freed before the last thread was joined.                      *)
CleanShutdownWaits ==
    main \in {"freed", "exited"} /\ quit < 2 =>
        InState({"running"}) = {} /\ Started = InState({"joined"})

(* A connection that main can never count as joined: on a SOCKS port, or     *)
(* one that main serves itself.                                              *)
NeverJoined(c) ==
    thread[c] \in {"running", "finished"} /\ (service[c] = "socks" \/ ~OwnThread(c))

(* "The loop ends, when we were "killed" and all threads created are         *)
(* finished" (main.c:1440), one signal sufficing: no entry of               *)
(* threads_list is overlooked, no thread waits for the mutex in vain, and    *)
(* only connections that never enter the list can hold the shutdown up.      *)
ShutdownEndsOrHeldUp ==
    quit > 0 ~> main = "exited" \/ \E c \in Conns : NeverJoined(c)

=============================================================================
