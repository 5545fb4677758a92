--------------------------- MODULE Startup_proofs ---------------------------
(***************************************************************************)
(* Proofs about MainLoop and Startup, for any number of connections,       *)
(* signals, processes, ports and settings, serialized or not.              *)
(*                                                                         *)
(* Of the main loop: threads_list and what main joins of it (ListInv)      *)
(* determine which thread can be joined when; with that the counters count *)
(* sets of threads (CountInv), and when they are equal the sets are        *)
(* (LeaveInv).  Then of the start: it leaves the main loop alone, and      *)
(* serves only when it has got through its checks (StartInv).              *)
(***************************************************************************)
EXTENDS Startup, FiniteSetTheorems, SequenceTheorems, TLAPS

(* A sequence without repetitions *)
Distinct(s) == \A i, j \in DOMAIN s : s[i] = s[j] => i = j

(* Only threads of their own, and not those of SOCKS ports, are ever listed. *)
Announces(c) == service[c] # "socks" /\ OwnThread(c)

ListInv ==
    /\ Distinct(threads_list)
    /\ Distinct(cursor)
    /\ mtx = "free" => cursor = << >>
    /\ \A c \in Conns :
          /\ Waiting(c) => thread[c] \in {"listed", "finished", "joined"} /\ Announces(c)
          /\ Waiting(c) /\ mtx = "free" => thread[c] # "joined"
          /\ Pending(c) => thread[c] \in {"listed", "finished"} /\ Waiting(c)
          /\ thread[c] \in {"listed", "joined"} => Announces(c)
          /\ thread[c] = "listed" => Waiting(c)
          /\ thread[c] \in {"listed", "finished"} /\ Announces(c)
                => IF mtx = "main" THEN Pending(c) ELSE Waiting(c)

(* What main serves itself it serves before it goes on. *)
InlineInv ==
    \A c \in Conns :
        thread[c] = "running" /\ ~OwnThread(c) =>
            /\ main = "inline"
            /\ \A d \in Conns : thread[d] = "running" /\ ~OwnThread(d) => c = d

(* main leaves the loop upon a signal, and after one only if all is joined. *)
LeaveInv ==
    main \in {"leave", "freed", "exited"} => quit # 0 /\ (quit < 2 => tc = tj)

Controls == TypeOK /\ ListInv /\ InlineInv

IInv == Controls /\ CountsAreRight /\ LeaveInv

-----------------------------------------------------------------------------
(* Sequences of connections *)

InSeq(s, c) == \E i \in DOMAIN s : s[i] = c

LEMMA TailElements ==
    ASSUME NEW s \in Seq(Conns), s # << >>, Distinct(s)
    PROVE  /\ Head(s) \in Conns
           /\ Tail(s) \in Seq(Conns)
           /\ Distinct(Tail(s))
           /\ \A c : InSeq(Tail(s), c) <=> InSeq(s, c) /\ c # Head(s)
<1>1. /\ Len(s) \in Nat \ {0}
      /\ DOMAIN s = 1..Len(s)
      /\ Head(s) = s[1]
      /\ Tail(s) \in Seq(Conns)
      /\ DOMAIN Tail(s) = 1..Len(s) - 1
      /\ \A i \in 1..Len(s) - 1 : Tail(s)[i] = s[i + 1]
  OBVIOUS
<1>2. Head(s) \in Conns
  BY <1>1
<1>3. Distinct(Tail(s))
  <2> SUFFICES ASSUME NEW i \in 1..Len(s) - 1, NEW j \in 1..Len(s) - 1,
                      Tail(s)[i] = Tail(s)[j]
               PROVE  i = j
    BY <1>1 DEF Distinct
  <2>1. i + 1 \in DOMAIN s /\ j + 1 \in DOMAIN s /\ s[i + 1] = s[j + 1]
    BY <1>1
  <2> QED
    BY <2>1 DEF Distinct
<1>4. ASSUME NEW c, InSeq(Tail(s), c)
      PROVE  InSeq(s, c) /\ c # Head(s)
  <2>1. PICK i \in 1..Len(s) - 1 : Tail(s)[i] = c
    BY <1>1, <1>4 DEF InSeq
  <2>2. i + 1 \in DOMAIN s /\ s[i + 1] = c /\ i + 1 # 1 /\ 1 \in DOMAIN s
    BY <1>1, <2>1
  <2> QED
    BY <1>1, <2>2 DEF InSeq, Distinct
<1>5. ASSUME NEW c, InSeq(s, c), c # Head(s)
      PROVE  InSeq(Tail(s), c)
  <2>1. PICK i \in 1..Len(s) : s[i] = c
    BY <1>1, <1>5 DEF InSeq
  <2>2. i - 1 \in 1..Len(s) - 1 /\ i - 1 + 1 = i
    BY <1>1, <1>5, <2>1
  <2> QED
    BY <1>1, <2>1, <2>2 DEF InSeq
<1> QED
  BY <1>1, <1>2, <1>3, <1>4, <1>5

LEMMA AppendElements ==
    ASSUME NEW s \in Seq(Conns), NEW c \in Conns, Distinct(s), ~InSeq(s, c)
    PROVE  /\ Append(s, c) \in Seq(Conns)
           /\ Distinct(Append(s, c))
           /\ \A d : InSeq(Append(s, c), d) <=> InSeq(s, d) \/ d = c
<1>1. /\ Len(s) \in Nat
      /\ DOMAIN s = 1..Len(s)
      /\ Append(s, c) \in Seq(Conns)
      /\ DOMAIN Append(s, c) = 1..Len(s) + 1
      /\ Append(s, c)[Len(s) + 1] = c
      /\ \A i \in 1..Len(s) : Append(s, c)[i] = s[i]
  OBVIOUS
<1>2. \A i \in 1..Len(s) + 1 : i \in 1..Len(s) \/ i = Len(s) + 1
  BY <1>1
<1>3. Distinct(Append(s, c))
  BY <1>1, <1>2 DEF Distinct, InSeq
<1>4. \A d : InSeq(Append(s, c), d) <=> InSeq(s, d) \/ d = c
  <2> SUFFICES ASSUME NEW d
               PROVE  InSeq(Append(s, c), d) <=> InSeq(s, d) \/ d = c
    OBVIOUS
  <2>1. \A i \in 1..Len(s) : i \in 1..Len(s) + 1
    BY <1>1
  <2>2. Len(s) + 1 \in 1..Len(s) + 1
    BY <1>1
  <2> QED
    BY <1>1, <1>2, <2>1, <2>2 DEF InSeq
<1> QED
  BY <1>1, <1>3, <1>4

LEMMA WaitingInSeq ==
    ASSUME NEW c
    PROVE  /\ Waiting(c) <=> InSeq(threads_list, c)
           /\ Pending(c) <=> InSeq(cursor, c)
           /\ Waiting(c)' <=> InSeq(threads_list', c)
           /\ Pending(c)' <=> InSeq(cursor', c)
BY DEF Waiting, Pending, InSeq

LEMMA NothingInEmpty == DOMAIN << >> = {}
OBVIOUS

-----------------------------------------------------------------------------
(* Types, the list and what main serves itself *)

LEMMA InitControls == Init => Controls
<1> SUFFICES ASSUME Init PROVE Controls
  OBVIOUS
<1>1. TypeOK
  BY MainAssumption DEF Init, TypeOK, MainState, ThreadState
<1>2. ListInv
  <2>1. /\ Distinct(threads_list) /\ \A c : ~InSeq(threads_list, c)
        /\ Distinct(cursor) /\ \A c : ~InSeq(cursor, c)
    BY NothingInEmpty DEF Init, Distinct, InSeq
  <2>2. \A c \in Conns : ~Waiting(c) /\ ~Pending(c) /\ thread[c] = "none"
    BY <2>1, WaitingInSeq DEF Init
  <2> QED
    BY <2>1, <2>2 DEF Init, ListInv
<1>3. InlineInv
  BY DEF Init, InlineInv
<1> QED
  BY <1>1, <1>2, <1>3 DEF Controls

(* A step of main that neither starts nor joins anything *)
LEMMA PassingControls ==
    ASSUME Controls,
           main # "join", main # "inline", main' \in MainState,
           main' # "join", quit' \in Nat, tid' \in {"ok", "failed"},
           UNCHANGED <<tc, tj, threads_list, mtx, cursor, thread, service, serialize>>
    PROVE  Controls'
<1>1. TypeOK'
  BY DEF Controls, TypeOK
<1>2. ListInv'
  BY DEF Controls, ListInv, Distinct, Waiting, Pending, Announces, OwnThread
<1>3. InlineInv'
  BY DEF Controls, InlineInv, OwnThread
<1> QED
  BY <1>1, <1>2, <1>3 DEF Controls

LEMMA SignalControls == ASSUME Controls, Signal PROVE Controls'
<1>1. TypeOK'
  BY DEF Controls, TypeOK, Signal
<1>2. ListInv'
  BY DEF Signal, Controls, ListInv, Distinct, Waiting, Pending, Announces, OwnThread
<1>3. InlineInv'
  BY DEF Signal, Controls, InlineInv, OwnThread
<1> QED
  BY <1>1, <1>2, <1>3 DEF Controls

(* A connection that was none yet gets a thread, or main, or is refused. *)
LEMMA AcceptControls ==
    ASSUME Controls, Accept, UNCHANGED serialize
    PROVE  Controls'
<1>1. PICK c \in Conns :
          /\ thread[c] = "none"
          /\ \/ Deny(c)
             \/ \E s \in Services : CreateFails(c, s) \/ Create(c, s)
             \/ "proxy" \in Services /\ ServeInline(c)
  BY DEF Accept
<1> DEFINE Effect ==
      /\ \E s \in {"refused", "running"} : thread' = [thread EXCEPT ![c] = s]
      /\ \E s \in {"proxy", "socks", "tunnel"} :
            service' = [service EXCEPT ![c] = s] \/ service' = service
      /\ main' \in {"accept", "inline"}
      /\ tid' \in {"ok", "failed"}
      /\ tc' \in {tc, tc + 1}
      /\ main = "accept"
      /\ UNCHANGED <<quit, tj, threads_list, mtx, cursor>>
<1>2. Effect
  <2>1. main = "accept" /\ UNCHANGED <<quit, tj, threads_list, mtx, cursor>>
    BY DEF Accept
  <2>2. CASE Deny(c)
    BY <2>1, <2>2 DEF Deny, SetThread, Controls, TypeOK
  <2>3. ASSUME NEW s \in Services, CreateFails(c, s) \/ Create(c, s)
        PROVE  Effect
    BY <2>1, <2>3, ServicesAssumption DEF CreateFails, Create, SetThread, Controls, TypeOK
  <2>4. CASE ServeInline(c)
    BY <2>1, <2>4 DEF ServeInline, SetThread, Controls, TypeOK
  <2> QED
    BY <1>1, <2>2, <2>3, <2>4
<1>3. TypeOK'
  BY <1>2 DEF Controls, TypeOK, MainState, ThreadState
<1>4. ListInv'
  <2>1. \A d \in Conns : d # c => thread'[d] = thread[d] /\ service'[d] = service[d]
    BY <1>2 DEF Controls, TypeOK
  <2>2. thread'[c] \in {"refused", "running"}
    BY <1>2 DEF Controls, TypeOK
  <2>3. ~Waiting(c) /\ ~Pending(c)
    BY <1>1 DEF Controls, ListInv
  <2> QED
    BY <1>2, <2>1, <2>2, <2>3
    DEF Controls, ListInv, Distinct, Waiting, Pending, Announces, OwnThread
<1>5. InlineInv'
  <2>1. \A d \in Conns : ~(thread[d] = "running" /\ ~OwnThread(d))
    BY <1>2 DEF Controls, InlineInv
  <2>2. \A d \in Conns : d # c => thread'[d] = thread[d] /\ service'[d] = service[d]
    BY <1>2 DEF Controls, TypeOK
  <2>3. thread'[c] = "running" /\ ~OwnThread(c)' => main' = "inline"
    <3>1. CASE Deny(c)
      BY <3>1 DEF Deny, SetThread, Controls, TypeOK
    <3>2. ASSUME NEW s \in Services, CreateFails(c, s)
          PROVE  thread'[c] # "running"
      BY <3>2 DEF CreateFails, SetThread, Controls, TypeOK
    <3>3. ASSUME NEW s \in Services, Create(c, s)
          PROVE  OwnThread(c)'
      BY <3>3 DEF Create, OwnThread, Controls, TypeOK
    <3>4. CASE ServeInline(c)
      BY <3>4 DEF ServeInline
    <3> QED
      BY <1>1, <3>1, <3>2, <3>3, <3>4
  <2> QED
    BY <2>1, <2>2, <2>3 DEF InlineInv, OwnThread
<1> QED
  BY <1>3, <1>4, <1>5 DEF Controls

LEMMA LockControls ==
    ASSUME Controls, Lock, UNCHANGED serialize
    PROVE  Controls'
<1>1. TypeOK'
  BY DEF Lock, Controls, TypeOK, MainState
<1>2. ListInv'
  BY WaitingInSeq DEF Lock, Controls, ListInv, Announces, OwnThread
<1>3. InlineInv'
  BY DEF Lock, Controls, InlineInv, OwnThread
<1> QED
  BY <1>1, <1>2, <1>3 DEF Controls

LEMMA JoinControls ==
    ASSUME Controls, Join, UNCHANGED serialize
    PROVE  /\ Controls'
           /\ Head(cursor) \in Conns
           /\ Announces(Head(cursor))
<1>1. /\ Head(cursor) \in Conns
      /\ Tail(cursor) \in Seq(Conns)
      /\ Distinct(Tail(cursor))
      /\ \A c : InSeq(Tail(cursor), c) <=> InSeq(cursor, c) /\ c # Head(cursor)
  BY TailElements DEF Join, Controls, TypeOK, ListInv
<1>2. \A c \in Conns :
          thread'[c] = IF c = Head(cursor) THEN "joined" ELSE thread[c]
  BY DEF Join, SetThread, Controls, TypeOK
<1>3. InSeq(cursor, Head(cursor))
  BY DEF Join, Controls, TypeOK, InSeq
<1>4. Pending(Head(cursor)) /\ Waiting(Head(cursor)) /\ Announces(Head(cursor))
  BY <1>1, <1>3, WaitingInSeq DEF Controls, ListInv
<1>5. TypeOK'
  BY <1>1 DEF Join, SetThread, Controls, TypeOK, ThreadState
<1>6. ListInv'
  <2>1. mtx = "main" /\ mtx' = "main"
    BY DEF Join, Controls, TypeOK
  <2>2. \A c \in Conns :
            /\ Waiting(c)' <=> Waiting(c)
            /\ Pending(c)' <=> Pending(c) /\ c # Head(cursor)
            /\ Announces(c)' <=> Announces(c)
    BY <1>1, WaitingInSeq DEF Join, Announces, OwnThread, Waiting
  <2>3. Distinct(threads_list') /\ Distinct(cursor')
    BY <1>1 DEF Join, Controls, ListInv
  <2> QED
    BY <1>2, <1>4, <2>1, <2>2, <2>3 DEF Controls, ListInv
<1>7. InlineInv'
  BY <1>2 DEF Join, Controls, InlineInv, OwnThread
<1> QED
  BY <1>1, <1>4, <1>5, <1>6, <1>7 DEF Controls

LEMMA UnlockControls ==
    ASSUME Controls, Unlock, UNCHANGED serialize
    PROVE  Controls'
<1>1. TypeOK'
  BY DEF Unlock, Controls, TypeOK, MainState
<1>2. ListInv'
  <2>1. mtx = "main"
    BY DEF Unlock, Controls, TypeOK
  <2>2. \A c : ~Pending(c) /\ ~Waiting(c)' /\ ~Pending(c)'
    <3>1. \A c : ~InSeq(cursor, c) /\ ~InSeq(threads_list', c) /\ ~InSeq(cursor', c)
      BY NothingInEmpty DEF Unlock, Distinct, InSeq
    <3> QED
      BY <3>1, WaitingInSeq
  <2>3. \A c \in Conns : Announces(c)' <=> Announces(c)
    BY DEF Unlock, Announces, OwnThread
  <2>4. \A c \in Conns : ~(thread[c] \in {"listed", "finished"} /\ Announces(c))
    BY <2>1, <2>2 DEF Controls, ListInv
  <2>5. Distinct(threads_list') /\ Distinct(cursor') /\ cursor' = << >>
    BY NothingInEmpty DEF Unlock, Distinct, InSeq
  <2> QED
    BY <2>2, <2>3, <2>4, <2>5 DEF Unlock, Controls, ListInv
<1>3. InlineInv'
  BY DEF Unlock, Controls, InlineInv, OwnThread
<1> QED
  BY <1>1, <1>2, <1>3 DEF Controls

-----------------------------------------------------------------------------
(* The threads *)

LEMMA AddToListControls ==
    ASSUME Controls, NEW c \in Conns, AddToList(c), UNCHANGED serialize
    PROVE  Controls'
<1>1. ~Waiting(c) /\ ~Pending(c) /\ Announces(c)
  BY DEF AddToList, Controls, ListInv, Announces
<1>2. /\ Append(threads_list, c) \in Seq(Conns)
      /\ Distinct(Append(threads_list, c))
      /\ \A d : InSeq(Append(threads_list, c), d) <=> InSeq(threads_list, d) \/ d = c
  BY <1>1, AppendElements, WaitingInSeq DEF Controls, TypeOK, ListInv
<1>3. \A d \in Conns : thread'[d] = IF d = c THEN "listed" ELSE thread[d]
  BY DEF AddToList, SetThread, Controls, TypeOK
<1>4. TypeOK'
  BY <1>2 DEF AddToList, SetThread, Controls, TypeOK, ThreadState
<1>5. ListInv'
  <2>1. \A d \in Conns :
            /\ Waiting(d)' <=> Waiting(d) \/ d = c
            /\ Pending(d)' <=> Pending(d)
            /\ Announces(d)' <=> Announces(d)
    BY <1>2, WaitingInSeq DEF AddToList, Announces, OwnThread, Pending
  <2>2. /\ Distinct(threads_list') /\ Distinct(cursor')
        /\ mtx = "free" /\ mtx' = "free" /\ cursor' = cursor
    BY <1>2 DEF AddToList, Controls, ListInv
  <2> QED
    BY <1>1, <1>3, <2>1, <2>2 DEF Controls, ListInv
<1>6. InlineInv'
  BY <1>3 DEF AddToList, Controls, InlineInv, OwnThread
<1> QED
  BY <1>4, <1>5, <1>6 DEF Controls

(* A thread returns, announced or, from a SOCKS port, not. *)
LEMMA FinishControls ==
    ASSUME Controls, NEW c \in Conns, Finish(c) \/ FinishSocks(c), UNCHANGED serialize
    PROVE  Controls'
<1>1. /\ \A d \in Conns : thread'[d] = IF d = c THEN "finished" ELSE thread[d]
      /\ thread[c] = "listed" \/ ~Announces(c)
      /\ UNCHANGED <<main, quit, tc, tj, tid, threads_list, mtx, cursor, service>>
      /\ thread[c] \in {"listed", "running"}
  BY DEF Finish, FinishSocks, SetThread, Announces, Controls, TypeOK
<1>2. TypeOK'
  BY DEF Finish, FinishSocks, SetThread, Controls, TypeOK, ThreadState
<1>3. ListInv'
  <2>1. \A d \in Conns :
            /\ Waiting(d)' <=> Waiting(d)
            /\ Pending(d)' <=> Pending(d)
            /\ Announces(d)' <=> Announces(d)
    BY <1>1 DEF Waiting, Pending, Announces, OwnThread
  <2> QED
    BY <1>1, <2>1 DEF Controls, ListInv
<1>4. InlineInv'
  BY <1>1 DEF Controls, InlineInv, OwnThread
<1> QED
  BY <1>2, <1>3, <1>4 DEF Controls

LEMMA FinishInlineControls ==
    ASSUME Controls, NEW c \in Conns, FinishInline(c), UNCHANGED serialize
    PROVE  Controls'
<1>1. /\ \A d \in Conns : thread'[d] = IF d = c THEN "finished" ELSE thread[d]
      /\ thread[c] = "running"
      /\ ~OwnThread(c)
      /\ UNCHANGED <<threads_list, mtx, cursor, service>>
  BY DEF FinishInline, SetThread, Controls, TypeOK
<1>2. TypeOK'
  BY DEF FinishInline, SetThread, Controls, TypeOK, ThreadState, MainState
<1>3. ListInv'
  <2>1. \A d \in Conns :
            /\ Waiting(d)' <=> Waiting(d)
            /\ Pending(d)' <=> Pending(d)
            /\ Announces(d)' <=> Announces(d)
    BY <1>1 DEF Waiting, Pending, Announces, OwnThread
  <2> QED
    BY <1>1, <2>1 DEF Controls, ListInv, Announces
<1>4. InlineInv'
  BY <1>1 DEF Controls, InlineInv, OwnThread
<1> QED
  BY <1>2, <1>3, <1>4 DEF Controls

(* The steps of main that PassingControls is about *)
Passing == LoopTest \/ Select \/ AllPortsSeen \/ Reap \/ Free \/ Exit

LEMMA PassingSteps ==
    ASSUME TypeOK, Passing, UNCHANGED serialize
    PROVE  /\ main # "join" /\ main # "inline"
           /\ main' \in MainState /\ main' # "join"
           /\ quit' \in Nat /\ tid' \in {"ok", "failed"}
           /\ UNCHANGED <<quit, tc, tj, threads_list, mtx, cursor, thread, service, serialize>>
<1>1. CASE LoopTest
  BY <1>1 DEF LoopTest, TypeOK, MainState
<1>2. CASE Select
  BY <1>2 DEF Select, TypeOK, MainState
<1>3. CASE AllPortsSeen
  BY <1>3 DEF AllPortsSeen, TypeOK, MainState
<1>4. CASE Reap
  BY <1>4 DEF Reap, TypeOK, MainState
<1>5. CASE Free
  BY <1>5 DEF Free, TypeOK, MainState
<1>6. CASE Exit
  BY <1>6 DEF Exit, TypeOK, MainState
<1> QED
  BY <1>1, <1>2, <1>3, <1>4, <1>5, <1>6 DEF Passing

LEMMA NextControls == Controls /\ [Next]_vars => Controls'
<1> SUFFICES ASSUME Controls, [Next]_vars PROVE Controls'
  OBVIOUS
<1>1. CASE Signal
  BY <1>1, SignalControls
<1>2. CASE MainStep
  <2>1. CASE Passing
    BY <1>2, <2>1, PassingSteps, PassingControls DEF MainStep, Controls
  <2>2. CASE Accept \/ Lock \/ Join \/ Unlock
    BY <1>2, <2>2, AcceptControls, LockControls, JoinControls, UnlockControls
    DEF MainStep
  <2> QED
    BY <1>2, <2>1, <2>2 DEF MainStep, Passing
<1>3. ASSUME NEW c \in Conns, ThreadStep(c)
      PROVE  Controls'
  BY <1>3, AddToListControls, FinishControls, FinishInlineControls DEF ThreadStep
<1>4. CASE UNCHANGED vars
  <2>1. TypeOK'
    BY <1>4 DEF vars, Controls, TypeOK
  <2>2. ListInv'
    BY <1>4 DEF vars, Controls, ListInv, Distinct, Waiting, Pending, Announces, OwnThread
  <2>3. InlineInv'
    BY <1>4 DEF vars, Controls, InlineInv, OwnThread
  <2> QED
    BY <2>1, <2>2, <2>3 DEF Controls
<1> QED
  BY <1>1, <1>2, <1>3, <1>4 DEF Next

(* A thread is never lost from the list of those that wait to be joined and  *)
(* never joined twice.                                                       *)
THEOREM ThreadsJoinedOnce == Spec => []JoinedOnce
<1>1. Init => Controls
  BY InitControls
<1>2. Controls /\ [Next]_vars => Controls'
  BY NextControls
<1>3. Controls => JoinedOnce
  <2> SUFFICES ASSUME Controls PROVE JoinedOnce
    OBVIOUS
  <2>1. mtx \in {"free", "main"}
    BY DEF Controls, TypeOK
  <2> QED
    BY <2>1 DEF Controls, ListInv, JoinedOnce, Distinct, Announces
<1> QED
  BY <1>1, <1>2, <1>3, PTL DEF Spec

(* The main loop's variables keep their types, and the list is walked only   *)
(* under its mutex.                                                          *)
THEOREM TypeCorrect == Spec => []TypeOK
<1>1. Controls => TypeOK
  BY DEF Controls
<1> QED
  BY <1>1, InitControls, NextControls, PTL DEF Spec

-----------------------------------------------------------------------------
(* The counters *)

Joined == InState({"joined"})

LEMMA StartedFinite ==
    /\ IsFiniteSet(Started) /\ IsFiniteSet(Joined)
    /\ Cardinality(Started) \in Nat /\ Cardinality(Joined) \in Nat
<1>1. Started \in SUBSET Conns /\ Joined \in SUBSET Conns
  BY DEF Started, Joined, InState
<1> QED
  BY <1>1, MainAssumption, FS_Subset, FS_CardinalityType

LEMMA JoinedStarted == ASSUME Controls PROVE Joined \subseteq Started
BY DEF Controls, ListInv, Joined, Started, InState, Announces

LEMMA InitCounts == Init => CountsAreRight
<1> SUFFICES ASSUME Init PROVE CountsAreRight
  OBVIOUS
<1>1. Started = {} /\ InState({"joined"}) = {}
  BY DEF Init, Started, InState
<1> QED
  BY <1>1, FS_EmptySet DEF Init, CountsAreRight

(* Steps after which the same threads are started and joined *)
LEMMA SameCounts ==
    ASSUME CountsAreRight, Controls, Started' = Started, Joined' = Joined,
           UNCHANGED <<tj, serialize>>,
           tc' = tc \/ (serialize /\ tc' = tc + 1)
    PROVE  CountsAreRight'
<1>1. tc \in Nat /\ Cardinality(Started) \in Nat
  BY StartedFinite DEF Controls, TypeOK
<1> QED
  BY <1>1 DEF CountsAreRight, Joined

LEMMA UntouchedCounts ==
    ASSUME CountsAreRight, Controls, UNCHANGED <<tc, tj, thread, service, serialize>>
    PROVE  CountsAreRight'
<1>1. Started' = Started /\ Joined' = Joined
  BY DEF Started, Joined, InState, OwnThread
<1> QED
  BY <1>1, SameCounts

(* A connection changes from one of these states to another that counts as   *)
(* much.                                                                     *)
LEMMA ThreadCounts ==
    ASSUME CountsAreRight, Controls, NEW c \in Conns, ThreadStep(c)
    PROVE  CountsAreRight'
<1>1. /\ thread[c] \in {"running", "listed"}
      /\ \E s \in {"listed", "finished"} : thread' = [thread EXCEPT ![c] = s]
      /\ UNCHANGED <<tj, service, serialize>>
      /\ tc' = tc \/ (serialize /\ tc' = tc + 1)
  <2>1. CASE FinishInline(c)
    BY <2>1 DEF ThreadStep, FinishInline, SetThread, OwnThread
  <2>2. CASE AddToList(c) \/ Finish(c) \/ FinishSocks(c)
    BY <2>2 DEF ThreadStep, AddToList, Finish, FinishSocks, SetThread
  <2> QED
    BY <2>1, <2>2 DEF ThreadStep
<1>2. \A d \in Conns :
          /\ d # c => thread'[d] = thread[d]
          /\ thread'[c] \in {"listed", "finished"}
  BY <1>1 DEF Controls, TypeOK
<1>3. \A d \in Conns : OwnThread(d)' <=> OwnThread(d)
  BY <1>1 DEF OwnThread
<1>4. Started' = Started /\ Joined' = Joined
  BY <1>1, <1>2, <1>3 DEF Started, Joined, InState
<1> QED
  BY <1>1, <1>4, SameCounts

LEMMA JoinCounts ==
    ASSUME CountsAreRight, Controls, Join, UNCHANGED serialize
    PROVE  CountsAreRight'
<1> DEFINE c == Head(cursor)
<1>1. c \in Conns
  BY JoinControls
<1>2. \A d \in Conns : thread'[d] = IF d = c THEN "joined" ELSE thread[d]
  BY DEF Join, SetThread, Controls, TypeOK
<1>3. thread[c] = "finished" /\ UNCHANGED <<tc, service>> /\ tj' = tj + 1
  BY DEF Join
<1>4. \A d \in Conns : OwnThread(d)' <=> OwnThread(d)
  BY <1>3 DEF OwnThread
<1> HIDE DEF c
<1>5. Started' = Started
  BY <1>1, <1>2, <1>3, <1>4 DEF Started, InState
<1>6. Joined' = Joined \cup {c} /\ c \notin Joined
  BY <1>1, <1>2, <1>3 DEF Joined, InState
<1>7. Cardinality(Joined') = Cardinality(Joined) + 1
  BY <1>6, FS_AddElement, StartedFinite
<1> QED
  BY <1>3, <1>5, <1>7 DEF CountsAreRight, Joined

LEMMA AcceptCounts ==
    ASSUME CountsAreRight, Controls, Accept, UNCHANGED serialize
    PROVE  CountsAreRight'
<1>1. PICK c \in Conns :
          /\ thread[c] = "none"
          /\ \/ Deny(c)
             \/ \E s \in Services : CreateFails(c, s) \/ Create(c, s)
             \/ "proxy" \in Services /\ ServeInline(c)
  BY DEF Accept
<1>2. tj' = tj
  BY DEF Accept
<1>3. ASSUME \/ Deny(c)
             \/ \E s \in Services : CreateFails(c, s)
             \/ ServeInline(c)
      PROVE  CountsAreRight'
  <2>1. /\ \A d \in Conns : d # c => thread'[d] = thread[d] /\ service'[d] = service[d]
        /\ thread'[c] = "refused" \/ (thread'[c] = "running" /\ ~OwnThread(c)')
        /\ tc' = tc
    BY <1>3 DEF Deny, CreateFails, ServeInline, SetThread, OwnThread, Controls, TypeOK
  <2>2. \A d \in Conns : d # c => (OwnThread(d)' <=> OwnThread(d))
    BY <2>1 DEF OwnThread
  <2>3. Started' = Started /\ Joined' = Joined
    BY <1>1, <2>1, <2>2 DEF Started, Joined, InState
  <2> QED
    BY <1>2, <2>1, <2>3, SameCounts
<1>4. ASSUME NEW s \in Services, Create(c, s)
      PROVE  CountsAreRight'
  <2>1. /\ \A d \in Conns : d # c => thread'[d] = thread[d] /\ service'[d] = service[d]
        /\ thread'[c] = "running" /\ OwnThread(c)'
        /\ tc' = tc + 1
    BY <1>4 DEF Create, SetThread, OwnThread, Controls, TypeOK
  <2>2. \A d \in Conns : d # c => (OwnThread(d)' <=> OwnThread(d))
    BY <2>1 DEF OwnThread
  <2>3. Joined' = Joined
    BY <1>1, <2>1 DEF Joined, InState
  <2>4. Started' = Started \cup {c} /\ c \notin Started
    BY <1>1, <2>1, <2>2 DEF Started, InState
  <2>5. Cardinality(Started') = Cardinality(Started) + 1
    BY <2>4, FS_AddElement, StartedFinite
  <2>6. tc \in Nat /\ Cardinality(Started) \in Nat
    BY StartedFinite DEF Controls, TypeOK
  <2> QED
    BY <1>2, <2>1, <2>3, <2>5, <2>6 DEF CountsAreRight, Joined
<1> QED
  BY <1>1, <1>3, <1>4

LEMMA NextCounts == Controls /\ CountsAreRight /\ [Next]_vars => CountsAreRight'
<1> SUFFICES ASSUME Controls, CountsAreRight, [Next]_vars PROVE CountsAreRight'
  OBVIOUS
<1>1. CASE Signal
  BY <1>1, UntouchedCounts DEF Signal
<1>2. CASE MainStep
  <2>1. CASE Passing
    BY <1>2, <2>1, PassingSteps, UntouchedCounts DEF MainStep, Controls
  <2>2. CASE Lock \/ Unlock
    BY <1>2, <2>2, UntouchedCounts DEF MainStep, Lock, Unlock
  <2>3. CASE Accept \/ Join
    BY <1>2, <2>3, AcceptCounts, JoinCounts DEF MainStep
  <2> QED
    BY <1>2, <2>1, <2>2, <2>3 DEF MainStep, Passing
<1>3. ASSUME NEW c \in Conns, ThreadStep(c)
      PROVE  CountsAreRight'
  BY <1>3, ThreadCounts
<1>4. CASE UNCHANGED vars
  BY <1>4, UntouchedCounts DEF vars
<1> QED
  BY <1>1, <1>2, <1>3, <1>4 DEF Next

(* main counts right, whatever the order of accepts, ends and joins.         *)
THEOREM CountersCount == Spec => []CountsAreRight
<1> QED
  BY InitControls, NextControls, InitCounts, NextCounts, PTL DEF Spec

-----------------------------------------------------------------------------
(* The clean shutdown *)

LEMMA NextLeave == Controls /\ LeaveInv /\ [Next]_vars => LeaveInv'
<1> SUFFICES ASSUME Controls, LeaveInv, [Next]_vars PROVE LeaveInv'
  OBVIOUS
<1>1. CASE Signal
  BY <1>1 DEF Signal, LeaveInv, Controls, TypeOK
<1>2. CASE MainStep
  <2>1. CASE LoopTest
    BY <2>1 DEF LoopTest, KeepRunning, LeaveInv
  <2>2. CASE Free \/ Exit
    BY <2>2 DEF Free, Exit, LeaveInv
  <2>3. CASE Select \/ AllPortsSeen \/ Reap \/ Lock \/ Join \/ Unlock
    BY <2>3 DEF Select, AllPortsSeen, Reap, Lock, Join, Unlock, LeaveInv
  <2>4. CASE Accept
    BY <2>4 DEF Accept, Deny, CreateFails, Create, ServeInline, LeaveInv
  <2> QED
    BY <1>2, <2>1, <2>2, <2>3, <2>4 DEF MainStep
<1>3. ASSUME NEW c \in Conns, ThreadStep(c)
      PROVE  LeaveInv'
  BY <1>3 DEF ThreadStep, AddToList, Finish, FinishSocks, FinishInline, LeaveInv
<1>4. CASE UNCHANGED vars
  BY <1>4 DEF vars, LeaveInv
<1> QED
  BY <1>1, <1>2, <1>3, <1>4 DEF Next

(* With the counters equal, the sets they count are.                         *)
LEMMA LeaveIsClean == IInv => CleanShutdownWaits
<1> SUFFICES ASSUME IInv, main \in {"freed", "exited"}, quit < 2
             PROVE  InState({"running"}) = {} /\ Started = InState({"joined"})
  BY DEF CleanShutdownWaits
<1>1. tc = tj
  BY DEF IInv, LeaveInv
<1>2. Cardinality(Joined) >= Cardinality(Started)
  BY <1>1 DEF IInv, CountsAreRight, Joined
<1>3. Joined \in SUBSET Started
  BY JoinedStarted DEF IInv
<1>4. Cardinality(Joined) = Cardinality(Started)
  BY <1>2, <1>3, StartedFinite, FS_Subset
<1>5. Started = Joined
  BY <1>3, <1>4, StartedFinite, FS_Subset
<1>6. ASSUME NEW c \in InState({"running"})
      PROVE  FALSE
  <2>1. c \in Conns /\ thread[c] = "running"
    BY DEF InState
  <2>2. CASE OwnThread(c)
    BY <1>5, <2>1, <2>2 DEF Started, Joined, InState
  <2>3. CASE ~OwnThread(c)
    BY <2>1, <2>3 DEF IInv, Controls, InlineInv
  <2> QED
    BY <2>2, <2>3
<1> QED
  BY <1>5, <1>6 DEF Joined

(* After a single signal the global lists are freed only when no thread is   *)
(* left that could use them.                                                 *)
THEOREM CleanShutdown == Spec => []CleanShutdownWaits
<1>1. Init => IInv
  BY InitControls, InitCounts DEF IInv, Init, LeaveInv
<1>2. IInv /\ [Next]_vars => IInv'
  BY NextControls, NextCounts, NextLeave DEF IInv
<1>3. IInv => CleanShutdownWaits
  BY LeaveIsClean
<1> QED
  BY <1>1, <1>2, <1>3, PTL DEF Spec

-----------------------------------------------------------------------------
(***************************************************************************)
(* The start does not disturb the main loop: every step of Startup is one  *)
(* of MainLoop or leaves its variables alone ...                           *)
(***************************************************************************)
THEOREM MainLoopImplemented == StartSpec => Spec
<1>1. StartInit => Init
  BY DEF StartInit
<1>2. [StartNext]_startvars => [Next]_vars
  BY DEF StartNext, Serve, startvars
<1> QED
  BY <1>1, <1>2, PTL DEF Spec, StartSpec

(* ... so that what is proved of the main loop holds of the whole program.   *)
THEOREM StartedMainLoop ==
    StartSpec => [](CountsAreRight /\ JoinedOnce /\ CleanShutdownWaits)
<1> QED
  BY MainLoopImplemented, CountersCount, ThreadsJoinedOnce, CleanShutdown, PTL

-----------------------------------------------------------------------------
(* The inductive invariant of the start *)

Listens(p) == UNION {script[p].listen[s] : s \in Source}

(* The stages after the checks, in all of which a process has its port *)
Checked == {"password", "fork", "identity", "pid", "signals", "serving", "bailout", "freed"}

PortTypes ==
    /\ script \in [Processes -> Settings]
    /\ stage \in [Processes -> Stage]
    /\ root \in [Processes -> BOOLEAN]
    /\ bound \in [Ports -> Processes \cup {None}]

(* A process has only ports it was told to open. *)
PortInv == \A n \in Ports : bound[n] \in Processes => n \in Listens(bound[n])

UseInv ==
    \A p \in Processes :
        stage[p] \in {"fork", "identity", "pid", "signals", "serving"} =>
            script[p].use = "serve"

CheckedInv ==
    \A p \in Processes :
        stage[p] \in Checked /\ script[p].use = "serve" =>
            script[p].parents # {} /\ BoundBy(p) # {}

RootInv ==
    \A p \in Processes :
        stage[p] \in {"pid", "signals", "serving"} /\ script[p].uid = "valid" => ~root[p]

PidInv ==
    SamePort =>
        \A p \in Processes : stage[p] = "signals" \/ Serving(p) => pidfile = p

StartInv == PortTypes /\ PortInv /\ UseInv /\ CheckedInv /\ RootInv

LEMMA InitStart == StartInit => StartInv /\ PidInv
  BY StartupAssumption DEF StartInit, StartInv, PortTypes, PortInv, UseInv, CheckedInv, RootInv,
     PidInv, Serving, Stage, Checked

(* A step of one process keeps the invariant if it keeps it for the process: *)
(* the others keep their stage, their privileges and their ports.           *)
LEMMA StepKeeps ==
    ASSUME StartInv, NEW p \in Processes, NEW s \in Stage, GoOn(p, s),
           script' = script,
           root' \in [Processes -> BOOLEAN],
           \A q \in Processes \ {p} : root'[q] = root[q],
           bound' \in [Ports -> Processes \cup {None}],
           \A n \in Ports, q \in Processes \ {p} : bound'[n] = q <=> bound[n] = q,
           \A n \in Ports : bound'[n] = p => n \in Listens(p),
           s \in {"fork", "identity", "pid", "signals", "serving"} => script[p].use = "serve",
           s \in Checked /\ script[p].use = "serve" =>
               script[p].parents # {} /\ \E n \in Ports : bound'[n] = p,
           s \in {"pid", "signals", "serving"} /\ script[p].uid = "valid" => ~root'[p]
    PROVE  StartInv'
<1>1. /\ stage' \in [Processes -> Stage]
      /\ stage'[p] = s
      /\ \A q \in Processes \ {p} : stage'[q] = stage[q]
  BY DEF StartInv, PortTypes, GoOn
<1>2. PortTypes'
  BY <1>1 DEF StartInv, PortTypes
<1>3. PortInv'
  <2>1. ASSUME NEW n \in Ports, NEW q \in Processes, bound'[n] = q PROVE n \in Listens(q)
    <3>1. CASE q = p
      BY <2>1, <3>1
    <3>2. CASE q # p
      <4>1. bound[n] = q
        BY <2>1, <3>2
      <4> QED
        BY <4>1 DEF StartInv, PortInv
    <3> QED
      BY <3>1, <3>2
  <2>2. PortInv' <=>
            \A n \in Ports : bound'[n] \in Processes =>
                n \in UNION {script[bound'[n]].listen[src] : src \in Source}
    BY DEF PortInv, Listens
  <2> QED
    BY <2>1, <2>2 DEF Listens
<1>4. UseInv'
  BY <1>1 DEF StartInv, UseInv
<1>5. CheckedInv'
  <2> SUFFICES ASSUME NEW q \in Processes, stage'[q] \in Checked, script'[q].use = "serve"
               PROVE  script'[q].parents # {} /\ BoundBy(q)' # {}
    BY DEF CheckedInv
  <2>1. CASE q = p
    BY <1>1, <2>1 DEF BoundBy
  <2>2. CASE q # p
    <3>1. script[q].parents # {} /\ BoundBy(q) # {}
      BY <1>1, <2>2 DEF StartInv, CheckedInv
    <3>2. PICK n \in Ports : bound[n] = q
      BY <3>1 DEF BoundBy
    <3> QED
      BY <2>2, <3>1, <3>2 DEF BoundBy
  <2> QED
    BY <2>1, <2>2
<1>6. RootInv'
  BY <1>1 DEF StartInv, RootInv
<1> QED
  BY <1>2, <1>3, <1>4, <1>5, <1>6 DEF StartInv

LEMMA FailKeeps ==
    ASSUME StartInv, NEW p \in Processes, Fail(p)
    PROVE  StartInv'
<1> DEFINE s == IF p = self THEN "ended" ELSE "off"
<1>1. s \in Stage /\ GoOn(p, s) /\ script' = script /\ root' = root
  BY DEF Fail, End, Stage
<1>2. bound' = [n \in Ports |-> IF bound[n] = p THEN None ELSE bound[n]]
  BY DEF Fail, End
<1>3. \A n \in Ports : bound'[n] # p
  BY <1>2, StartupAssumption
<1>4. \A n \in Ports, q \in Processes \ {p} : bound'[n] = q <=> bound[n] = q
  BY <1>2, StartupAssumption
<1>5. root \in [Processes -> BOOLEAN] /\ bound' \in [Ports -> Processes \cup {None}]
  BY <1>2 DEF StartInv, PortTypes
<1>6. s \notin Checked /\ s \notin {"fork", "identity", "pid", "signals", "serving"}
  BY DEF Checked
<1> HIDE DEF s
<1> QED
  BY <1>1, <1>3, <1>4, <1>5, <1>6, StepKeeps

(* A process that leaves its ports as they are *)
LEMMA StayKeeps ==
    ASSUME StartInv, NEW p \in Processes, NEW s \in Stage, GoOn(p, s),
           script' = script, bound' = bound,
           root' \in [Processes -> BOOLEAN],
           \A q \in Processes \ {p} : root'[q] = root[q],
           s \in {"fork", "identity", "pid", "signals", "serving"} => script[p].use = "serve",
           s \in Checked /\ script[p].use = "serve" =>
               stage[p] \in Checked \/ (script[p].parents # {} /\ BoundBy(p) # {}),
           s \in {"pid", "signals", "serving"} /\ script[p].uid = "valid" => ~root'[p]
    PROVE  StartInv'
<1>1. \A n \in Ports : bound'[n] = p => n \in Listens(p)
  BY DEF StartInv, PortInv
<1>2. bound' \in [Ports -> Processes \cup {None}]
  BY DEF StartInv, PortTypes
<1>3. s \in Checked /\ script[p].use = "serve" =>
          script[p].parents # {} /\ \E n \in Ports : bound'[n] = p
  BY DEF StartInv, CheckedInv, BoundBy
<1>4. \A n \in Ports, q \in Processes \ {p} : bound'[n] = q <=> bound[n] = q
  OBVIOUS
<1> QED
  BY <1>1, <1>2, <1>3, <1>4, StepKeeps

(* A process that opens ports it was told to open, before the checks *)
LEMMA ListenKeeps ==
    ASSUME StartInv, NEW p \in Processes, NEW s \in {"file", "checks"}, GoOn(p, s),
           NEW source \in Source, ListenAdd(p, script[p].listen[source]),
           script' = script, root' = root
    PROVE  StartInv'
<1>1. bound' = [n \in Ports |->
          IF n \in script[p].listen[source] /\ bound[n] = None THEN p ELSE bound[n]]
  BY DEF ListenAdd
<1>2. bound' \in [Ports -> Processes \cup {None}] /\ root' \in [Processes -> BOOLEAN]
  BY <1>1 DEF StartInv, PortTypes
<1>3. \A n \in Ports, q \in Processes \ {p} : bound'[n] = q <=> bound[n] = q
  BY <1>1, StartupAssumption
<1>4. \A n \in Ports : bound'[n] = p => n \in Listens(p)
  <2> SUFFICES ASSUME NEW n \in Ports, bound'[n] = p PROVE n \in Listens(p)
    OBVIOUS
  <2>1. CASE bound[n] = p
    BY <2>1 DEF StartInv, PortInv
  <2>2. CASE bound[n] # p
    <3>1. n \in script[p].listen[source]
      BY <1>1, <2>2
    <3> QED
      BY <3>1 DEF Listens
  <2> QED
    BY <2>1, <2>2
<1>5. s \in Stage /\ s \notin Checked
      /\ s \notin {"fork", "identity", "pid", "signals", "serving"}
  BY DEF Stage, Checked
<1> QED
  BY <1>2, <1>3, <1>4, <1>5, StepKeeps

LEMMA StartStepKeeps ==
    ASSUME StartInv, NEW p \in Processes, StartStep(p)
    PROVE  StartInv'
<1>1. CASE Start(p)
  <2>1. root' \in [Processes -> BOOLEAN] /\ \A q \in Processes \ {p} : root'[q] = root[q]
    BY <1>1 DEF Start, StartInv, PortTypes, Settings
  <2>2. GoOn(p, "options") /\ script' = script /\ bound' = bound
    BY <1>1 DEF Start
  <2> QED
    BY <2>1, <2>2, StayKeeps DEF Stage, Checked
<1>2. CASE Options(p)
  BY <1>2, FailKeeps, ListenKeeps DEF Options, Source
<1>3. CASE File(p)
  BY <1>3, FailKeeps, ListenKeeps DEF File, Source
<1>4. root \in [Processes -> BOOLEAN]
  BY DEF StartInv, PortTypes
<1>5. CASE Checks(p)
  <2>1. CASE Complete(p)
    <3>1. GoOn(p, "password") /\ script' = script /\ bound' = bound /\ root' = root
      BY <1>5, <2>1 DEF Checks
    <3>2. script[p].use = "serve" => script[p].parents # {} /\ BoundBy(p) # {}
      BY <2>1 DEF Complete
    <3> QED
      BY <1>4, <3>1, <3>2, StayKeeps DEF Stage, Checked
  <2> QED
    BY <1>5, <2>1, FailKeeps DEF Checks
<1>6. CASE Password(p)
  <2>1. CASE Fail(p)
    BY <2>1, FailKeeps
  <2>2. CASE ~Fail(p)
    <3>1. PICK s \in {"bailout", "fork", "identity"} :
              GoOn(p, s) /\ (s # "bailout" => script[p].use = "serve")
      BY <1>6, <2>2 DEF Password
    <3>2. script' = script /\ bound' = bound /\ root' = root
      BY <1>6, <2>2 DEF Password
    <3>3. stage[p] \in Checked
      BY <1>6 DEF Password, Checked
    <3> QED
      BY <1>4, <3>1, <3>2, <3>3, StayKeeps DEF Stage
  <2> QED
    BY <2>1, <2>2
<1>7. CASE Fork(p)
  <2>1. script[p].use = "serve" /\ stage[p] \in Checked
    BY <1>7 DEF Fork, StartInv, UseInv, Checked
  <2> QED
    BY <1>4, <1>7, <2>1, FailKeeps, StayKeeps DEF Fork, Stage
<1>8. CASE Identity(p)
  <2>1. script[p].use = "serve" /\ stage[p] \in Checked
    BY <1>8 DEF Identity, StartInv, UseInv, Checked
  <2>2. CASE Fail(p)
    BY <2>2, FailKeeps
  <2>3. CASE ~Fail(p)
    <3>1. GoOn(p, "pid") /\ script' = script /\ bound' = bound
      BY <1>8, <2>3 DEF Identity
    <3>2. /\ root' \in [Processes -> BOOLEAN]
          /\ \A q \in Processes \ {p} : root'[q] = root[q]
          /\ script[p].uid = "valid" => ~root'[p]
      <4>1. CASE root' = root /\ (script[p].uid = "none" \/ ~root[p])
        BY <1>4, <4>1
      <4>2. CASE root' = [root EXCEPT ![p] = FALSE]
        BY <1>4, <4>2
      <4> QED
        BY <1>8, <2>3, <4>1, <4>2 DEF Identity
    <3> QED
      BY <2>1, <3>1, <3>2, StayKeeps DEF Stage
  <2> QED
    BY <2>2, <2>3
<1>9. CASE PidFile(p)
  <2>1. script[p].use = "serve" /\ stage[p] \in Checked
        /\ (script[p].uid = "valid" => ~root[p])
    BY <1>9 DEF PidFile, StartInv, UseInv, RootInv, Checked
  <2> QED
    BY <1>4, <1>9, <2>1, FailKeeps, StayKeeps DEF PidFile, Stage
<1>10. CASE Signals(p)
  <2>1. script[p].use = "serve" /\ stage[p] \in Checked
        /\ (script[p].uid = "valid" => ~root[p])
    BY <1>10 DEF Signals, StartInv, UseInv, RootInv, Checked
  <2> QED
    BY <1>4, <1>10, <2>1, StayKeeps DEF Signals, Stage
<1>11. CASE Killed(p)
  BY <1>11, FailKeeps DEF Killed
<1>12. CASE Leave(p)
  <2>1. stage[p] \in Checked
    BY <1>12 DEF Leave, Checked
  <2> QED
    BY <1>4, <1>12, <2>1, StayKeeps DEF Leave, Stage
<1>13. CASE Bailout(p)
  <2>1. stage[p] \in Checked
    BY <1>13 DEF Bailout, Checked
  <2> QED
    BY <1>4, <1>13, <2>1, StayKeeps DEF Bailout, Unlink, Stage
<1>14. CASE Ended(p)
  BY <1>14, FailKeeps DEF Ended
<1> QED
  BY <1>1, <1>2, <1>3, <1>5, <1>6, <1>7, <1>8, <1>9, <1>10, <1>11, <1>12, <1>13, <1>14
  DEF StartStep

LEMMA NextStart == StartInv /\ [StartNext]_startvars => StartInv'
<1> SUFFICES ASSUME StartInv, [StartNext]_startvars PROVE StartInv'
  OBVIOUS
<1>1. CASE UNCHANGED <<script, stage, root, bound>>
  BY <1>1 DEF StartInv, PortTypes, PortInv, UseInv, CheckedInv, RootInv, BoundBy, Listens
<1>2. CASE Serve
  <2>1. UNCHANGED <<script, stage, root, bound>> \/ Fail(self)
    BY <1>2 DEF Serve, Unlink, process
  <2> QED
    BY <1>1, <2>1, FailKeeps, StartupAssumption
<1>3. ASSUME NEW p \in Processes, StartStep(p) PROVE StartInv'
  BY <1>3, StartStepKeeps
<1> QED
  BY <1>1, <1>2, <1>3 DEF StartNext, startvars, process

-----------------------------------------------------------------------------
(* The PID file *)

(* With one port for all, one process at most is past the checks. *)
LEMMA OneHasThePort ==
    ASSUME StartInv, SamePort, NEW p \in Processes, NEW q \in Processes,
           stage[p] \in Checked, stage[q] \in Checked
    PROVE  p = q
<1>1. PICK n \in Ports : \A r \in Processes : script[r].use = "serve" /\ Listens(r) = {n}
  BY DEF SamePort, Listens
<1>2. ASSUME NEW r \in Processes, stage[r] \in Checked PROVE bound[n] = r
  <2>1. PICK m \in Ports : bound[m] = r
    BY <1>1, <1>2 DEF StartInv, CheckedInv, BoundBy
  <2>2. m \in Listens(r)
    BY <2>1 DEF StartInv, PortInv
  <2> QED
    BY <1>1, <2>1, <2>2
<1> QED
  BY <1>2

(* After the loop main does not come back. *)
LEMMA LeftForGood ==
    ASSUME Next, main \in {"freed", "exited"}
    PROVE  main' \in {"freed", "exited"}
<1>1. CASE Signal
  BY <1>1 DEF Signal
<1>2. CASE MainStep
  BY <1>2 DEF MainStep, LoopTest, Select, Accept, AllPortsSeen, Reap, Lock, Join, Unlock,
     Free, Exit
<1>3. ASSUME NEW c \in Conns, ThreadStep(c) PROVE main' \in {"freed", "exited"}
  BY <1>3 DEF ThreadStep, AddToList, Finish, FinishSocks, FinishInline
<1> QED
  BY <1>1, <1>2, <1>3 DEF Next

(* The process of a step is in the stage the step starts from, and only two  *)
(* steps of the start write the file.                                       *)
LEMMA StepOfStart ==
    ASSUME StartInv, NEW p \in Processes, StartStep(p)
    PROVE  /\ script' = script
           /\ \A q \in Processes \ {p} : stage'[q] = stage[q]
           /\ stage'[p] \in {"signals", "serving"} => PidFile(p) \/ Signals(p)
           /\ pidfile' = pidfile \/ stage[p] \in Checked
<1>1. stage \in [Processes -> Stage]
  BY DEF StartInv, PortTypes
<1>2. CASE Fail(p)
  BY <1>1, <1>2 DEF Fail, End, GoOn
<1>3. CASE ~Fail(p)
  <2>1. CASE Start(p) \/ Options(p) \/ File(p) \/ Checks(p)
    BY <1>1, <1>3, <2>1 DEF Start, Options, File, Checks, GoOn
  <2>2. CASE Password(p) \/ Fork(p) \/ Identity(p)
    BY <1>1, <1>3, <2>2 DEF Password, Fork, Identity, GoOn
  <2>3. CASE PidFile(p) \/ Signals(p)
    BY <1>1, <1>3, <2>3 DEF PidFile, Signals, GoOn, Checked
  <2>4. CASE Killed(p) \/ Leave(p) \/ Bailout(p) \/ Ended(p)
    BY <1>1, <1>3, <2>4 DEF Killed, Leave, Bailout, Ended, GoOn, Checked
  <2> QED
    BY <2>1, <2>2, <2>3, <2>4 DEF StartStep
<1> QED
  BY <1>2, <1>3

LEMMA NextPid == StartInv /\ PidInv /\ [StartNext]_startvars => PidInv'
<1> SUFFICES ASSUME StartInv, PidInv, [StartNext]_startvars PROVE PidInv'
  OBVIOUS
<1>1. CASE UNCHANGED startvars
  BY <1>1 DEF PidInv, SamePort, Serving, startvars, process, vars
<1>2. ASSUME NEW p \in Processes, StartStep(p), UNCHANGED vars PROVE PidInv'
  <2>1. SamePort' = SamePort
    BY <1>2, StepOfStart DEF SamePort
  <2> SUFFICES ASSUME SamePort, NEW q \in Processes, stage'[q] = "signals" \/ Serving(q)'
               PROVE  pidfile' = q
    BY <2>1 DEF PidInv
  <2>2. CASE q # p
    <3>1. stage'[q] = stage[q]
      BY <1>2, <2>2, StepOfStart
    <3>2. stage[q] = "signals" \/ Serving(q)
      BY <1>2, <3>1 DEF Serving, vars
    <3>3. pidfile = q /\ stage[q] \in Checked
      BY <3>2 DEF PidInv, Serving, Checked
    <3>4. pidfile' = pidfile
      BY <1>2, <2>2, <3>3, StepOfStart, OneHasThePort
    <3> QED
      BY <3>3, <3>4
  <2>3. CASE q = p
    <3>1. PidFile(p) \/ Signals(p)
      BY <1>2, <2>3, StepOfStart DEF Serving
    <3>2. CASE PidFile(p)
      BY <2>3, <3>2 DEF PidFile, SamePort, Fail, End, GoOn, Serving, StartInv, PortTypes
    <3>3. CASE Signals(p)
      BY <2>3, <3>3 DEF Signals, PidInv
    <3> QED
      BY <3>1, <3>2, <3>3
  <2> QED
    BY <2>2, <2>3
<1>3. CASE Serve
  <2>1. stage[self] = "serving" /\ stage[self] \in Checked /\ self \in Processes
    BY <1>3, StartupAssumption DEF Serve, Checked
  <2>2. script' = script /\ SamePort' = SamePort
    BY <1>3 DEF Serve, Fail, process, SamePort
  <2>3. \A q \in Processes \ {self} : stage'[q] = stage[q]
    BY <1>3 DEF Serve, Fail, End, GoOn, process, StartInv, PortTypes
  <2> SUFFICES ASSUME SamePort, NEW q \in Processes, stage'[q] = "signals" \/ Serving(q)'
               PROVE  pidfile' = q
    BY <2>2 DEF PidInv
  <2>4. q = self
    <3> SUFFICES ASSUME q # self PROVE FALSE
      OBVIOUS
    <3>1. stage[q] \in Checked
      BY <2>3 DEF Serving, Checked
    <3> QED
      BY <2>1, <3>1, OneHasThePort
  <2>5. CASE UNCHANGED process
    <3>1. Serving(self)'
      BY <2>1, <2>4, <2>5 DEF process
    <3>2. main \notin {"freed", "exited"}
      BY <1>3, <3>1, LeftForGood DEF Serving, Serve
    <3> QED
      BY <2>1, <2>4, <2>5, <3>2 DEF PidInv, Serving, process
  <2>6. CASE main' = "freed" /\ UNCHANGED stage
    BY <2>1, <2>4, <2>6 DEF Serving
  <2>7. CASE Fail(self)
    BY <2>1, <2>4, <2>7 DEF Fail, End, GoOn, Serving, StartInv, PortTypes
  <2> QED
    BY <1>3, <2>5, <2>6, <2>7 DEF Serve
<1> QED
  BY <1>1, <1>2, <1>3 DEF StartNext

(***************************************************************************)
(* However often the program is started, and wherever a start fails or is  *)
(* interrupted: a process that serves is prepared, and if all are started   *)
(* with the same port, the PID file names it.                              *)
(***************************************************************************)
THEOREM StartIsOrderly == StartSpec => []StartedInOrder
<1>1. StartInv /\ PidInv => StartedInOrder
  <2> SUFFICES ASSUME StartInv, PidInv, NEW p \in Processes, Serving(p)
               PROVE  Prepared(p) /\ (SamePort => pidfile = p)
    BY DEF StartedInOrder
  <2>1. stage[p] = "serving" /\ stage[p] \in Checked
    BY DEF Serving, Checked
  <2>2. Prepared(p)
    BY <2>1 DEF Prepared, StartInv, UseInv, CheckedInv, RootInv
  <2> QED
    BY <2>2 DEF PidInv
<1> QED
  BY <1>1, InitStart, NextStart, NextPid, PTL DEF StartSpec

-----------------------------------------------------------------------------
(* Types of the whole program *)

(* Before it serves, self is in none of the states of its main loop.         *)
NotYetServing ==
    stage[self] \notin {"serving", "ended"} => main = "test" /\ quit = 0 /\ tc = 0

StartTypes ==
    /\ script \in Scripts
    /\ pidfile \in Processes \cup {None}
    /\ NotYetServing

LEMMA NextStartTypes == StartInv /\ StartTypes /\ [StartNext]_startvars => StartTypes'
<1> SUFFICES ASSUME StartInv, StartTypes, [StartNext]_startvars PROVE StartTypes'
  OBVIOUS
<1>1. CASE UNCHANGED startvars
  BY <1>1 DEF StartTypes, NotYetServing, startvars, process, vars
<1>2. ASSUME NEW p \in Processes, StartStep(p), UNCHANGED vars PROVE StartTypes'
  <2>1. script' = script /\ \A q \in Processes \ {p} : stage'[q] = stage[q]
    BY <1>2, StepOfStart
  <2>2. pidfile' \in {p, None, pidfile}
    BY <1>2 DEF StartStep, Start, Options, File, Checks, Password, Fork, Identity, PidFile,
       Signals, Killed, Leave, Bailout, Unlink, Ended, Fail
  <2>3. p = self => stage[self] \notin {"serving", "ended"}
    BY <1>2 DEF StartStep, Start, Options, File, Checks, Password, Fork, Identity, PidFile,
       Signals, Killed, Leave, Bailout, Ended
  <2>4. NotYetServing'
    BY <1>2, <2>1, <2>3, StartupAssumption DEF StartTypes, NotYetServing, vars
  <2> QED
    BY <2>1, <2>2, <2>4 DEF StartTypes
<1>3. CASE Serve
  <2>1. stage[self] = "serving"
    BY <1>3 DEF Serve
  <2>2. script' = script /\ pidfile' \in {pidfile, None} /\ (stage' = stage \/ Fail(self))
    BY <1>3 DEF Serve, Unlink, Fail, process
  <2>3. stage'[self] \in {"serving", "ended"}
    BY <2>1, <2>2, StartupAssumption DEF Fail, End, GoOn, StartInv, PortTypes
  <2> QED
    BY <2>2, <2>3 DEF StartTypes, NotYetServing
<1> QED
  BY <1>1, <1>2, <1>3 DEF StartNext

(* Whatever starts, fails and serves when: every variable has its type, and  *)
(* nothing is accepted before all that has to be done before is.             *)
THEOREM StartTypeCorrect == StartSpec => []StartTypeOK
<1>1. StartInit => StartTypes
  BY DEF StartInit, Init, StartTypes, NotYetServing
<1>2. StartSpec => []TypeOK
  BY MainLoopImplemented, TypeCorrect, PTL
<1>3. StartInv /\ StartTypes /\ TypeOK => StartTypeOK
  BY DEF StartInv, PortTypes, StartTypes, NotYetServing, StartTypeOK
<1> QED
  BY <1>1, <1>2, <1>3, InitStart, NextStart, NextStartTypes, PTL DEF StartSpec

=============================================================================
