------------------------- MODULE BatchClient_proofs -------------------------
(***************************************************************************)
(* Proofs about the command line client, for any number of lines, threads, *)
(* results and hits: it implements the sequential client, and the rows of  *)
(* a line are its best hits.  The latter rests on what Finder makes of any *)
(* list of hits, however long: a proof by induction over the hits.         *)
(***************************************************************************)
EXTENDS BatchClient, SequenceTheorems, WellFoundedInduction, TLAPS

-----------------------------------------------------------------------------
(* Induction over the natural numbers, for a set instead of a predicate: a   *)
(* set that lacks a number lacks a least one.                                *)
LEMMA Induction ==
    ASSUME NEW S \in SUBSET Nat, 0 \in S, \A n \in S : n + 1 \in S
    PROVE  S = Nat
<1> DEFINE Less == OpToRel(<, Nat)
           Missing == Nat \ S
<1>1. IsWellFoundedOn(Less, Nat)
  BY NatLessThanWellFounded
<1>2. \A a, b \in Nat : <<a, b>> \in Less <=> a < b
  BY DEF OpToRel
<1> HIDE DEF Less
<1>3. SUFFICES ASSUME Missing # {} PROVE FALSE
  OBVIOUS
<1>4. PICK n \in Missing : \A m \in Missing : ~(<<m, n>> \in Less)
  <2>1. Missing \subseteq Nat
    OBVIOUS
  <2> HIDE DEF Missing
  <2> QED
    BY <1>1, <1>3, <2>1, WFMin, Zenon
<1>5. n \in Nat \ {0} /\ n - 1 \in Nat
  OBVIOUS
<1>6. <<n - 1, n>> \in Less
  BY <1>2, <1>5
<1>7. n - 1 \notin Missing
  BY <1>4, <1>6, Zenon
<1>8. n - 1 \in S
  BY <1>5, <1>7
<1> QED
  BY <1>5, <1>8

-----------------------------------------------------------------------------
(* The loop over the hits *)

IsLoop(loop, hits, n, pruning) ==
    loop = [i \in 0..n |-> IF i = 0 THEN Start ELSE NextHit(loop[i - 1], hits, pruning, i)]

(* There is a function that is what Loop's recursive definition says.        *)
LEMMA LoopExists ==
    ASSUME NEW hits, NEW pruning
    PROVE  \A n \in Nat : \E loop : IsLoop(loop, hits, n, pruning)
<1> DEFINE S == {n \in Nat : \E loop : IsLoop(loop, hits, n, pruning)}
<1>1. 0 \in S
  <2>1. IsLoop([i \in 0..0 |-> Start], hits, 0, pruning)
    BY DEF IsLoop
  <2> QED
    BY <2>1
<1>2. ASSUME NEW n \in S PROVE n + 1 \in S
  <2>1. PICK loop : IsLoop(loop, hits, n, pruning)
    OBVIOUS
  <2> DEFINE last == NextHit(loop[n], hits, pruning, n + 1)
             longer == [i \in 0..n + 1 |-> IF i = n + 1 THEN last ELSE loop[i]]
             step(i) == IF i = 0 THEN Start ELSE NextHit(longer[i - 1], hits, pruning, i)
  <2>2. ASSUME NEW i \in 0..n + 1 PROVE longer[i] = step(i)
    <3>1. CASE i = n + 1
      BY <3>1
    <3>2. CASE i \in 0..n
      <4>1. loop[i] = IF i = 0 THEN Start ELSE NextHit(loop[i - 1], hits, pruning, i)
        BY <2>1, <3>2 DEF IsLoop
      <4>2. i # 0 => longer[i - 1] = loop[i - 1]
        BY <3>2
      <4> QED
        BY <3>2, <4>1, <4>2
    <3> QED
      BY <3>1, <3>2
  <2>3. IsLoop(longer, hits, n + 1, pruning)
    BY <2>2 DEF IsLoop
  <2> QED
    BY <2>3
<1>3. S = Nat
  <2> HIDE DEF S
  <2>1. S \in SUBSET Nat
    BY DEF S
  <2> QED
    BY <1>1, <1>2, <2>1, Induction
<1> QED
  BY <1>3

LEMMA LoopIs ==
    ASSUME NEW hits, NEW n \in Nat, NEW pruning
    PROVE  IsLoop(Loop(hits, n, pruning), hits, n, pruning)
<1>1. \E loop : IsLoop(loop, hits, n, pruning)
  BY LoopExists
<1>2. Loop(hits, n, pruning) = CHOOSE loop : IsLoop(loop, hits, n, pruning)
  BY DEF Loop, IsLoop
<1> QED
  BY <1>1, <1>2

(* The first n numbers: a result is the position of its hit. *)
First(n) == [k \in 1..n |-> k]

Carried ==
    [score : Int, diff : Int, previous : Nat, results : Seq(Nat), done : BOOLEAN]

(* After i hits the results are those before the one that is carried along.  *)
After(loop, i) ==
    /\ loop \in Carried
    /\ loop.previous <= i
    /\ ~loop.done => loop.previous = i
    /\ loop.results = First(loop.previous - 1)

LEMMA FirstGrows ==
    ASSUME NEW n \in Nat
    PROVE  AddResult(First(n - 1), n) = First(n)
<1>1. CASE n = 0
  BY <1>1 DEF AddResult, First
<1>2. CASE n # 0
  <2>1. First(n - 1) \in Seq(Nat) /\ Len(First(n - 1)) = n - 1
    BY <1>2 DEF First
  <2>2. Append(First(n - 1), n) = First(n)
    BY <1>2, <2>1 DEF First
  <2> QED
    BY <1>2, <2>2 DEF AddResult
<1> QED
  BY <1>1, <1>2

LEMMA NextAfter ==
    ASSUME NEW hits \in Seq(Nat), NEW pruning, NEW loop, NEW i \in Nat, i + 1 <= Len(hits),
           After(loop, i)
    PROVE  After(NextHit(loop, hits, pruning, i + 1), i + 1)
<1> DEFINE diff == loop.score - hits[i + 1]
           next_ == NextHit(loop, hits, pruning, i + 1)
<1>0. hits[i + 1] \in Nat /\ First(i) \in Seq(Nat)
  BY DEF First
<1>1. CASE loop.done
  <2>1. next_ = loop
    BY <1>1 DEF NextHit
  <2> HIDE DEF next_
  <2>2. After(next_, i + 1)
    BY <1>1, <2>1 DEF After, Carried
  <2> QED
    BY <2>2 DEF next_
<1>2. CASE ~loop.done /\ pruning /\ Pruned(loop, diff)
  <2>1. next_ = [loop EXCEPT !.done = TRUE]
    BY <1>2 DEF NextHit
  <2> HIDE DEF next_
  <2>2. loop \in Carried
    BY DEF After
  <2>3. /\ next_ \in Carried /\ next_.done
        /\ next_.previous = loop.previous /\ next_.results = loop.results
    BY <2>1, <2>2 DEF Carried
  <2>4. After(next_, i + 1)
    BY <2>3 DEF After, Carried
  <2> QED
    BY <2>4 DEF next_
<1>3. CASE ~loop.done /\ ~(pruning /\ Pruned(loop, diff))
  <2>1. next_ = [loop EXCEPT !.score = hits[i + 1], !.diff = diff, !.previous = i + 1,
                             !.results = AddResult(loop.results, loop.previous)]
    BY <1>3 DEF NextHit
  <2>2. AddResult(loop.results, loop.previous) = First(i)
    BY <1>3, FirstGrows DEF After
  <2>3. diff \in Int
    BY <1>0 DEF After, Carried
  <2> HIDE DEF next_, diff
  <2>4. loop \in Carried
    BY DEF After
  <2>5. next_ = [score |-> hits[i + 1], diff |-> diff, previous |-> i + 1,
                 results |-> First(i), done |-> FALSE]
    BY <1>3, <2>1, <2>2, <2>4 DEF Carried
  <2>6. After(next_, i + 1)
    BY <1>0, <2>3, <2>5 DEF After, Carried
  <2> QED
    BY <2>6 DEF next_
<1> QED
  BY <1>1, <1>2, <1>3

LEMMA LoopAfter ==
    ASSUME NEW hits \in Seq(Nat), NEW pruning, NEW n \in 0..Len(hits)
    PROVE  After(Loop(hits, n, pruning)[n], n)
<1> DEFINE loop == Loop(hits, n, pruning)
           S == {i \in Nat : i <= n => After(loop[i], i)}
<1>1. IsLoop(loop, hits, n, pruning)
  BY LoopIs
<1> HIDE DEF loop
<1>2. 0 \in S
  <2>1. loop[0] = Start
    BY <1>1 DEF IsLoop
  <2>2. First(0 - 1) = << >>
    BY DEF First
  <2>3. After(Start, 0)
    BY <2>2 DEF After, Start, Carried
  <2> QED
    BY <2>1, <2>3
<1>3. ASSUME NEW i \in S PROVE i + 1 \in S
  <2>1. SUFFICES ASSUME i + 1 <= n PROVE After(loop[i + 1], i + 1)
    OBVIOUS
  <2>2. loop[i + 1] = NextHit(loop[i], hits, pruning, i + 1)
    BY <1>1, <2>1 DEF IsLoop
  <2> QED
    BY <2>1, <2>2, NextAfter
<1>4. S = Nat
  <2> HIDE DEF S
  <2>1. S \in SUBSET Nat
    BY DEF S
  <2> QED
    BY <1>2, <1>3, <2>1, Induction
<1>5. After(loop[n], n)
  BY <1>4
<1> QED
  BY <1>5 DEF loop

(***************************************************************************)
(* Whatever the scores and the settings, the results of a search are its   *)
(* best hits in their order, no more than asked for, and never all of its  *)
(* hits: the last one is lost.                                             *)
(***************************************************************************)
THEOREM BestHitsFound ==
    ASSUME NEW hits \in Seq(Nat), NEW maxResults \in Nat, NEW pruning
    PROVE  \E n \in 0..maxResults :
              /\ QueryIndex(hits, maxResults, pruning) = First(n)
              /\ n < Len(hits) \/ n = 0
<1> DEFINE f == Fetched(hits, maxResults)
           p == Loop(hits, f, pruning)[f].previous
<1>1. f \in Nat /\ f <= Len(hits) /\ f <= maxResults + 1
  BY DEF Fetched
<1>2. p \in 0..f /\ QueryIndex(hits, maxResults, pruning) = First(p - 1)
  <2>1. QueryIndex(hits, maxResults, pruning) = Loop(hits, f, pruning)[f].results
    BY DEF QueryIndex
  <2> HIDE DEF f
  <2>2. After(Loop(hits, f, pruning)[f], f)
    BY <1>1, LoopAfter
  <2> QED
    BY <2>1, <2>2 DEF After, Carried
<1> HIDE DEF f, p
<1>3. CASE p = 0
  <2>1. First(p - 1) = First(0)
    BY <1>3 DEF First
  <2> QED
    BY <1>2, <2>1
<1>4. CASE p # 0
  BY <1>1, <1>2, <1>4
<1> QED
  BY <1>3, <1>4

-----------------------------------------------------------------------------
(* The rows of a line *)

(* A line's rows, as SequentialClient and RowsAreBest speak of them          *)
Best(i, n) == [k \in 1..n |-> Row(i, k)]

GoodRows(i, rows, unique, hitCount) ==
    \/ rows = <<Row(i, 0)>> /\ unique /\ hitCount > 2
    \/ \E n \in 0..MaxResults :
          rows = Best(i, n) /\ (n < hitCount \/ n = 0) /\ (unique => n <= 1)

LEMMA HitsType ==
    ASSUME NEW hits \in Hits
    PROVE  hits \in Seq(Nat) /\ Len(hits) \in 0..MaxHits
<1>1. PICK n \in 0..MaxHits : hits \in [1..n -> Scores]
  BY DEF Hits
<1>2. n \in Nat /\ Scores \subseteq Nat /\ MaxHits \in Nat
  BY BatchAssumption
<1>3. hits \in [1..n -> Nat]
  BY <1>1, <1>2
<1>4. hits \in Seq(Nat) /\ Len(hits) = n
  BY <1>2, <1>3
<1> QED
  BY <1>2, <1>4

LEMMA RowsGood ==
    ASSUME NEW i \in Line, NEW unique \in BOOLEAN, NEW hits \in Hits
    PROVE  GoodRows(i, Rows(i, unique, QueryIndex(hits, MaxResults, prune)), unique, Len(hits))
<1> DEFINE results == QueryIndex(hits, MaxResults, prune)
<1>1. MaxResults \in Nat /\ hits \in Seq(Nat) /\ Len(hits) \in Nat
  BY HitsType, BatchAssumption
<1>2. PICK n \in 0..MaxResults : results = First(n) /\ (n < Len(hits) \/ n = 0)
  BY <1>1, BestHitsFound
<1> HIDE DEF results
<1>3. Len(results) = n /\ DOMAIN results = 1..n /\ \A k \in 1..n : results[k] = k
  BY <1>1, <1>2 DEF First
<1>4. CASE unique /\ n > 1
  BY <1>1, <1>2, <1>3, <1>4 DEF Rows, GoodRows, results
<1>5. CASE ~(unique /\ n > 1)
  <2>1. Rows(i, unique, results) = [k \in DOMAIN results |-> Row(i, results[k])]
    BY <1>1, <1>2, <1>3, <1>5 DEF Rows
  <2>2. Rows(i, unique, results) = Best(i, n)
    BY <1>3, <2>1 DEF Best
  <2>3. (n < Len(hits) \/ n = 0) /\ (unique => n <= 1)
    BY <1>1, <1>2, <1>5
  <2> QED
    BY <2>2, <2>3 DEF GoodRows, results
<1> QED
  BY <1>4, <1>5

-----------------------------------------------------------------------------
(* Types, and the rows of every line *)

OutputRow == Line \X (0..MaxHits)

Types ==
    /\ prune \in BOOLEAN
    /\ batch \in BOOLEAN
    /\ main \in {"read", "get", "disposed", "exit"}
    /\ next \in 1..Lines + 1
    /\ task \in [Line -> {"unread", "queued", "running", "done", "failed"}]
    /\ enforceUnique \in [Line -> BOOLEAN]
    /\ found \in [Line -> 0..MaxHits]
    /\ DOMAIN result = Line
    /\ buffer \in Seq(OutputRow) /\ file \in Seq(OutputRow)

(* A query that was made has an answer made of its hits; enforceUnique was   *)
(* known before.                                                            *)
ResultInv ==
    \A i \in Line :
        /\ task[i] # "done" => result[i] = << >>
        /\ GoodRows(i, result[i], enforceUnique[i], found[i])

(* Until all lines are read nothing is written, and the lines not yet read   *)
(* have no query.                                                           *)
OutputInv ==
    main = "read" => /\ file = << >> /\ buffer = << >>
                     /\ next \in 1..LastLine + 1
                     /\ \A i \in next..Lines : task[i] = "unread"

IInv == Types /\ ResultInv /\ OutputInv

USE DEF Line

LEMMA Numbers ==
    /\ Lines \in Nat /\ 1 \in Line /\ LastLine \in 1..Lines
    /\ MaxResults \in Nat \ {0} /\ MaxHits \in Nat
BY BatchAssumption DEF LastLine

LEMMA NoRowsGood ==
    ASSUME NEW i, NEW unique, NEW hitCount \in Nat
    PROVE  GoodRows(i, << >>, unique, hitCount)
<1>1. Best(i, 0) = << >>
  BY DEF Best
<1> QED
  BY <1>1, Numbers DEF GoodRows

LEMMA GoodRowsType ==
    ASSUME NEW i \in Line, NEW rows, NEW unique, NEW hitCount \in 0..MaxHits,
           GoodRows(i, rows, unique, hitCount)
    PROVE  rows \in Seq(OutputRow)
<1>1. CASE rows = <<Row(i, 0)>>
  BY <1>1, Numbers DEF Row, OutputRow
<1>2. ASSUME NEW n \in 0..MaxResults, rows = Best(i, n), n < hitCount \/ n = 0
      PROVE  rows \in Seq(OutputRow)
  <2>1. \A k \in 1..n : Row(i, k) \in OutputRow
    BY <1>2, Numbers DEF Row, OutputRow
  <2>2. n \in Nat /\ rows \in [1..n -> OutputRow]
    BY <1>2, <2>1, Numbers DEF Best
  <2> QED
    BY <2>2
<1> QED
  BY <1>1, <1>2 DEF GoodRows

LEMMA InitIInv == Init => IInv
<1> SUFFICES ASSUME Init PROVE IInv
  OBVIOUS
<1>1. Types
  BY Numbers, BatchAssumption DEF Init, Types
<1>2. ResultInv
  BY Numbers, NoRowsGood DEF Init, ResultInv
<1>3. OutputInv
  BY Numbers DEF Init, OutputInv
<1> QED
  BY <1>1, <1>2, <1>3 DEF IInv

(* Steps that touch neither queries nor results                              *)
LEMMA SameResults ==
    ASSUME ResultInv, UNCHANGED <<task, enforceUnique, found, result>>
    PROVE  ResultInv'
BY DEF ResultInv

LEMMA SameTypes ==
    ASSUME Types, UNCHANGED <<prune, batch, query, buffer, file>>,
           main' \in {"read", "get", "disposed", "exit"}, next' \in 1..Lines + 1,
           task' \in [Line -> {"unread", "queued", "running", "done", "failed"}]
    PROVE  Types'
BY DEF Types, query

LEMMA MainIInv == ASSUME IInv, MainStep PROVE IInv'
<1> USE DEF IInv, query
<1>1. CASE Submit
  <2>1. next \in Line /\ task[next] = "unread"
    BY <1>1, Numbers DEF Submit, OutputInv, Types
  <2>2. Types'
    <3>1. next + 1 \in 1..Lines + 1
      BY <2>1, Numbers
    <3>2. /\ task' \in [Line -> {"unread", "queued", "running", "done", "failed"}]
          /\ enforceUnique' \in [Line -> BOOLEAN]
      BY <1>1, <2>1 DEF Submit, Types, SetTask
    <3>3. next' = next + 1 /\ UNCHANGED <<prune, batch, main, found, result, buffer, file>>
      BY <1>1 DEF Submit
    <3> QED
      BY <3>1, <3>2, <3>3 DEF Types
  <2>3. ResultInv'
    <3>1. SUFFICES ASSUME NEW i \in Line
                   PROVE  /\ task'[i] # "done" => result'[i] = << >>
                          /\ GoodRows(i, result'[i], enforceUnique'[i], found'[i])
      BY DEF ResultInv
    <3>2. CASE i = next
      <4>1. result'[i] = << >> /\ found'[i] \in Nat
        BY <1>1, <2>1, <3>2, Numbers DEF Submit, ResultInv, Types
      <4> QED
        BY <4>1, NoRowsGood
    <3>3. CASE i # next
      BY <1>1, <2>1, <3>3 DEF Submit, SetTask, ResultInv, Types
    <3> QED
      BY <3>2, <3>3
  <2>4. OutputInv'
    BY <1>1, <2>1, Numbers DEF Submit, SetTask, OutputInv, Types, LastLine
  <2> QED
    BY <2>2, <2>3, <2>4
<1>2. CASE Unreadable \/ AllRead
  <2>1. Types'
    <3>1. 1 \in 1..Lines + 1
      BY Numbers
    <3>2. UNCHANGED <<prune, batch, task, query, buffer, file>>
      BY <1>2 DEF Unreadable, AllRead
    <3>3. main' \in {"read", "get", "disposed", "exit"} /\ next' = 1
      BY <1>2 DEF Unreadable, AllRead
    <3>4. task' \in [Line -> {"unread", "queued", "running", "done", "failed"}]
      BY <3>2 DEF Types
    <3> QED
      BY <3>1, <3>2, <3>3, <3>4, SameTypes
  <2>2. ResultInv'
    BY <1>2, SameResults DEF Unreadable, AllRead
  <2>3. OutputInv'
    BY <1>2 DEF Unreadable, AllRead, OutputInv
  <2> QED
    BY <2>1, <2>2, <2>3
<1>3. CASE GetResult \/ WriteFails
  <2>0. OutputResults /\ main = "get" /\ main' \in {"get", "exit"}
    BY <1>3 DEF GetResult, WriteFails, OutputResults
  <2>1. next \in Line /\ result[next] \in Seq(OutputRow)
    <3>1. next \in Line
      BY <2>0, Numbers DEF OutputResults, Types
    <3>2. GoodRows(next, result[next], enforceUnique[next], found[next])
      BY <3>1 DEF ResultInv
    <3>3. found[next] \in 0..MaxHits
      BY <3>1 DEF Types
    <3> QED
      BY <3>1, <3>2, <3>3, GoodRowsType
  <2>2. buffer' \in Seq(OutputRow) /\ file' \in Seq(OutputRow)
    <3> DEFINE all == buffer \o result[next]
    <3>1. all \in Seq(OutputRow)
      BY <2>1 DEF Types
    <3>2. PICK k \in 0..Len(all) :
              file' = file \o SubSeq(all, 1, k) /\ buffer' = SubSeq(all, k + 1, Len(all))
      BY <2>0 DEF OutputResults, Write
    <3> HIDE DEF all
    <3>3. SubSeq(all, 1, k) \in Seq(OutputRow) /\ SubSeq(all, k + 1, Len(all)) \in Seq(OutputRow)
      BY <3>1, <3>2
    <3> QED
      BY <3>2, <3>3 DEF Types
  <2>3. Types'
    <3>1. next + 1 \in 1..Lines + 1
      BY <2>1, Numbers
    <3> QED
      BY <2>0, <2>2, <3>1 DEF OutputResults, Types
  <2>4. ResultInv'
    BY <2>0, SameResults DEF OutputResults
  <2>5. OutputInv'
    BY <2>0 DEF OutputInv
  <2> QED
    BY <2>3, <2>4, <2>5
<1>4. CASE GetFails \/ Close \/ CloseFails
  <2>1. Types'
    <3>1. CASE GetFails
      BY <3>1, SameTypes DEF GetFails, Types
    <3>2. CASE Close
      <4>1. file' \in Seq(OutputRow) /\ buffer' \in Seq(OutputRow)
        BY <3>2 DEF Close, Types
      <4>2. main' = "disposed" /\ UNCHANGED <<prune, batch, next, task, query>>
        BY <3>2 DEF Close
      <4> QED
        BY <4>1, <4>2 DEF Types
    <3>3. CASE CloseFails
      <4>1. buffer \o << >> = buffer /\ buffer \in Seq(OutputRow) /\ file \in Seq(OutputRow)
        BY ConcatEmptySeq DEF Types
      <4>2. PICK k \in 0..Len(buffer) :
                file' = file \o SubSeq(buffer, 1, k) /\ buffer' = SubSeq(buffer, k + 1, Len(buffer))
        BY <3>3, <4>1 DEF CloseFails, Write
      <4>3. /\ SubSeq(buffer, 1, k) \in Seq(OutputRow)
            /\ SubSeq(buffer, k + 1, Len(buffer)) \in Seq(OutputRow)
        BY <4>1, <4>2
      <4>4. main' = "exit" /\ UNCHANGED <<prune, batch, next, task, query>>
        BY <3>3 DEF CloseFails
      <4> QED
        BY <4>1, <4>2, <4>3, <4>4 DEF Types
    <3> QED
      BY <1>4, <3>1, <3>2, <3>3
  <2>2. ResultInv'
    BY <1>4, SameResults DEF GetFails, Close, CloseFails
  <2>3. OutputInv'
    BY <1>4 DEF GetFails, Close, CloseFails, OutputInv
  <2> QED
    BY <2>1, <2>2, <2>3
<1> QED
  BY <1>1, <1>2, <1>3, <1>4 DEF MainStep

LEMMA PoolIInv == ASSUME IInv, PoolStep PROVE IInv'
<1> USE DEF IInv, query
<1>1. PICK i \in Line : StartQuery(i) \/ Answer(i) \/ QueryFails(i)
  BY DEF PoolStep, Started, Ended
<1>2. task[i] \in {"queued", "running"} /\ result[i] = << >> /\ found[i] \in Nat
  BY <1>1, Numbers DEF StartQuery, Answer, QueryFails, ResultInv, Types
<1>3. CASE StartQuery(i) \/ QueryFails(i)
  <2>1. Types'
    BY <1>3, SameTypes DEF StartQuery, QueryFails, SetTask, Types
  <2>2. ResultInv'
    BY <1>2, <1>3 DEF StartQuery, QueryFails, SetTask, ResultInv, Types
  <2>3. OutputInv'
    <3>1. UNCHANGED <<batch, main, next, buffer, file>>
      BY <1>3 DEF StartQuery, QueryFails
    <3>2. \A j \in Line : task[j] = "unread" => task'[j] = "unread"
      BY <1>2, <1>3 DEF StartQuery, QueryFails, SetTask, Types
    <3> QED
      BY <3>1, <3>2, Numbers DEF OutputInv, LastLine, Types
  <2> QED
    BY <2>1, <2>2, <2>3
<1>4. CASE Answer(i)
  <2>1. PICK hits \in Hits :
            /\ found' = [found EXCEPT ![i] = Len(hits)]
            /\ result' = [result EXCEPT ![i] =
                  Rows(i, enforceUnique[i], QueryIndex(hits, MaxResults, prune))]
    BY <1>4 DEF Answer
  <2>2. Len(hits) \in 0..MaxHits
    BY HitsType
  <2>3. Types'
    <3>1. /\ task' \in [Line -> {"unread", "queued", "running", "done", "failed"}]
          /\ found' \in [Line -> 0..MaxHits] /\ DOMAIN result' = Line
      BY <1>4, <2>1, <2>2 DEF Answer, SetTask, Types
    <3>2. UNCHANGED <<prune, batch, main, next, enforceUnique, buffer, file>>
      BY <1>4 DEF Answer
    <3> QED
      BY <3>1, <3>2 DEF Types
  <2>4. GoodRows(i, result'[i], enforceUnique'[i], found'[i])
    BY <1>4, <2>1, RowsGood DEF Answer, Types
  <2>5. ResultInv'
    BY <1>4, <2>1, <2>4 DEF Answer, SetTask, ResultInv, Types
  <2>6. OutputInv'
    <3>1. UNCHANGED <<batch, main, next, buffer, file>>
      BY <1>4 DEF Answer
    <3>2. \A j \in Line : task[j] = "unread" => task'[j] = "unread"
      BY <1>2, <1>4 DEF Answer, SetTask, Types
    <3> QED
      BY <3>1, <3>2, Numbers DEF OutputInv, LastLine, Types
  <2> QED
    BY <2>3, <2>5, <2>6
<1> QED
  BY <1>1, <1>3, <1>4

LEMMA Inductive == Spec => []IInv
<1>1. IInv /\ UNCHANGED vars => IInv'
  BY DEF IInv, vars, query, Types, ResultInv, OutputInv, LastLine
<1>2. IInv /\ [Next]_vars => IInv'
  BY <1>1, MainIInv, PoolIInv DEF Next
<1> QED
  BY InitIInv, <1>2, PTL DEF Spec

(* Every variable of the program has its type, and only a query that was     *)
(* made has rows.                                                           *)
THEOREM TypeCorrect == Spec => []TypeOK
<1>1. ASSUME IInv PROVE TypeOK
  <2>1. Types
    BY <1>1 DEF IInv
  <2>2. ASSUME NEW i \in Line
        PROVE  /\ \A k \in DOMAIN result[i] : result[i][k] \in Line \X (0..MaxHits)
               /\ task[i] # "done" => result[i] = << >>
    <3>1. result[i] \in Seq(OutputRow)
      BY <1>1, GoodRowsType DEF IInv, ResultInv, Types
    <3> QED
      BY <1>1, <3>1 DEF IInv, ResultInv, OutputRow
  <2>3. \A s \in {buffer, file} : \A k \in DOMAIN s : s[k] \in Line \X (0..MaxHits)
    BY <2>1 DEF Types, OutputRow
  <2> QED
    BY <2>1, <2>2, <2>3 DEF Types, TypeOK
<1> QED
  BY <1>1, Inductive, PTL

(* Whatever hits the queries of the lines have, their rows are the best of   *)
(* them in their order, no more than the service allows and at most one with *)
(* enforceUnique.                                                           *)
THEOREM RowsBest == Spec => []RowsAreBest
<1>1. ASSUME IInv PROVE RowsAreBest
  <2>1. SUFFICES ASSUME NEW i \in Line
                 PROVE  /\ Len(result[i]) <= MaxResults
                        /\ enforceUnique[i] => Len(result[i]) <= 1
                        /\ result[i] # <<Row(i, 0)>> =>
                              \A k \in DOMAIN result[i] :
                                  result[i][k] = Row(i, k) /\ k <= found[i]
    BY DEF RowsAreBest
  <2>2. GoodRows(i, result[i], enforceUnique[i], found[i]) /\ found[i] \in Nat
    BY <1>1, Numbers DEF IInv, ResultInv, Types
  <2>3. CASE result[i] = <<Row(i, 0)>>
    BY <2>3, Numbers
  <2>4. ASSUME NEW n \in 0..MaxResults, result[i] = Best(i, n), n < found[i] \/ n = 0,
               enforceUnique[i] => n <= 1
        PROVE  /\ Len(result[i]) <= MaxResults
               /\ enforceUnique[i] => Len(result[i]) <= 1
               /\ \A k \in DOMAIN result[i] : result[i][k] = Row(i, k) /\ k <= found[i]
    <3>1. n \in Nat /\ Len(result[i]) = n /\ DOMAIN result[i] = 1..n
      BY <2>4, Numbers DEF Best
    <3> QED
      BY <2>2, <2>4, <3>1, Numbers DEF Best
  <2> QED
    BY <2>2, <2>3, <2>4 DEF GoodRows
<1> QED
  BY <1>1, Inductive, PTL

OnlyHitIsLost == \A i \in Line : found[i] = 1 => result[i] = << >>

(* A search with a single hit never has a result: OnlyHitIsFound fails not   *)
(* for some scores and settings but whenever there is such a search.         *)
THEOREM OnlyHitNeverFound == Spec => []OnlyHitIsLost
<1>1. ASSUME IInv PROVE OnlyHitIsLost
  <2>0. SUFFICES ASSUME NEW i \in Line, found[i] = 1 PROVE result[i] = << >>
    BY DEF OnlyHitIsLost
  <2>1. GoodRows(i, result[i], enforceUnique[i], 1)
    BY <1>1, <2>0 DEF IInv, ResultInv
  <2>2. PICK n \in 0..MaxResults : result[i] = Best(i, n) /\ (n < 1 \/ n = 0)
    BY <2>1, Numbers DEF GoodRows
  <2>3. n = 0
    BY <2>2, Numbers
  <2> QED
    BY <2>2, <2>3 DEF Best
<1> QED
  BY <1>1, Inductive, PTL

-----------------------------------------------------------------------------
(* The sequential client *)

(* A line's rows are rows that SequentialClient may write for it.            *)
LEMMA RowsAllowed ==
    ASSUME NEW i, NEW rows, NEW unique, NEW hitCount, GoodRows(i, rows, unique, hitCount)
    PROVE  rows \in Sequential!RowsOf(i)
BY DEF GoodRows, Best, Row, Sequential!RowsOf

(* Flushing the first of all rows and keeping the others loses none.         *)
LEMMA Flushed ==
    ASSUME NEW S, NEW old \in Seq(S), NEW all \in Seq(S), NEW k \in 0..Len(all)
    PROVE  /\ (old \o SubSeq(all, 1, k)) \o SubSeq(all, k + 1, Len(all)) = old \o all
           /\ Len(old \o SubSeq(all, 1, k)) = Len(old) + k
<1>1. k \in Nat /\ Len(all) \in Nat /\ Len(old) \in Nat
  OBVIOUS
<1>2. SubSeq(all, 1, k) \in Seq(S) /\ Len(SubSeq(all, 1, k)) = k
  OBVIOUS
<1>3. SubSeq(all, k + 1, Len(all)) \in Seq(S) /\ Len(SubSeq(all, k + 1, Len(all))) = Len(all) - k
  OBVIOUS
<1>4. SubSeq(all, 1, k) \o SubSeq(all, k + 1, Len(all)) = all
  <2>1. 1 \in 1..Len(all) + 1 /\ k \in 1 - 1..Len(all) /\ Len(all) \in k..Len(all)
    BY <1>1
  <2>2. SubSeq(all, 1, k) \o SubSeq(all, k + 1, Len(all)) = SubSeq(all, 1, Len(all))
    BY <2>1, ConcatAdjacentSubSeq
  <2> QED
    BY <2>2, SubSeqFull
<1>5. (old \o SubSeq(all, 1, k)) \o SubSeq(all, k + 1, Len(all))
        = old \o (SubSeq(all, 1, k) \o SubSeq(all, k + 1, Len(all)))
  <2> DEFINE head == SubSeq(all, 1, k)
             tail == SubSeq(all, k + 1, Len(all))
  <2>1. head \in Seq(S) /\ tail \in Seq(S)
    BY <1>2, <1>3
  <2> HIDE DEF head, tail
  <2>2. (old \o head) \o tail = old \o (head \o tail)
    BY <2>1, ConcatAssociative
  <2> QED
    BY <2>2 DEF head, tail
<1>6. Len(old \o SubSeq(all, 1, k)) = Len(old) + Len(SubSeq(all, 1, k))
  BY <1>2, ConcatProperties
<1> QED
  BY <1>2, <1>4, <1>5, <1>6

Output == file \o buffer

(* Getting a result appends the rows of its line to the output.              *)
LEMMA GotRows ==
    ASSUME IInv, OutputResults
    PROVE  /\ next \in Line /\ next <= LastLine
           /\ GoodRows(next, result[next], enforceUnique[next], found[next])
           /\ found[next] \in 0..MaxHits
           /\ result[next] \in Seq(OutputRow) /\ Output \in Seq(OutputRow)
           /\ Output' = Output \o result[next]
           /\ Len(file') \in Len(file)..(Len(Output) + Len(result[next]))
<1> USE DEF Output
<1> DEFINE r == result[next]
           all == buffer \o r
<1>1. next <= LastLine /\ next \in Line
  BY Numbers DEF OutputResults, IInv, Types, LastLine
<1>2. GoodRows(next, r, enforceUnique[next], found[next]) /\ found[next] \in 0..MaxHits
  BY <1>1 DEF IInv, Types, ResultInv
<1>3. r \in Seq(OutputRow)
  BY <1>1, <1>2, GoodRowsType
<1>4. file \in Seq(OutputRow) /\ buffer \in Seq(OutputRow)
  BY DEF IInv, Types
<1>5. PICK k \in 0..Len(all) :
          file' = file \o SubSeq(all, 1, k) /\ buffer' = SubSeq(all, k + 1, Len(all))
  BY DEF OutputResults, Write
<1> HIDE DEF r
<1>6. all \in Seq(OutputRow) /\ Len(all) = Len(buffer) + Len(r)
  BY <1>3, <1>4, ConcatProperties
<1>7. file \o all = (file \o buffer) \o r
  BY <1>3, <1>4, ConcatAssociative
<1>8. file \o buffer \in Seq(OutputRow) /\ Len(file \o buffer) = Len(file) + Len(buffer)
  BY <1>4, ConcatProperties
<1> HIDE DEF all
<1>9. file' \o buffer' = file \o all /\ Len(file') = Len(file) + k
  BY <1>4, <1>5, <1>6, Flushed
<1>10. Len(file') \in Len(file)..(Len(file \o buffer) + Len(r))
  BY <1>3, <1>4, <1>5, <1>6, <1>8, <1>9
<1> QED
  BY <1>1, <1>2, <1>3, <1>7, <1>8, <1>9, <1>10 DEF r

(* A writer that cannot be closed leaves some of its rows behind.            *)
LEMMA LeftRows ==
    ASSUME IInv, CloseFails
    PROVE  file' \o buffer' = file \o buffer /\ Len(file') \in Len(file)..Len(file \o buffer)
<1>1. file \in Seq(OutputRow) /\ buffer \in Seq(OutputRow)
  BY DEF IInv, Types
<1>2. buffer \o << >> = buffer
  BY <1>1, ConcatEmptySeq
<1>3. PICK k \in 0..Len(buffer) :
          file' = file \o SubSeq(buffer, 1, k) /\ buffer' = SubSeq(buffer, k + 1, Len(buffer))
  BY <1>2 DEF CloseFails, Write
<1>4. file' \o buffer' = file \o buffer /\ Len(file') = Len(file) + k
  BY <1>1, <1>3, Flushed
<1>5. Len(file \o buffer) = Len(file) + Len(buffer) /\ Len(file) \in Nat /\ Len(buffer) \in Nat
  BY <1>1, ConcatProperties
<1>6. Len(file') \in Len(file)..Len(file \o buffer)
  <2> DEFINE a == Len(file)
             b == Len(buffer)
             whole == Len(file \o buffer)
             now == Len(file')
  <2>1. a \in Nat /\ b \in Nat /\ whole = a + b /\ k \in 0..b /\ now = a + k
    BY <1>3, <1>4, <1>5
  <2> HIDE DEF a, b, whole, now
  <2>2. now \in a..whole
    BY <2>1
  <2> QED
    BY <2>2 DEF a, whole, now
<1> QED
  BY <1>4, <1>6

(* A step of the main thread is a step of the sequential client, or none.    *)
LEMMA MainRefines ==
    ASSUME IInv, MainStep
    PROVE  [Sequential!Next]_(Sequential!vars)
<1> USE DEF query
<1>1. CASE Submit
  <2>1. main = "read" /\ main' = "read" /\ UNCHANGED <<batch, buffer, file>>
    BY <1>1 DEF Submit
  <2> QED
    BY <2>1 DEF Sequential!vars, LastLine
<1>2. CASE AllRead
  <2>1. main = "read" /\ main' = "get" /\ next' = 1 /\ UNCHANGED <<batch, buffer, file>>
    BY <1>2 DEF AllRead
  <2> QED
    BY <2>1 DEF Sequential!vars, LastLine
<1>3. CASE Unreadable \/ GetFails
  <2>1. /\ main \in {"read", "get"} /\ main' = "exit" /\ UNCHANGED <<batch, buffer, file>>
        /\ next' = IF main = "read" THEN 1 ELSE next
    BY <1>3 DEF Unreadable, GetFails
  <2>2. Len(file) \in Len(file)..Len(file \o buffer)
    <3>1. file \in Seq(OutputRow) /\ buffer \in Seq(OutputRow)
      BY DEF IInv, Types
    <3>2. /\ Len(file \o buffer) = Len(file) + Len(buffer)
          /\ Len(file) \in Nat /\ Len(buffer) \in Nat
      BY <3>1, ConcatProperties
    <3> QED
      BY <3>2
  <2>3. Sequential!GiveUp
    BY <2>1, <2>2 DEF Sequential!GiveUp, LastLine
  <2> QED
    BY <2>3 DEF Sequential!Next
<1>4. CASE GetResult \/ WriteFails
  <2>1. /\ OutputResults /\ main = "get" /\ main' \in {"get", "exit"}
        /\ next' = next + 1 /\ UNCHANGED batch
    BY <1>4 DEF GetResult, WriteFails, OutputResults
  <2>2. result[next] \in Sequential!RowsOf(next)
    BY <2>1, GotRows, RowsAllowed
  <2>3. Sequential!Query
    BY <2>1, <2>2, GotRows DEF Sequential!Query, LastLine, Output
  <2> QED
    BY <2>3 DEF Sequential!Next
<1>5. CASE Close
  <2>1. /\ main = "get" /\ next > LastLine /\ main' = "disposed"
        /\ file' = file \o buffer /\ buffer' = << >> /\ UNCHANGED <<batch, next>>
    BY <1>5 DEF Close
  <2>2. file \o buffer \in Seq(OutputRow)
    BY ConcatProperties DEF IInv, Types
  <2>3. file' \o buffer' = file \o buffer
    BY <2>1, <2>2, ConcatEmptySeq
  <2>4. Sequential!Finish
    BY <2>1, <2>3 DEF Sequential!Finish, LastLine
  <2> QED
    BY <2>4 DEF Sequential!Next
<1>6. CASE CloseFails
  <2>1. main = "get" /\ main' = "exit" /\ UNCHANGED <<batch, next>>
    BY <1>6 DEF CloseFails
  <2>2. Sequential!GiveUp
    BY <1>6, <2>1, LeftRows DEF Sequential!GiveUp, LastLine
  <2> QED
    BY <2>2 DEF Sequential!Next
<1> QED
  BY <1>1, <1>2, <1>3, <1>4, <1>5, <1>6 DEF MainStep

(* For every number of lines, threads, results and hits, however the threads *)
(* of the pool interleave, and whatever queries and writer fail at: the      *)
(* program behaves as one that makes one query after the other, in the order *)
(* of the lines, which its help does not promise.                            *)
THEOREM SequentialImplemented == Spec => ImplementsSequential
<1>1. Init => Sequential!Init
  <2> SUFFICES ASSUME Init PROVE Sequential!Init
    OBVIOUS
  <2>1. file \o buffer = << >> /\ Len(file) = 0
    BY ConcatEmptySeq DEF Init
  <2> QED
    BY <2>1 DEF Init, Sequential!Init, LastLine
<1>2. IInv /\ [Next]_vars => [Sequential!Next]_(Sequential!vars)
  <2>1. ASSUME PoolStep PROVE UNCHANGED Sequential!vars
    <3>1. UNCHANGED <<batch, main, next, buffer, file>>
      BY <2>1 DEF PoolStep, Started, Ended, StartQuery, Answer, QueryFails
    <3> QED
      BY <3>1 DEF Sequential!vars, LastLine
  <2>2. ASSUME UNCHANGED vars PROVE UNCHANGED Sequential!vars
    BY <2>2 DEF vars, Sequential!vars, LastLine
  <2> QED
    BY <2>1, <2>2, MainRefines DEF Next
<1> QED
  BY <1>1, <1>2, Inductive, PTL DEF Spec, ImplementsSequential, Sequential!Spec

-----------------------------------------------------------------------------
(***************************************************************************)
(* What this means for the file: the rows written so far are those of the  *)
(* lines so far, and in the order of lines and hits, which is strict, so   *)
(* that no row is written twice.                                           *)
(***************************************************************************)
Precedes(a, b) == a[1] < b[1] \/ (a[1] = b[1] /\ a[2] < b[2])

InOrder(rows) == \A i, j \in DOMAIN rows : i < j => Precedes(rows[i], rows[j])

Contains(rows, row) == \E n \in DOMAIN rows : rows[n] = row

(* What is written is in order and, before the results are fetched, empty.   *)
OrderInv == InOrder(Output) /\ \A n \in DOMAIN Output : main # "read" /\ Output[n][1] < next

(* The rows of the lines whose results were fetched are written, and nothing *)
(* stays in the writer that was closed.                                     *)
WrittenInv ==
    /\ main \in {"get", "disposed"} =>
           \A i \in 1..next - 1 :
               /\ task[i] = "done"
               /\ \A k \in DOMAIN result[i] : Contains(Output, result[i][k])
    /\ main = "disposed" => buffer = << >> /\ next > LastLine

FileInOrder == InOrder(file)

FileComplete ==
    main = "disposed" =>
        \A i \in 1..LastLine : \A k \in DOMAIN result[i] : Contains(file, result[i][k])

LEMMA RowsInOrder ==
    ASSUME NEW i \in Line, NEW rows, NEW unique, NEW hitCount \in Nat,
           GoodRows(i, rows, unique, hitCount)
    PROVE  InOrder(rows) /\ \A k \in DOMAIN rows : rows[k][1] = i
<1>1. CASE rows = <<Row(i, 0)>>
  BY <1>1 DEF InOrder, Row
<1>2. ASSUME NEW n \in 0..MaxResults, rows = Best(i, n)
      PROVE  InOrder(rows) /\ \A k \in DOMAIN rows : rows[k][1] = i
  <2>1. DOMAIN rows = 1..n /\ n \in Nat /\ \A k \in 1..n : rows[k][1] = i /\ rows[k][2] = k
    BY <1>2, Numbers DEF Best, Row
  <2> QED
    BY <2>1 DEF InOrder, Precedes
<1> QED
  BY <1>1, <1>2 DEF GoodRows

(* Rows of a line appended to those of earlier lines *)
LEMMA Appended ==
    ASSUME NEW old \in Seq(OutputRow), NEW rows \in Seq(OutputRow), NEW i \in Line,
           InOrder(old), \A n \in DOMAIN old : old[n][1] < i,
           InOrder(rows), \A k \in DOMAIN rows : rows[k][1] = i
    PROVE  /\ InOrder(old \o rows)
           /\ \A n \in DOMAIN (old \o rows) : (old \o rows)[n][1] < i + 1
           /\ \A row : Contains(old, row) \/ Contains(rows, row) => Contains(old \o rows, row)
<1> DEFINE all == old \o rows
           m == Len(old)
<1>1. m \in Nat /\ Len(rows) \in Nat /\ DOMAIN old = 1..m /\ DOMAIN rows = 1..Len(rows)
  OBVIOUS
<1>2. /\ all \in Seq(OutputRow) /\ DOMAIN all = 1..m + Len(rows)
      /\ \A n \in 1..m + Len(rows) : all[n] = IF n <= m THEN old[n] ELSE rows[n - m]
  BY ConcatProperties
<1> HIDE DEF all, m
<1>3. \A n \in 1..m : all[n] = old[n] /\ all[n][1] < i
  BY <1>1, <1>2
<1>4. \A n \in m + 1..m + Len(rows) :
          n - m \in 1..Len(rows) /\ all[n] = rows[n - m] /\ all[n][1] = i
  <2> SUFFICES ASSUME NEW n \in m + 1..m + Len(rows)
               PROVE  n - m \in 1..Len(rows) /\ all[n] = rows[n - m] /\ all[n][1] = i
    OBVIOUS
  <2>1. n \in 1..m + Len(rows) /\ ~(n <= m) /\ n - m \in 1..Len(rows)
    BY <1>1
  <2>2. all[n] = rows[n - m]
    BY <1>2, <2>1
  <2>3. rows[n - m][1] = i
    BY <1>1, <2>1
  <2> QED
    BY <2>1, <2>2, <2>3
<1>5. InOrder(all)
  <2> SUFFICES ASSUME NEW a \in 1..m + Len(rows), NEW b \in 1..m + Len(rows), a < b
               PROVE  Precedes(all[a], all[b])
    BY <1>2 DEF InOrder
  <2>1. CASE b <= m
    <3>1. a \in 1..m /\ b \in 1..m
      BY <1>1, <2>1
    <3> QED
      BY <1>1, <1>3, <3>1 DEF InOrder
  <2>2. CASE a <= m /\ b > m
    <3>1. a \in 1..m /\ b \in m + 1..m + Len(rows)
      BY <1>1, <2>2
    <3> QED
      BY <1>3, <1>4, <3>1 DEF Precedes
  <2>3. CASE a > m
    <3>1. a \in m + 1..m + Len(rows) /\ b \in m + 1..m + Len(rows) /\ a - m < b - m
      BY <1>1, <2>3
    <3>2. Precedes(rows[a - m], rows[b - m])
      BY <1>1, <1>4, <3>1 DEF InOrder
    <3> QED
      BY <1>4, <3>1, <3>2
  <2> QED
    BY <1>1, <2>1, <2>2, <2>3
<1>6. \A n \in 1..m + Len(rows) : all[n][1] < i + 1
  <2> SUFFICES ASSUME NEW n \in 1..m + Len(rows) PROVE all[n][1] < i + 1
    OBVIOUS
  <2>1. all[n] \in OutputRow
    <3>1. Len(all) = m + Len(rows)
      BY <1>1, <1>2
    <3>2. n \in 1..Len(all)
      BY <3>1
    <3> QED
      BY <1>2, <3>2, ElementOfSeq
  <2>2. all[n][1] \in Nat /\ i \in Nat
    BY <2>1, Numbers DEF OutputRow
  <2>3. n \in 1..m \/ n \in m + 1..m + Len(rows)
    BY <1>1
  <2> QED
    BY <1>3, <1>4, <2>2, <2>3
<1>7. ASSUME NEW row, Contains(old, row) \/ Contains(rows, row) PROVE Contains(all, row)
  <2>1. CASE Contains(old, row)
    <3>1. PICK n \in 1..m : old[n] = row
      BY <1>1, <2>1 DEF Contains
    <3>2. n \in 1..m + Len(rows)
      BY <1>1
    <3> QED
      BY <1>2, <1>3, <3>1, <3>2 DEF Contains
  <2>2. CASE Contains(rows, row)
    <3>1. PICK k \in 1..Len(rows) : rows[k] = row
      BY <1>1, <2>2 DEF Contains
    <3>2. ASSUME NEW n \in Int, n = m + k PROVE Contains(all, row)
      <4>1. n \in m + 1..m + Len(rows) /\ n \in 1..m + Len(rows) /\ n - m = k
        BY <1>1, <3>2
      <4>2. all[n] = rows[k]
        BY <1>4, <4>1
      <4> QED
        BY <1>2, <3>1, <4>1, <4>2 DEF Contains
    <3>3. m + k \in Int
      BY <1>1
    <3> QED
      BY <3>2, <3>3
  <2> QED
    BY <1>7, <2>1, <2>2
<1> QED
  BY <1>2, <1>5, <1>6, <1>7 DEF all

LEMMA InitFile == Init => OrderInv /\ WrittenInv
<1> SUFFICES ASSUME Init PROVE OrderInv /\ WrittenInv
  OBVIOUS
<1>1. Output = << >>
  BY DEF Init, Output
<1>2. DOMAIN Output = {}
  BY <1>1
<1> QED
  BY <1>2 DEF Init, OrderInv, InOrder, WrittenInv

LEMMA MainFile == ASSUME IInv, OrderInv, WrittenInv, MainStep PROVE OrderInv' /\ WrittenInv'
<1> USE DEF query
<1>1. CASE Submit \/ Unreadable \/ AllRead
  <2>1. main = "read" /\ Output' = Output /\ next' \in {1, next + 1}
        /\ main' \in {"read", "get", "exit"} /\ (main' = "get" => next' = 1)
    BY <1>1 DEF Submit, Unreadable, AllRead, Output
  <2>2. DOMAIN Output = {}
    BY <2>1 DEF OrderInv
  <2>3. OrderInv'
    BY <2>1, <2>2 DEF OrderInv, InOrder
  <2>4. WrittenInv'
    <3>1. main' = "get" => 1..next' - 1 = {}
      BY <2>1
    <3>2. main' # "disposed"
      BY <2>1
    <3> QED
      BY <3>1, <3>2 DEF WrittenInv
  <2> QED
    BY <2>3, <2>4
<1>2. CASE GetResult \/ WriteFails
  <2> DEFINE r == result[next]
  <2>0. OutputResults /\ main = "get" /\ main' \in {"get", "exit"}
    BY <1>2 DEF GetResult, WriteFails, OutputResults
  <2>1. /\ main = "get" /\ main' \in {"get", "exit"} /\ next \in Line /\ next' = next + 1
        /\ UNCHANGED <<task, result>> /\ task[next] = "done"
        /\ r \in Seq(OutputRow) /\ Output \in Seq(OutputRow) /\ Output' = Output \o r
    BY <2>0, GotRows DEF OutputResults
  <2>2. InOrder(r) /\ \A k \in DOMAIN r : r[k][1] = next
    BY <2>0, GotRows, RowsInOrder, Numbers
  <2> HIDE DEF r
  <2>3. /\ InOrder(Output')
        /\ \A n \in DOMAIN Output' : Output'[n][1] < next + 1
        /\ \A row : Contains(Output, row) \/ Contains(r, row) => Contains(Output', row)
    BY <2>1, <2>2, Appended DEF OrderInv
  <2>4. OrderInv'
    BY <2>1, <2>3 DEF OrderInv
  <2>5. ASSUME NEW i \in 1..next
        PROVE  task[i] = "done" /\ \A k \in DOMAIN result[i] : Contains(Output', result[i][k])
    <3>1. CASE i = next
      BY <2>1, <2>3, <3>1 DEF Contains, r
    <3>2. CASE i # next
      <4>1. i \in 1..next - 1
        BY <2>1, <3>2, Numbers
      <4> QED
        BY <2>1, <2>3, <4>1 DEF WrittenInv
    <3> QED
      BY <3>1, <3>2
  <2>6. next' - 1 = next
    BY <2>1, Numbers
  <2> QED
    BY <2>1, <2>4, <2>5, <2>6 DEF WrittenInv
<1>3. CASE GetFails
  <2>1. main = "get" /\ main' = "exit" /\ next' = next /\ Output' = Output
    BY <1>3 DEF GetFails, Output
  <2> QED
    BY <2>1 DEF OrderInv, WrittenInv
<1>4. CASE Close
  <2>1. /\ main = "get" /\ next > LastLine /\ main' = "disposed" /\ buffer' = << >>
        /\ file' = Output /\ UNCHANGED <<batch, next, task, result>>
    BY <1>4 DEF Close, Output
  <2>2. Output \in Seq(OutputRow)
    BY ConcatProperties DEF IInv, Types, Output
  <2>3. Output' = Output
    BY <2>1, <2>2, ConcatEmptySeq DEF Output
  <2> QED
    BY <2>1, <2>3 DEF OrderInv, WrittenInv, LastLine
<1>5. CASE CloseFails
  <2>1. main = "get" /\ main' = "exit" /\ next' = next /\ Output' = Output
    BY <1>5, LeftRows DEF CloseFails, Output
  <2> QED
    BY <2>1 DEF OrderInv, WrittenInv
<1> QED
  BY <1>1, <1>2, <1>3, <1>4, <1>5 DEF MainStep

LEMMA PoolFile == ASSUME IInv, OrderInv, WrittenInv, PoolStep PROVE OrderInv' /\ WrittenInv'
<1>1. PICK j \in Line : StartQuery(j) \/ Answer(j) \/ QueryFails(j)
  BY DEF PoolStep, Started, Ended
<1>2. UNCHANGED <<batch, main, next, file, buffer>> /\ task[j] \in {"queued", "running"}
  BY <1>1 DEF StartQuery, Answer, QueryFails
<1>3. \A i \in Line \ {j} : task'[i] = task[i] /\ result'[i] = result[i]
  BY <1>1 DEF StartQuery, Answer, QueryFails, SetTask, query, IInv, Types
<1>4. OrderInv'
  BY <1>2 DEF OrderInv, Output
<1>5. ASSUME main \in {"get", "disposed"}, NEW i \in 1..next - 1 PROVE i \in Line \ {j}
  BY <1>2, <1>5, Numbers DEF WrittenInv, IInv, Types
<1>6. WrittenInv'
  BY <1>2, <1>3, <1>5 DEF WrittenInv, Output, LastLine
<1> QED
  BY <1>4, <1>6

(* Whenever the program is stopped, the file has the rows in the order of    *)
(* the lines and none twice; and a program that closes its writer has        *)
(* written all results of every line.                                       *)
THEOREM FileRight == Spec => [](FileInOrder /\ FileComplete)
<1>1. IInv /\ OrderInv /\ WrittenInv /\ [Next]_vars => OrderInv' /\ WrittenInv'
  <2>1. ASSUME OrderInv, WrittenInv, UNCHANGED vars PROVE OrderInv' /\ WrittenInv'
    BY <2>1 DEF vars, query, OrderInv, WrittenInv, Output, LastLine
  <2> QED
    BY <2>1, MainFile, PoolFile DEF Next
<1>2. IInv /\ OrderInv /\ WrittenInv => FileInOrder /\ FileComplete
  <2> SUFFICES ASSUME IInv, OrderInv, WrittenInv PROVE FileInOrder /\ FileComplete
    OBVIOUS
  <2>1. file \in Seq(OutputRow) /\ buffer \in Seq(OutputRow)
    BY DEF IInv, Types
  <2>2. /\ Len(file) \in Nat /\ Len(buffer) \in Nat /\ DOMAIN file = 1..Len(file)
        /\ DOMAIN Output = 1..Len(file) + Len(buffer)
        /\ \A n \in 1..Len(file) : Output[n] = file[n] /\ n \in DOMAIN Output
    BY <2>1, ConcatProperties DEF Output
  <2>3. FileInOrder
    BY <2>2 DEF OrderInv, InOrder, FileInOrder
  <2>4. ASSUME main = "disposed" PROVE Output = file /\ 1..LastLine \subseteq 1..next - 1
    BY <2>1, <2>4, ConcatEmptySeq, Numbers DEF WrittenInv, Output, IInv, Types
  <2> QED
    BY <2>3, <2>4 DEF WrittenInv, FileComplete
<1> QED
  BY <1>1, <1>2, InitFile, Inductive, PTL DEF Spec

=============================================================================
