---------------------------- MODULE BatchClient ----------------------------
(***************************************************************************)
(* The command line client of bev-search: BevRestClient.query() reads the  *)
(* lines of a file, has BevQueryExecutor query the service for each with a *)
(* fixed pool of threads, and writes the results in the order of the       *)
(* lines.  Without a batch file it makes a single query.  The service      *)
(* answers with what Finder makes of the hits, or not at all.              *)
(*                                                                         *)
(* The CSV writer has a buffer, and System.exit() ends the program without *)
(* the finally block that would close the writer.                          *)
(***************************************************************************)
EXTENDS Finder, FiniteSets

CONSTANTS
    Lines,          \* number of lines of the batch file
    Threads,        \* threads of the pool (-t)
    MaxResults,     \* the service: at.itbh.bev.results.max
    PruneSettings,  \* the service: at.itbh.bev.results.prune, cases considered
    Scores,         \* scores of hits
    MaxHits         \* bound: hits of a search

ASSUME BatchAssumption ==
    /\ {Lines, Threads, MaxResults} \subseteq Nat \ {0}
    /\ PruneSettings \subseteq BOOLEAN
    /\ Scores \subseteq Nat \ {0}
    /\ MaxHits \in Nat

VARIABLES
    prune,          \* the service's setting
    batch,          \* whether there is a batch file
    main,           \* where query() stands
    next,           \* the next line to be read, then to be written
    task,           \* the future of each line
    enforceUnique,  \* the column enforceUnique of each line, or -u
    found,          \* hits of each line's search
    result,         \* value of each future
    buffer, file    \* rows in the CSV writer, rows in the file

query == <<enforceUnique, found, result>>
vars == <<prune, batch, main, next, task, query, buffer, file>>

Line == 1..Lines

Hits == {s \in UNION {[1..n -> Scores] : n \in 0..MaxHits} :
            \A i, j \in DOMAIN s : i < j => s[i] >= s[j]}

(* The row of a hit; hit 0 is "no match found". *)
Row(i, h) == <<i, h>>

Init ==
    /\ prune \in PruneSettings
    /\ batch \in BOOLEAN
    /\ main = "read"
    /\ next = 1
    /\ task = [i \in Line |-> "unread"]
    /\ enforceUnique = [i \in Line |-> FALSE]
    /\ found = [i \in Line |-> 0]
    /\ result = [i \in Line |-> << >>]
    /\ buffer = << >>
    /\ file = << >>

LastLine == IF batch THEN Lines ELSE 1

SetTask(i, s) == task' = [task EXCEPT ![i] = s]

-----------------------------------------------------------------------------
(* The main thread *)

(* Mutant of Submit: it goes on after the last line. *)
SubmitPastEnd ==
    /\ main = "read"
    /\ SetTask(next, "queued")
    /\ next' = next + 1
    /\ UNCHANGED <<prune, batch, main, query, buffer, file>>

(* A line, or the command line, is made a query of the executor. *)
Submit ==
    /\ main = "read"
    /\ next <= LastLine
    /\ SetTask(next, "queued")
    /\ \E u \in BOOLEAN : enforceUnique' = [enforceUnique EXCEPT ![next] = u]
    /\ next' = next + 1
    /\ UNCHANGED <<prune, batch, main, found, result, buffer, file>>

(* A line cannot be read, or the header written: an exception, and          *)
(* System.exit()                                                            *)
Unreadable ==
    /\ main = "read"
    /\ batch
    /\ main' = "exit"
    /\ next' = 1
    /\ UNCHANGED <<prune, batch, task, query, buffer, file>>

AllRead ==
    /\ main = "read"
    /\ next > LastLine
    /\ main' = "get"
    /\ next' = 1
    /\ UNCHANGED <<prune, batch, task, query, buffer, file>>

(* The writer flushes what fits its buffer no longer, and keeps the rest. *)
Write(rows) ==
    LET all == buffer \o rows IN
    \E k \in 0..Len(all) :
        /\ file' = file \o SubSeq(all, 1, k)
        /\ buffer' = SubSeq(all, k + 1, Len(all))

(* A single query that is to be unique and is not makes an exception. *)
NotUnique == ~batch /\ enforceUnique[1] /\ result[1] = <<Row(1, 0)>>

(* Mutant of GetResult: whichever query is done is written. *)
GetAnyResult ==
    /\ main = "get"
    /\ \E i \in next..LastLine : task[i] = "done" /\ Write(result[i])
    /\ next' = next + 1
    /\ UNCHANGED <<prune, batch, main, task, query>>

(* outputResults() of the line whose turn it is *)
OutputResults ==
    /\ main = "get"
    /\ next <= LastLine
    /\ task[next] = "done"
    /\ ~NotUnique
    /\ Write(result[next])
    /\ next' = next + 1
    /\ UNCHANGED <<prune, batch, task, query>>

(* queryResult.get() waits for it. *)
GetResult == OutputResults /\ UNCHANGED main

(* The writer fails at one of the rows: an exception, and System.exit().    *)
WriteFails ==
    /\ OutputResults
    /\ result[next] # << >>
    /\ main' = "exit"

(* An exception of the query ends the program. *)
GetFails ==
    /\ main = "get"
    /\ next <= LastLine
    /\ task[next] = "failed" \/ (task[next] = "done" /\ NotUnique)
    /\ main' = "exit"
    /\ UNCHANGED <<prune, batch, next, task, query, buffer, file>>

(* finally: csvWriter.close() and executor.dispose() *)
Close ==
    /\ main = "get"
    /\ next > LastLine
    /\ file' = file \o buffer
    /\ buffer' = << >>
    /\ main' = "disposed"
    /\ UNCHANGED <<prune, batch, next, task, query>>

(* close() cannot write all that is left: System.exit() *)
CloseFails ==
    /\ main = "get"
    /\ next > LastLine
    /\ Write(<< >>)
    /\ main' = "exit"
    /\ UNCHANGED <<prune, batch, next, task, query>>

MainStep ==
    \/ Submit \/ Unreadable \/ AllRead
    \/ GetResult \/ WriteFails \/ GetFails
    \/ Close \/ CloseFails

-----------------------------------------------------------------------------
(* The threads of the pool: at most Threads queries at a time, the first    *)
(* submitted first.  System.exit() stops them.                              *)
Running == {i \in Line : task[i] = "running"}

StartQuery(i) ==
    /\ main # "exit"
    /\ task[i] = "queued"
    /\ \A j \in 1..i - 1 : task[j] # "queued"
    /\ Cardinality(Running) < Threads
    /\ SetTask(i, "running")
    /\ UNCHANGED <<prune, batch, main, next, query, buffer, file>>

(* Mutant of Rows: the first result is kept. *)
RowsKeepFirst(i, unique, hits) ==
    IF unique /\ Len(hits) > 1
       THEN <<Row(i, hits[1]), Row(i, 0)>>
       ELSE [k \in DOMAIN hits |-> Row(i, hits[k])]

(* With enforceUnique more than one result makes a single one, which says   *)
(* that there is no match.                                                  *)
Rows(i, unique, hits) ==
    IF unique /\ Len(hits) > 1
       THEN <<Row(i, 0)>>
       ELSE [k \in DOMAIN hits |-> Row(i, hits[k])]

Answer(i) ==
    /\ main # "exit"
    /\ task[i] = "running"
    /\ SetTask(i, "done")
    /\ \E hits \in Hits :
          /\ found' = [found EXCEPT ![i] = Len(hits)]
          /\ result' = [result EXCEPT ![i] =
                Rows(i, enforceUnique[i], QueryIndex(hits, MaxResults, prune))]
    /\ UNCHANGED <<prune, batch, main, next, enforceUnique, buffer, file>>

(* Mutant of QueryFails: the exception is swallowed. *)
QueryFailsSilently(i) ==
    /\ main # "exit"
    /\ task[i] = "running"
    /\ SetTask(i, "unread")
    /\ UNCHANGED <<prune, batch, main, next, query, buffer, file>>

(* No connection, no JSON, or a status code that is an error *)
QueryFails(i) ==
    /\ main # "exit"
    /\ task[i] = "running"
    /\ SetTask(i, "failed")
    /\ UNCHANGED <<prune, batch, main, next, query, buffer, file>>

Started == \E i \in Line : StartQuery(i)
Ended == \E i \in Line : Answer(i) \/ QueryFails(i)

PoolStep == Started \/ Ended

Next == MainStep \/ PoolStep

Spec == Init /\ [][Next]_vars

(* The main thread runs, and a free thread of the pool starts a query.  A   *)
(* query need not end: invoke() has no time-out, neither for the connection *)
(* nor for the answer.                                                      *)
FairSpec == Spec /\ WF_vars(MainStep) /\ WF_vars(Started)

-----------------------------------------------------------------------------
(* Properties *)

(* Every variable has its type, and a query that was not made has no result. *)
TypeOK ==
    /\ prune \in BOOLEAN
    /\ batch \in BOOLEAN
    /\ main \in {"read", "get", "disposed", "exit"}
    /\ next \in 1..Lines + 1
    /\ task \in [Line -> {"unread", "queued", "running", "done", "failed"}]
    /\ enforceUnique \in [Line -> BOOLEAN]
    /\ found \in [Line -> 0..MaxHits]
    /\ \A i \in Line :
          /\ \A k \in DOMAIN result[i] : result[i][k] \in Line \X (0..MaxHits)
          /\ task[i] # "done" => result[i] = << >>
    /\ \A s \in {buffer, file} : \A k \in DOMAIN s : s[k] \in Line \X (0..MaxHits)

(* However the queries overlap and in whichever order they end: what the     *)
(* program writes, and when it has ended, is what SequentialClient allows.   *)
(* No line is skipped, doubled or exchanged with another, although the help  *)
(* says that the order may not be preserved; what System.exit() leaves in    *)
(* the file is the beginning of that; and a program that ends without it has *)
(* written the results of every line.                                        *)
Sequential ==
    INSTANCE SequentialClient WITH
        last    <- LastLine,
        line    <- IF main = "read" THEN 1 ELSE next,
        rows    <- file \o buffer,
        written <- Len(file),
        ended   <- CASE main \in {"read", "get"} -> "no"
                     [] main = "disposed"        -> "complete"
                     [] main = "exit"            -> "exit"

ImplementsSequential == Sequential!Spec

(* The rows of a line are its best hits in their order and no more than the *)
(* service allows; with enforceUnique there is one at most.                 *)
RowsAreBest ==
    \A i \in Line :
        LET rows == result[i] IN
        /\ Len(rows) <= MaxResults
        /\ enforceUnique[i] => Len(rows) <= 1
        /\ rows # <<Row(i, 0)>> =>
              \A k \in DOMAIN rows : rows[k] = Row(i, k) /\ k <= found[i]

(* The program ends, or a query is held up for ever by the service: get(),   *)
(* which has no time-out either, never waits for one that no thread starts,  *)
(* or that failed without its future being told.                             *)
EndsOrHeldUp ==
    \/ <>(main \in {"disposed", "exit"})
    \/ \E i \in Line : <>[](task[i] = "running")

(* "All query results" (GeocodingResult.java:114): the only hit of a search  *)
(* is among the results.                                                    *)
OnlyHitIsFound ==
    \A i \in Line : task[i] = "done" /\ found[i] = 1 => result[i] = <<Row(i, 1)>>

=============================================================================
