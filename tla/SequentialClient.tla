-------------------------- MODULE SequentialClient --------------------------
(***************************************************************************)
(* What the output of the command line client of bev-search is, with any   *)
(* number of threads: that of a program that makes one query after the     *)
(* other.  The rows of a line are its best results in their order, or the  *)
(* row that says there is no match; rows reach the file some time later,   *)
(* and all of them do unless the program gives up.  BatchClient implements *)
(* this with a pool of threads.                                            *)
(*                                                                         *)
(* It is more than the program's help promises: of the option -b that says *)
(* "The order of addresses may not be preserved" (BevRestClient.java:205). *)
(* The code preserves it, because the results are written in the order of  *)
(* the list of futures (BevRestClient.java:403-406).                       *)
(***************************************************************************)
EXTENDS Naturals, Sequences

CONSTANTS Lines, MaxResults

VARIABLES
    last,     \* the number of queries to be made
    line,     \* the one to be made next
    rows,     \* the rows of the queries made
    written,  \* how many of them the file has
    ended     \* whether the program has ended, and how

vars == <<last, line, rows, written, ended>>

(* The possible rows of a line; result 0 is "no match found". *)
RowsOf(i) ==
    {<<<<i, 0>>>>} \cup {[k \in 1..n |-> <<i, k>>] : n \in 0..MaxResults}

Init ==
    /\ last \in {1, Lines}
    /\ line = 1
    /\ rows = << >>
    /\ written = 0
    /\ ended = "no"

(* The program may end while it writes the rows. *)
Query ==
    /\ ended = "no"
    /\ line <= last
    /\ \E r \in RowsOf(line) :
          /\ rows' = rows \o r
          /\ written' \in written..(Len(rows) + Len(r))
    /\ line' = line + 1
    /\ ended' \in {"no", "exit"}
    /\ UNCHANGED last

Finish ==
    /\ ended = "no"
    /\ line > last
    /\ written' = Len(rows)
    /\ ended' = "complete"
    /\ UNCHANGED <<last, line, rows>>

GiveUp ==
    /\ ended = "no"
    /\ ended' = "exit"
    /\ written' \in written..Len(rows)
    /\ UNCHANGED <<last, line, rows>>

Next == Query \/ Finish \/ GiveUp

Spec == Init /\ [][Next]_vars

=============================================================================
