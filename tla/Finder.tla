------------------------------- MODULE Finder -------------------------------
(***************************************************************************)
(* FinderImpl.queryIndex() of bev-search: the results made of the hits of  *)
(* a search.  The hits are given as the sequence of their scores, the best *)
(* first; a result is the position of its hit.  Scores are exact here and  *)
(* floating-point numbers in the code.                                     *)
(***************************************************************************)
EXTENDS Integers, Sequences

(* What the loop over the hits carries from one to the next; 0 for null *)
Start == [score |-> 0, diff |-> 0, previous |-> 0, results |-> << >>, done |-> FALSE]

(* diff * 1.9 < previousDiff *)
Pruned(loop, diff) == loop.score # 0 /\ 19 * diff < 10 * loop.diff

(* addResult() ignores null. *)
AddResult(results, r) == IF r = 0 THEN results ELSE Append(results, r)

(* A hit is added to the results only when the next one was not pruned. *)
NextHit(loop, hits, prune, i) ==
    LET diff == loop.score - hits[i] IN
    IF loop.done THEN loop
    ELSE IF prune /\ Pruned(loop, diff) THEN [loop EXCEPT !.done = TRUE]
    ELSE [loop EXCEPT !.score = hits[i], !.diff = diff, !.previous = i,
                      !.results = AddResult(loop.results, loop.previous)]

(* setMaxResults(maxResults + 1) *)
Fetched(hits, maxResults) ==
    IF Len(hits) > maxResults + 1 THEN maxResults + 1 ELSE Len(hits)

(* What the loop carries after each of the first n hits *)
Loop(hits, n, prune) ==
    LET loop[i \in 0..n] ==
            IF i = 0 THEN Start ELSE NextHit(loop[i - 1], hits, prune, i)
    IN  loop

QueryIndex(hits, maxResults, prune) ==
    LET n == Fetched(hits, maxResults) IN Loop(hits, n, prune)[n].results

=============================================================================
