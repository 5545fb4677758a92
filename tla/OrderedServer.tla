---------------------------- MODULE OrderedServer ----------------------------
(***************************************************************************)
(* What a client of cntlm can rely on, whatever becomes of its connection: *)
(* each of its requests gets one answer, in the order they were sent and   *)
(* not before they were; an answer is whole before the next one begins;    *)
(* and one whose end only the end of the connection tells (a page of       *)
(* cntlm's own, a body without a length, a tunnel) is the last.  A reply   *)
(* whose server announced its body by no header at all may be cut: the     *)
(* client gets its head alone, and the next answer may follow.             *)
(* ProxyThread implements this.                                            *)
(***************************************************************************)
EXTENDS Naturals

VARIABLES
    sent,      \* how many requests the client has sent
    answered,  \* how many answers it has begun to get
    answer,    \* the last of them: "begun", "whole", "cut" or "final"
    closed     \* whether the connection is closed

vars == <<sent, answered, answer, closed>>

Init ==
    /\ sent = 0
    /\ answered = 0
    /\ answer = "whole"
    /\ closed = FALSE

Request ==
    /\ ~closed
    /\ sent' = sent + 1
    /\ UNCHANGED <<answered, answer, closed>>

Answer ==
    /\ ~closed
    /\ answer \in {"whole", "cut"}
    /\ answered < sent
    /\ answered' = answered + 1
    /\ answer' \in {"begun", "whole", "cut", "final"}
    /\ UNCHANGED <<sent, closed>>

Complete ==
    /\ ~closed
    /\ answer = "begun"
    /\ answer' = "whole"
    /\ UNCHANGED <<sent, answered, closed>>

Close ==
    /\ ~closed
    /\ closed' = TRUE
    /\ UNCHANGED <<sent, answered, answer>>

Next == Request \/ Answer \/ Complete \/ Close

Spec == Init /\ [][Next]_vars

=============================================================================
