------------------------------- MODULE Queues -------------------------------
(* The operations beyond those of Sequences that AppState.queue (VecDeque)    *)
(* and the playground's list of files need, on sequences that hold an entry   *)
(* at most once.                                                              *)
EXTENDS Naturals, Sequences, Functions

PushFront(e, q) == <<e>> \o q

\* retain(|id| id != e), filter((file) => file.name !== e)
Without(q, e) ==
    IF e \in Range(q)
    THEN LET i == CHOOSE i \in 1..Len(q) : q[i] = e
         IN  SubSeq(q, 1, i - 1) \o SubSeq(q, i + 1, Len(q))
    ELSE q

=============================================================================
