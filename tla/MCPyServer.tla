----------------------------- MODULE MCPyServer -----------------------------
(* PyServer with model values, for TLC. *)
EXTENDS PyServer

CONSTANTS t1, t2, n1, n2, q1, q2

TwoThreads  == {t1, t2}
TwoNames    == {n1, n2}
TwoRequests == {q1, q2}

OwnName == [q \in TwoRequests |-> IF q = q1 THEN n1 ELSE n2]

=============================================================================
