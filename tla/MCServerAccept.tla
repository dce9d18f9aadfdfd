--------------------------- MODULE MCServerAccept ---------------------------
(* ServerAccept with model values, for TLC. *)
EXTENDS ServerAccept

CONSTANTS a, b, q1, q2, q3

TwoConnections == {a, b}
ThreeRequests  == {q1, q2, q3}

\* Two requests on one connection, of which one has another path.
Asked == [q \in ThreeRequests |-> IF q = q3 THEN b ELSE a]
Rpc   == {q1, q3}

=============================================================================
