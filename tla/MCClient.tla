------------------------------ MODULE MCClient ------------------------------
(* Client with model values, for TLC. *)
EXTENDS Client

CONSTANTS c1, c2, p1, x1

OneCall    == {c1}
TwoCalls   == {c1, c2}
NoCloses   == {}
OneConnect == {p1}
OneClose   == {x1}

=============================================================================
