---------------------------- MODULE MCDeliveries ----------------------------
(* Deliveries with model values, for TLC. *)
EXTENDS Deliveries, TLC

CONSTANTS c1, c2, p1, p2, x1

TwoCalls    == {c1, c2}
TwoConnects == {p1, p2}
OneClose    == {x1}

\* Calls are interchangeable, and so are connects: no liveness property is
\* checked.
Symmetry == Permutations(TwoCalls) \cup Permutations(TwoConnects)

=============================================================================
