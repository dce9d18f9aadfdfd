--------------------------- MODULE MCMessageStream ---------------------------
(* MessageStream with model values, for TLC. *)
EXTENDS MessageStream

CONSTANTS m0, m2, m3

\* An empty message, one at the limit and one beyond.
ThreeMessages == {m0, m2, m3}
Sizes ==
    [m \in ThreeMessages |-> CASE m = m0 -> 0 [] m = m2 -> 2 [] m = m3 -> 3]

=============================================================================
