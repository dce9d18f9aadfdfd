---------------------------- MODULE MCPhpServer ----------------------------
(* PhpServer with model values, for TLC. *)
EXTENDS PhpServer

CONSTANTS s1, s2, m1, m2, r1, r2, r3, q1, q2

TwoServices    == {s1, s2}
TwoMethods     == {m1, m2}
ThreeCallbacks == {r1, r2, r3}
TwoCalls       == {q1, q2}

\* r1 is of m1 and r2 of m2 of the same service, r3 of m1 of the other.
TheServices == [x \in ThreeCallbacks \cup TwoCalls |->
                    IF x \in {r3, q2} THEN s2 ELSE s1]
TheMethods  == [x \in ThreeCallbacks \cup TwoCalls |->
                    IF x = r2 THEN m2 ELSE m1]

=============================================================================
