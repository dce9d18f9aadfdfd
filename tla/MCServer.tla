------------------------------ MODULE MCServer ------------------------------
(* Server with model values, for TLC. *)
EXTENDS Server, TLC

CONSTANTS n1, r1, s1, s2

OneName      == {n1}
OneRegistrar == {r1}
TwoSessions  == {s1, s2}
OneSession   == {s1}

OnlyName == [r \in OneRegistrar |-> n1]

\* s2 sends two requests, so that its second response waits for the client.
TwoOfS2 == [s \in TwoSessions |-> IF s = s2 THEN 2 ELSE 1]

=============================================================================
