---------------------------- MODULE MCRpcSystem ----------------------------
(* RpcSystem with model values, for TLC. *)
EXTENDS RpcSystem, TLC

CONSTANTS c1, c2, p1, x1, n1, r1

TwoCalls     == {c1, c2}
OneConnect   == {p1}
OneClose     == {x1}
OneName      == {n1}
OneRegistrar == {r1}
OnlyName     == [r \in OneRegistrar |-> n1]

\* Calls are interchangeable, and no liveness property is checked.
CallSymmetry == Permutations(TwoCalls)

=============================================================================
