---------------------------- MODULE MessageQueue ----------------------------
(***************************************************************************)
(* What a MessageStream promises the two ends of it: messages are received *)
(* whole, once each and in the order they were sent, up to a point where   *)
(* receiving ends.                                                         *)
(***************************************************************************)
EXTENDS Naturals, Sequences

CONSTANT Messages

VARIABLES
    sent,     \* messages sent, in order
    received, \* messages received, in order
    over      \* whether receiving has ended

vars == <<sent, received, over>>

Init == sent = <<>> /\ received = <<>> /\ over = FALSE

Send(m) ==
    /\ sent' = Append(sent, m)
    /\ UNCHANGED <<received, over>>

Receive ==
    /\ ~ over
    /\ Len(received) < Len(sent)
    /\ received' = Append(received, sent[Len(received) + 1])
    /\ UNCHANGED <<sent, over>>

End ==
    /\ ~ over
    /\ over' = TRUE
    /\ UNCHANGED <<sent, received>>

Next == (\E m \in Messages : Send(m)) \/ Receive \/ End

Spec == Init /\ [][Next]_vars

=============================================================================
