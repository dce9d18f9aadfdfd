----------------------------- MODULE Deliveries -----------------------------
(***************************************************************************)
(* Client with a history: every request that a stream has carried to the   *)
(* transport, in order, whatever has become of it since.  Client itself    *)
(* forgets a request once the peer has answered it or the stream is lost.  *)
(***************************************************************************)
EXTENDS Client

VARIABLE asked      \* history: the requests that each stream has carried

deliveryVars == <<vars, asked>>

DeliveryInit == Init /\ asked = [s \in Connects |-> <<>>]

\* The history of a stream grows by the frame that the transport takes.
Recorded ==
    asked' = [s \in Connects |->
        IF Len(toServer'[s]) > Len(toServer[s])
        THEN Append(asked[s], toServer'[s][Len(toServer'[s])])
        ELSE asked[s]]

DeliveryNext == Next /\ Recorded

DeliverySpec == DeliveryInit /\ [][DeliveryNext]_deliveryVars

-----------------------------------------------------------------------------
(* Properties.                                                             *)

\* The peer is never given the request of a call twice, whether or not it
\* has answered the first copy or the stream that carried it is gone: not
\* by the frames that failed and cancelled sends leave in a write buffer,
\* not after a timeout, and not over the stream of a later connect.
AtMostOnceDelivery ==
    \A s, t \in Connects :
        \A i \in 1 .. Len(asked[s]), j \in 1 .. Len(asked[t]) :
            asked[s][i].of = asked[t][j].of => s = t /\ i = j

=============================================================================
