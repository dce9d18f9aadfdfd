----------------------------- MODULE RpcSystem -----------------------------
(***************************************************************************)
(* A client of src/src/client.rs and the server of src/src/server.rs at    *)
(* the two ends of its streams.  Client brings its own view of a peer and  *)
(* Server its own view of clients; here each step of the peer is a step of *)
(* Server, and each step of a client one of Client, so that what the two   *)
(* modules leave open about each other is decided by the other's code.     *)
(*                                                                         *)
(* The session that a connect opens has the name of that connect.          *)
(***************************************************************************)
EXTENDS Deliveries

CONSTANTS
    Names, Registrars, NameOf, Malformed,   \* as in Server
    Undecodable  \* a request in a format the server is not configured for

VARIABLES
    method,     \* the method each call asks for
    services, readers, lockQueue, registerPc, order,    \* as in Server
    sessionPc, taken, service, response, replies, read, floor,
    execution   \* history: what became of the request of each call

serverVars == <<services, readers, lockQueue, registerPc, order, sessionPc,
                taken, service, response, replies, read, floor>>
systemVars == <<deliveryVars, method, serverVars, execution>>

ASSUME SystemAssumption ==
    /\ NameOf \in [Registrars -> Names]
    /\ Registrars \cap Connects = {}
    /\ {Malformed, Undecodable} \cap Names = {} /\ Malformed # Undecodable
    /\ NoOne \notin Registrars

\* The server's view of a stream.  Its own end of it is dropped when the
\* session has ended, which Server knows from sessionPc.
SeenByServer(s) ==
    CASE stream[s] = "none"               -> "none"
      [] stream[s] \in {"open", "ended"}  -> "open"
      [] stream[s] = "finished"           -> "finished"
      [] stream[s] = "down"               -> "broken"

\* The methods that the requests in q ask for.
MethodsOf(q) == [k \in 1 .. Len(q) |-> method[q[k].of]]

\* What Server calls sent and stream, and how many requests a stream has at
\* most: each is of a call of its own.
MethodsSent == [s \in Connects |-> MethodsOf(asked[s])]
StreamsSeen == [s \in Connects |-> SeenByServer(s)]
EveryCall   == [s \in Connects |-> Cardinality(Calls)]

S == INSTANCE Server WITH
    Sessions    <- Connects,
    Readers     <- Connects,
    MaxRequests <- EveryCall,
    Garbage     <- Undecodable,
    sent        <- MethodsSent,
    stream      <- StreamsSeen

SystemInit ==
    /\ DeliveryInit
    /\ method \in [Calls -> S!Methods]
    /\ S!Init
    /\ execution = [c \in Calls |-> "none"]

\* The call whose request the session has in hand, and which it takes next.
InHand(s) == asked[s][taken[s]]
NextOf(s) == asked[s][taken[s] + 1]

Executed(c, how) == execution' = [execution EXCEPT ![c] = how]

-----------------------------------------------------------------------------
(* The client.  Opening, dropping and losing a stream are seen by the      *)
(* server through SeenByServer.                                            *)

ClientAlone ==
    /\ \/ \E c \in Calls :
            \/ TakeId(c) \/ Register(c)
            \/ Refuse(c) \/ RefuseOversized(c) \/ BeginSend(c) \/ FailSend(c)
            \/ Receive(c) \/ Timeout(c) \/ Cancel(c)
       \/ \E p \in Connects :
            \/ ConnectStep(p)
            \/ HandlerTake(p) \/ HandlerEnd(p) \/ HandlerPutBack(p)
            \/ ConnectionLost(p)
       \/ \E x \in Closes : CloseStep(x)
       \/ DropClient
    /\ UNCHANGED <<method, asked, serverVars, execution>>

\* A frame reaches the transport.
Ask(c) ==
    /\ Flush(c)
    /\ Recorded
    /\ UNCHANGED <<method, serverVars, execution>>

\* A response is received, and with it room made for the next.
Dispatch(h) ==
    /\ HandlerDispatch(h)
    /\ read' = [read EXCEPT ![handlerStream[h]] = @ + 1]
    /\ UNCHANGED <<method, asked, services, readers, lockQueue, registerPc,
                   order, sessionPc, taken, service, response, replies,
                   floor, execution>>

-----------------------------------------------------------------------------
(* The server.                                                             *)

RegisterService(r) ==
    /\ UNCHANGED <<vars, method, asked, execution>>
    /\ S!RegisterStep(r)

Accept(s) ==
    /\ UNCHANGED <<vars, method, asked, execution>>
    /\ S!AcceptStream(s)

TakeUp(s) ==
    /\ PeerRead(s)
    /\ UNCHANGED <<method, asked>>
    /\ \/ S!Receive(s) /\ UNCHANGED execution
       \/ S!ReceiveMalformed(s) /\ Executed(NextOf(s).of, "rejected")

LookUp(s) ==
    /\ UNCHANGED <<vars, method, asked>>
    /\ \/ S!Found(s) /\ Executed(InHand(s).of, "running")
       \/ S!NotFound(s) /\ Executed(InHand(s).of, "rejected")

Serve(s) ==
    /\ UNCHANGED <<vars, method, asked>>
    /\ S!CallDone(s)
    /\ Executed(InHand(s).of, response'[s])

\* The frame of a response, as the client will read it.
Answer(s) ==
    [tag |-> IF response[s] = "ok" THEN "ok" ELSE "rpc_failed",
     id  |-> InHand(s).id, of |-> InHand(s).of]

\* A response written to a stream that the client has dropped is lost.
Respond(s) ==
    /\ IF stream[s] = "open"
       THEN PeerReply(s) /\ toClient'[s] = Append(toClient[s], Answer(s))
       ELSE UNCHANGED vars
    /\ UNCHANGED <<method, asked, execution>>
    /\ S!Reply(s)

\* The task of the session returns or panics, and drops its end.
EndSession(s) ==
    /\ IF stream[s] = "open" THEN PeerEnds(s) ELSE UNCHANGED vars
    /\ UNCHANGED <<method, asked>>
    /\ \/ /\ \/ S!AcceptFail(s) \/ S!EndOfStream(s) \/ S!ReceiveGarbage(s)
             \/ S!ReplyFails(s) \/ S!ReplyTooLong(s)
          /\ UNCHANGED execution
       \/ S!CallPanics(s) /\ Executed(InHand(s).of, "panicked")

\* The client is gone; the server waits for the next one.
Rest == ~ alive /\ UNCHANGED systemVars

SystemNext ==
    \/ ClientAlone
    \/ Rest
    \/ \E c \in Calls : Ask(c)
    \/ \E r \in Registrars : RegisterService(r)
    \/ \E s \in Connects :
        \/ Dispatch(s)
        \/ Accept(s) \/ TakeUp(s) \/ LookUp(s) \/ Serve(s) \/ Respond(s)
        \/ EndSession(s)

SystemSpec == SystemInit /\ [][SystemNext]_systemVars

-----------------------------------------------------------------------------
(* Properties.                                                             *)

\* A call over this client and this server is a RemoteCall: at most one
\* execution whatever is cancelled, lost or reconnected, and an answer that
\* is the outcome of the caller's own request.  An answer to another call
\* is mapped to no outcome that RemoteCall has.
Promised == INSTANCE RemoteCall WITH
    outcome <- [c \in Calls |->
        IF result[c] \in Answers /\ result[c].of # c THEN "foreign"
        ELSE result[c].tag]

ImplementsRemoteCall == Promised!Spec

\* The client can take answers in any order, but this server sends them in
\* the order of the requests: a call that has its answer leaves no call
\* waiting whose request went out on the same stream before.
AnswersInOrder ==
    \A s \in Connects : \A i, j \in 1 .. Len(asked[s]) :
        LET early == asked[s][i].of
            late  == asked[s][j].of
        IN  i < j /\ result[late] \in Answers =>
                ~ (callPc[early] = "waiting" /\ rx[early] = Empty)

=============================================================================
